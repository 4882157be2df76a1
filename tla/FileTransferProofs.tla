------------------------- MODULE FileTransferProofs -------------------------
(***************************************************************************)
(* The transfer of files, for every set of files, every number of blocks   *)
(* and every number of uploads: the types hold, no part of a file is ever  *)
(* delivered although a frame is lost, and until the first disturbance     *)
(* every file that was sent whole is.                                      *)
(***************************************************************************)
EXTENDS FileTransfer, SequenceTheorems, TLAPS

\* What the counts of the upload in progress have to do with each other, on any line
Counts ==
    /\ \A f \in Files : http[f] > 0 => http[f] < NumBlocks[f]
    /\ Orderly => /\ ~(fsUp /\ apiUp)
                  /\ fsUp => blockCount = chunk.next - 1
                  /\ \A f \in Files : http[f] > 0 =>
                        /\ \A g \in Files : http[g] > 0 => g = f
                        /\ apiUp => http[f] = blockCount

\* The frames on the line follow one another as an upload sends them; a loss takes the first ...
Follows(p, n) ==
    /\ n.type = "BLOCK" => \/ n.index = 1 /\ p = [type |-> "START", file |-> n.file]
                           \/ n.index > 1 /\ p = [type |-> "BLOCK", file |-> n.file, index |-> n.index - 1]
    /\ n.type = "END" => p.type = "BLOCK" /\ p.index = n.count /\ n.count = NumBlocks[p.file]
InOrder(s) ==
    /\ \A k \in 1..Len(s) : s[k].type = "BLOCK" => s[k].index \in 1..NumBlocks[s[k].file]
    /\ \A k \in 1..(Len(s) - 1) : Follows(s[k], s[k + 1])

\* ... the first of them goes on from what the Pi has, if it takes part at all ...
RxExpects(n) ==
    rx.active =>
        /\ n.type = "BLOCK" => rx.file = n.file /\ rx.count = n.index - 1
        /\ n.type = "END" => rx.count = NumBlocks[rx.file]
RxFilled  == rx.active => rx.count <= NumBlocks[rx.file] /\ \A i \in 1..rx.count : rx.buf[i] = rx.file
RxInOrder == RxFilled /\ (link # <<>> => RxExpects(Head(link)))

\* ... and the upload in progress from the last.
LastIs(l, r, f, c) == IF l = <<>> THEN r.active => r.file = f /\ r.count = c
                      ELSE l[Len(l)] = [type |-> "BLOCK", file |-> f, index |-> c]
SenderInOrder ==
    /\ fsUp /\ chunk.next > 1 => LastIs(link, rx, chunk.file, chunk.next - 1)
    /\ \A f \in Files : apiUp /\ http[f] > 0 => LastIs(link, rx, f, http[f])

\* So a file that is delivered is whole.
Whole(r)  == r.active => \A i \in 1..NumBlocks[r.file] : r.buf[i] = r.file
StreamInv == InOrder(link) /\ RxInOrder /\ SenderInOrder /\ Whole(delivered)

\* Until the first disturbance the Pi takes part in every upload: it is ready for the next
\* frame, or for what an upload in progress will send ...
Takes(n) == n.type \in {"BLOCK", "END"} => rx.active /\ (n.type = "END" => n.count = rx.count)
PiReady ==
    IF link # <<>> THEN Takes(Head(link))
    ELSE /\ fsUp /\ chunk.next > 1 => rx.active
         /\ \A f \in Files : apiUp /\ http[f] > 0 => rx.active

\* ... and the end records on the line make up for the files it has not delivered yet.
Ends(n) == IF n.type = "END" THEN 1 ELSE 0
CountsUp(l, m, n) ==
    \E c \in [0..Len(l) -> Nat] :
        c[0] = m /\ c[Len(l)] = n /\ \A k \in 1..Len(l) : c[k] = c[k - 1] + Ends(l[k])
Uninterrupted == PiReady /\ CountsUp(link, deliveries, completed)

-----------------------------------------------------------------------------
(* The types *)

LEMMA Numbers == /\ \A f \in Files : NumBlocks[f] \in Nat
                 /\ MaxUploads \in Nat /\ MaxLoss \in Nat /\ Orderly \in BOOLEAN
BY FilesAssumption, BoundsAssumption

\* The ESP32 and the clock, the Pi, and the rest of TypeOK
EspFlags == fsUp \in BOOLEAN /\ apiUp \in BOOLEAN /\ cmdDue \in BOOLEAN /\ long \in BOOLEAN
EspOK ==
    /\ EspFlags
    /\ blockCount \in Nat /\ (Orderly => \E f \in Files : blockCount <= NumBlocks[f])
    /\ chunk \in [file : Files, next : Nat] /\ chunk.next \in 1..(NumBlocks[chunk.file] + 1)
    /\ http \in [Files -> Nat] /\ \A f \in Files : http[f] <= NumBlocks[f]
    /\ pause \in 0..2 /\ uploads \in 0..MaxUploads /\ completed \in Nat
PiOK ==
    /\ IsReception(rx) /\ IsReception(delivered)
    /\ deliveries \in Nat /\ undisturbed \in BOOLEAN /\ orphan \in BOOLEAN
LineOK == link \in Seq(Frame) /\ losses \in 0..MaxLoss
TransferOK == EspOK /\ PiOK /\ LineOK /\ Counts

LEMMA TypesOfParts == TransferOK => TypeOK
BY DEF TransferOK, EspOK, EspFlags, PiOK, LineOK, TypeOK

LEMMA InitTransfer == Init => TransferOK
<1> SUFFICES ASSUME Init PROVE TransferOK
    OBVIOUS
<1>1. PICK f \in Files : chunk = [file |-> f, next |-> 1]
    BY FilesAssumption DEF Init
<1>2. http = [g \in Files |-> 0]
    BY DEF Init
<1>3. /\ fsUp = FALSE /\ apiUp = FALSE /\ blockCount = 0 /\ cmdDue = FALSE /\ long = FALSE /\ pause = 0
      /\ link = <<>> /\ rx = NoReception /\ delivered = NoReception
      /\ uploads = 0 /\ losses = 0 /\ completed = 0 /\ deliveries = 0
      /\ undisturbed = TRUE /\ orphan = FALSE
    BY DEF Init
<1>4. NumBlocks[f] \in Nat
    BY Numbers
<1>5. http \in [Files -> Nat] /\ \A g \in Files : http[g] = 0 /\ http[g] <= NumBlocks[g]
    BY <1>2, Numbers
<1>6. /\ chunk \in [file : Files, next : Nat] /\ chunk.next \in 1..(NumBlocks[chunk.file] + 1)
      /\ (Orderly => \E g \in Files : blockCount <= NumBlocks[g])
    BY <1>1, <1>3, <1>4
<1>7. EspFlags
    BY <1>3 DEF EspFlags
<1>8. blockCount \in Nat /\ pause \in 0..2 /\ uploads \in 0..MaxUploads /\ completed \in Nat
    BY <1>3, Numbers
<1>9. EspOK
    BY <1>5, <1>6, <1>7, <1>8 DEF EspOK
<1>10. PiOK
    BY <1>3 DEF PiOK, IsReception
<1>11. LineOK
    BY <1>3, Numbers DEF LineOK
<1>12. Counts
    BY <1>3, <1>5 DEF Counts
<1> QED
    BY <1>9, <1>10, <1>11, <1>12 DEF TransferOK

LEMMA FramesType ==
    ASSUME NEW f \in Files, NEW i \in 1..NumBlocks[f], NEW count \in Nat, NEW by \in {"FS", "API"}
    PROVE  Frames(f, i, count, by) \in Seq(Frame)
<1> DEFINE a == IF count = 0 THEN <<[type |-> "START", file |-> f]>> ELSE <<>>
           b == <<[type |-> "BLOCK", file |-> f, index |-> i]>>
           d == IF cmdDue THEN <<[type |-> "CMD", by |-> by]>> ELSE <<>>
           e == <<EndRecord(count)>>
           c == IF i < NumBlocks[f] THEN <<>> ELSE e \o d
<1>1. /\ [type |-> "START", file |-> f] \in Frame
      /\ [type |-> "CMD", by |-> by] \in Frame
      /\ EndRecord(count) \in Frame
    BY DEF Frame, EndRecord
<1>2. [type |-> "BLOCK", file |-> f, index |-> i] \in Frame
  <2>1. i \in Block
      BY DEF Block
  <2> QED
      BY <2>1 DEF Frame
<1>3. a \in Seq(Frame) /\ b \in Seq(Frame) /\ d \in Seq(Frame) /\ e \in Seq(Frame)
    BY <1>1, <1>2
<1>4. c \in Seq(Frame)
    BY <1>3, ConcatProperties
<1> HIDE DEF a, b, c
<1>5. (a \o b) \o c \in Seq(Frame)
    BY <1>3, <1>4, ConcatProperties
<1> QED
    BY <1>5 DEF a, b, c, Frames

LEMMA BlockSent ==
    ASSUME TransferOK, NEW f \in Files, NEW i \in 1..NumBlocks[f], NEW count \in Nat, NEW by \in {"FS", "API"},
           UploadCommonBlockHandler(f, i, count, by), Orderly => count = i - 1
    PROVE  /\ link' \in Seq(Frame) /\ pause' \in 0..2 /\ blockCount' \in Nat /\ blockCount' = count + 1
           /\ cmdDue' \in BOOLEAN /\ completed' \in Nat
           /\ (Orderly => \E g \in Files : blockCount' <= NumBlocks[g])
<1>1. link \in Seq(Frame) /\ Frames(f, i, count, by) \in Seq(Frame)
    BY FramesType DEF TransferOK, LineOK
<1>2. link' \in Seq(Frame)
    BY <1>1, ConcatProperties DEF UploadCommonBlockHandler
<1>3. cmdDue' \in BOOLEAN /\ completed' \in Nat
  <2>1. cmdDue \in BOOLEAN /\ completed \in Nat
      BY DEF TransferOK, EspOK, EspFlags
  <2>2. CASE UNCHANGED <<cmdDue, completed>>
      BY <2>1, <2>2
  <2>3. CASE cmdDue' = FALSE /\ completed' = completed + 1
    <3>1. cmdDue' \in BOOLEAN
        BY <2>3
    <3> QED
        BY <2>1, <2>3, <3>1
  <2> QED
      BY <2>2, <2>3 DEF UploadCommonBlockHandler
<1>4. blockCount' = count + 1 /\ pause' = 0
    BY DEF UploadCommonBlockHandler
<1>5. Orderly => blockCount' = i /\ i <= NumBlocks[f]
    BY <1>4, Numbers
<1> QED
    BY <1>2, <1>3, <1>4, <1>5

LEMMA StartTypes ==
    ASSUME TransferOK, NEW f \in Files, NEW cmd \in BOOLEAN, StartUploadFromFileSystem(f, cmd)
    PROVE  TransferOK'
<1>1. EspOK /\ PiOK /\ LineOK /\ Counts
    BY DEF TransferOK
<1>2. /\ ~fsUp /\ ~apiUp /\ uploads < MaxUploads /\ uploads' = uploads + 1 /\ fsUp' = TRUE /\ blockCount' = 0
      /\ cmdDue' = cmd /\ chunk' = [file |-> f, next |-> 1] /\ long' = FALSE /\ pause' = 0
      /\ UNCHANGED <<apiUp, http, completed, link, rx, delivered, deliveries, losses, undisturbed, orphan>>
    BY DEF StartUploadFromFileSystem, UploadInProgress, FirstCount, piVars
<1>3. uploads' \in 0..MaxUploads /\ NumBlocks[f] \in Nat
    BY <1>1, <1>2, Numbers DEF EspOK
<1>4. EspOK'
  <2>1. /\ chunk' \in [file : Files, next : Nat] /\ chunk'.next \in 1..(NumBlocks[chunk'.file] + 1)
        /\ \E g \in Files : blockCount' <= NumBlocks[g]
      BY <1>2, <1>3
  <2>2. EspFlags'
      BY <1>1, <1>2 DEF EspOK, EspFlags
  <2>3. blockCount' \in Nat /\ pause' \in 0..2
      BY <1>2
  <2> QED
      BY <1>1, <1>2, <1>3, <2>1, <2>2, <2>3 DEF EspOK
<1>5. PiOK' /\ LineOK'
    BY <1>1, <1>2 DEF PiOK, LineOK
<1>6. Counts'
  <2>1. Orderly => blockCount' = chunk'.next - 1
      BY <1>2
  <2> QED
      BY <1>1, <1>2, <2>1 DEF Counts
<1> QED
    BY <1>4, <1>5, <1>6 DEF TransferOK

LEMMA ChunkTypes == TransferOK /\ ServiceChunk => TransferOK'
<1> SUFFICES ASSUME TransferOK, ServiceChunk PROVE TransferOK'
    OBVIOUS
<1>1. EspOK /\ PiOK /\ LineOK /\ Counts
    BY DEF TransferOK
<1>2. fsUp /\ UNCHANGED <<http, long, uploads, rx, delivered, deliveries, losses, undisturbed>>
    BY DEF ServiceChunk, piVars
<1>3. CASE /\ chunk.next <= NumBlocks[chunk.file]
           /\ UploadCommonBlockHandler(chunk.file, chunk.next, blockCount, "FS")
           /\ chunk' = [chunk EXCEPT !.next = @ + 1]
           /\ fsUp' = (chunk.next < NumBlocks[chunk.file])
           /\ apiUp' = (apiUp /\ fsUp')
           /\ UNCHANGED orphan
  <2>1. /\ chunk.file \in Files /\ chunk.next \in 1..NumBlocks[chunk.file] /\ blockCount \in Nat
        /\ NumBlocks[chunk.file] \in Nat
      BY <1>1, <1>3, Numbers DEF EspOK
  <2>2. Orderly => blockCount = chunk.next - 1 /\ ~apiUp
      BY <1>1, <1>2 DEF Counts
  <2>3. /\ link' \in Seq(Frame) /\ pause' \in 0..2 /\ blockCount' \in Nat /\ blockCount' = blockCount + 1
        /\ cmdDue' \in BOOLEAN /\ completed' \in Nat
        /\ (Orderly => \E g \in Files : blockCount' <= NumBlocks[g])
      BY <1>3, <2>1, <2>2, BlockSent
  <2>4. /\ chunk' \in [file : Files, next : Nat] /\ chunk'.file = chunk.file /\ chunk'.next = chunk.next + 1
        /\ chunk'.next \in 1..(NumBlocks[chunk'.file] + 1)
    <3>1. chunk' \in [file : Files, next : Nat] /\ chunk'.file = chunk.file /\ chunk'.next = chunk.next + 1
        BY <1>1, <1>3, <2>1 DEF EspOK
    <3> QED
        BY <2>1, <3>1
  <2>5. fsUp' \in BOOLEAN /\ apiUp' \in BOOLEAN /\ (apiUp' => apiUp)
    <3>1. fsUp' \in BOOLEAN
        BY <1>3
    <3> QED
        BY <1>1, <1>3, <3>1 DEF EspOK, EspFlags
  <2>6. EspOK'
    <3>1. EspFlags'
        BY <1>1, <1>2, <2>3, <2>5 DEF EspOK, EspFlags
    <3> QED
        BY <1>1, <1>2, <2>3, <2>4, <3>1 DEF EspOK
  <2>7. PiOK' /\ LineOK'
      BY <1>1, <1>2, <1>3, <2>3 DEF PiOK, LineOK
  <2>8. Counts'
    <3>1. Orderly => blockCount' = chunk'.next - 1 /\ ~apiUp'
        BY <2>1, <2>2, <2>3, <2>4, <2>5
    <3> QED
        BY <1>1, <1>2, <3>1 DEF Counts
  <2> QED
      BY <2>6, <2>7, <2>8 DEF TransferOK
<1>4. CASE /\ fsUp' = FALSE /\ orphan' = (orphan \/ chunk.next > 1)
           /\ UNCHANGED <<apiUp, blockCount, cmdDue, chunk, pause, link, completed>>
  <2>1. EspOK' /\ LineOK' /\ Counts'
      BY <1>1, <1>2, <1>4 DEF EspOK, EspFlags, LineOK, Counts
  <2>2. orphan' \in BOOLEAN
      BY <1>1, <1>4 DEF PiOK
  <2>3. PiOK'
      BY <1>1, <1>2, <2>2 DEF PiOK
  <2> QED
      BY <2>1, <2>3 DEF TransferOK
<1> QED
    BY <1>3, <1>4 DEF ServiceChunk

\* The block counter of an HTTP upload goes round.
LEMMA NextBlock ==
    ASSUME NEW n \in Nat, NEW h \in Nat, h < n
    PROVE  /\ (h + 1) % n \in Nat /\ (h + 1) % n < n
           /\ (h + 1) % n = IF h + 1 < n THEN h + 1 ELSE 0
<1>1. CASE h + 1 < n
    BY <1>1, SMT
<1>2. CASE h + 1 = n
  <2>1. n % n = 0
      BY SMT
  <2> QED
      BY <1>2, <2>1
<1> QED
    BY <1>1, <1>2

LEMMA HttpTypes == ASSUME TransferOK, NEW f \in Files, HttpBlock(f) PROVE TransferOK'
<1> DEFINE i == http[f] + 1
<1>1. EspOK /\ PiOK /\ LineOK /\ Counts
    BY DEF TransferOK
<1>2. /\ NumBlocks[f] \in Nat /\ http[f] \in Nat /\ http[f] < NumBlocks[f] /\ i \in 1..NumBlocks[f]
    BY <1>1, Numbers DEF EspOK, Counts, HttpBlock
<1>3. /\ UNCHANGED <<fsUp, chunk, rx, delivered, deliveries, losses, undisturbed, orphan>>
      /\ http' = [http EXCEPT ![f] = (@ + 1) % NumBlocks[f]]
      /\ UploadAPIBlockHandler(f, i)
      /\ Orderly => ~fsUp /\ (\A g \in Files : http[g] > 0 => g = f) /\ (apiUp => http[f] = blockCount)
                    /\ (~apiUp => http[f] = 0)
  <2>1. \A g \in Files : http[g] \in Nat
      BY <1>1 DEF EspOK
  <2>2. http[f] = 0 => (Orderly => ~UploadInProgress /\ \A g \in Files : http[g] = 0)
      BY DEF HttpBlock
  <2>3. http[f] # 0 => (Orderly => apiUp)
      BY DEF HttpBlock
  <2>4. ASSUME Orderly
        PROVE  ~fsUp /\ (\A g \in Files : http[g] > 0 => g = f) /\ (apiUp => http[f] = blockCount)
                    /\ (~apiUp => http[f] = 0)
    <3>1. CASE http[f] = 0
        BY <2>2, <2>4, <3>1 DEF UploadInProgress
    <3>2. CASE http[f] > 0
        BY <1>1, <2>3, <2>4, <3>2 DEF Counts
    <3> QED
        BY <2>1, <3>1, <3>2
  <2> QED
      BY <2>4 DEF HttpBlock, piVars
<1>4. uploads' \in 0..MaxUploads
  <2>1. uploads \in 0..MaxUploads
      BY <1>1 DEF EspOK
  <2>2. \/ uploads' = uploads
        \/ uploads < MaxUploads /\ uploads' = uploads + 1
      BY DEF HttpBlock
  <2> QED
      BY <2>1, <2>2, Numbers
<1>5. /\ http' \in [Files -> Nat] /\ \A g \in Files : g # f => http'[g] = http[g]
      /\ http'[f] = (IF i < NumBlocks[f] THEN i ELSE 0) /\ http'[f] < NumBlocks[f]
  <2>1. http \in [Files -> Nat]
      BY <1>1 DEF EspOK
  <2>2. /\ i % NumBlocks[f] \in Nat /\ i % NumBlocks[f] < NumBlocks[f]
        /\ i % NumBlocks[f] = IF i < NumBlocks[f] THEN i ELSE 0
      BY <1>2, NextBlock
  <2>3. http' = [http EXCEPT ![f] = i % NumBlocks[f]]
      BY <1>3
  <2> HIDE DEF i
  <2> QED
      BY <2>1, <2>2, <2>3
<1> HIDE DEF i
<1>6. \A g \in Files : http'[g] <= NumBlocks[g]
  <2>1. \A g \in Files : http[g] <= NumBlocks[g]
      BY <1>1 DEF EspOK
  <2> QED
      BY <1>2, <1>5, <2>1
<1>7. PiOK'
    BY <1>1, <1>3 DEF PiOK
<1>8. CASE fsUp
  <2>1. UNCHANGED <<apiUp, blockCount, cmdDue, long, pause, link, completed>>
      BY <1>3, <1>8 DEF UploadAPIBlockHandler
  <2>2. EspOK'
      BY <1>1, <1>3, <1>4, <1>5, <1>6, <2>1 DEF EspOK, EspFlags
  <2>3. LineOK'
      BY <1>1, <1>3, <2>1 DEF LineOK
  <2>4. Counts'
      BY <1>1, <1>2, <1>3, <1>5, <1>8 DEF Counts
  <2> QED
      BY <1>7, <2>2, <2>3, <2>4 DEF TransferOK
<1>9. CASE ~fsUp
  <2>1. /\ UploadCommonBlockHandler(f, i, ApiCount, "API")
        /\ apiUp' = (i < NumBlocks[f]) /\ long' = (long /\ apiUp)
      BY <1>3, <1>9 DEF UploadAPIBlockHandler
  <2>2. ApiCount \in Nat /\ (Orderly => ApiCount = i - 1)
    <3>1. blockCount \in Nat
        BY <1>1 DEF EspOK
    <3>2. CASE apiUp
      <4>1. ApiCount = blockCount
          BY <3>2 DEF ApiCount
      <4> QED
          BY <1>2, <1>3, <3>1, <3>2, <4>1 DEF i
    <3>3. CASE ~apiUp
      <4>1. ApiCount = 0
          BY <3>3 DEF ApiCount
      <4> QED
          BY <1>2, <1>3, <3>3, <4>1 DEF i
    <3> QED
        BY <3>2, <3>3
  <2>3. /\ link' \in Seq(Frame) /\ pause' \in 0..2 /\ blockCount' \in Nat /\ blockCount' = ApiCount + 1
        /\ cmdDue' \in BOOLEAN /\ completed' \in Nat
        /\ (Orderly => \E g \in Files : blockCount' <= NumBlocks[g])
      BY <1>2, <2>1, <2>2, BlockSent
  <2>4. EspFlags'
    <3>1. fsUp' \in BOOLEAN
        BY <1>1, <1>3 DEF EspOK, EspFlags
    <3>2. apiUp' \in BOOLEAN
        BY <2>1
    <3>3. long' \in BOOLEAN
        BY <1>1, <2>1 DEF EspOK, EspFlags
    <3> QED
        BY <2>3, <3>1, <3>2, <3>3 DEF EspFlags
  <2>5. EspOK'
    <3>1. chunk' \in [file : Files, next : Nat] /\ chunk'.next \in 1..(NumBlocks[chunk'.file] + 1)
        BY <1>1, <1>3 DEF EspOK
    <3> QED
        BY <1>4, <1>5, <1>6, <2>3, <2>4, <3>1 DEF EspOK
  <2>6. LineOK'
      BY <1>1, <1>3, <2>3 DEF LineOK
  <2>7. Counts'
    <3>1. \A g \in Files : http'[g] > 0 => http'[g] < NumBlocks[g]
        BY <1>1, <1>5 DEF Counts
    <3>2. Orderly => \A g \in Files : http'[g] > 0 => g = f
        BY <1>3, <1>5
    <3>3. Orderly /\ http'[f] > 0 => http'[f] = blockCount'
        BY <1>2, <1>5, <2>2, <2>3 DEF i
    <3> QED
        BY <1>3, <1>9, <3>1, <3>2, <3>3 DEF Counts
  <2> QED
      BY <1>7, <2>5, <2>6, <2>7 DEF TransferOK
<1> QED
    BY <1>8, <1>9

\* The steps that move nothing on the line but its head
LEMMA OtherTypes ==
    ASSUME TransferOK,
           \/ ServiceTimeout \/ \E f \in Files : HttpAbort(f)
           \/ Lose \/ Pause \/ TooLong \/ UNCHANGED vars
    PROVE  TransferOK'
<1>1. EspOK /\ PiOK /\ LineOK /\ Counts
    BY DEF TransferOK
<1>2. CASE ServiceTimeout
  <2>1. /\ fsUp' = FALSE /\ apiUp' = FALSE /\ orphan' = (orphan \/ pause < 2)
        /\ UNCHANGED <<blockCount, cmdDue, chunk, http, long, uploads, completed, pause, link,
                       rx, delivered, deliveries, losses, undisturbed>>
      BY <1>2 DEF ServiceTimeout, GiveUp, piVars
  <2>2. EspFlags'
      BY <1>1, <2>1 DEF EspOK, EspFlags
  <2>3. EspOK'
      BY <1>1, <2>1, <2>2 DEF EspOK
  <2>4. orphan' \in BOOLEAN
      BY <1>1, <2>1 DEF PiOK
  <2>5. PiOK'
      BY <1>1, <2>1, <2>4 DEF PiOK
  <2>6. LineOK' /\ Counts'
      BY <1>1, <2>1 DEF LineOK, Counts
  <2> QED
      BY <2>3, <2>5, <2>6 DEF TransferOK
<1>3. ASSUME NEW f \in Files, HttpAbort(f) PROVE TransferOK'
  <2>1. /\ http' = [http EXCEPT ![f] = 0]
        /\ UNCHANGED <<fsUp, apiUp, blockCount, cmdDue, chunk, long, uploads, completed, pause, link,
                       rx, delivered, deliveries, losses, undisturbed, orphan>>
      BY <1>3 DEF HttpAbort, piVars
  <2>2. http \in [Files -> Nat] /\ \A g \in Files : http[g] <= NumBlocks[g]
      BY <1>1 DEF EspOK
  <2>3. /\ http' \in [Files -> Nat] /\ http'[f] = 0 /\ \A g \in Files : g # f => http'[g] = http[g]
        /\ \A g \in Files : http'[g] <= NumBlocks[g]
      BY <2>1, <2>2, Numbers
  <2>4. EspOK'
      BY <1>1, <2>1, <2>3 DEF EspOK, EspFlags
  <2>5. PiOK' /\ LineOK'
      BY <1>1, <2>1 DEF PiOK, LineOK
  <2>6. Counts'
    <3>1. \A g \in Files : http'[g] > 0 => g # f /\ http'[g] = http[g]
        BY <2>3
    <3> QED
        BY <1>1, <2>1, <3>1 DEF Counts
  <2> QED
      BY <2>4, <2>5, <2>6 DEF TransferOK
<1>4. CASE Lose
  <2>1. /\ link # <<>> /\ losses < MaxLoss /\ link' = Tail(link) /\ losses' = losses + 1 /\ undisturbed' = FALSE
        /\ UNCHANGED <<fsUp, apiUp, blockCount, cmdDue, chunk, http, long, uploads, completed, pause,
                       rx, delivered, deliveries, orphan>>
      BY <1>4 DEF Lose, espVars, piVars
  <2>2. EspOK' /\ Counts'
      BY <1>1, <2>1 DEF EspOK, EspFlags, Counts
  <2>3. LineOK'
      BY <1>1, <2>1, Numbers DEF LineOK
  <2>4. PiOK'
    <3>1. undisturbed' \in BOOLEAN
        BY <2>1
    <3> QED
        BY <1>1, <2>1, <3>1 DEF PiOK
  <2> QED
      BY <2>2, <2>3, <2>4 DEF TransferOK
<1>5. CASE Pause
  <2>1. /\ pause < 2 /\ pause' = pause + 1
        /\ UNCHANGED <<fsUp, apiUp, blockCount, cmdDue, chunk, http, long, uploads, completed, link,
                       rx, delivered, deliveries, losses, undisturbed, orphan>>
      BY <1>5 DEF Pause, espVars, piVars
  <2>2. EspOK'
      BY <1>1, <2>1 DEF EspOK, EspFlags
  <2>3. LineOK' /\ PiOK' /\ Counts'
      BY <1>1, <2>1 DEF LineOK, PiOK, Counts
  <2> QED
      BY <2>2, <2>3 DEF TransferOK
<1>6. CASE TooLong
  <2>1. /\ long' = TRUE
        /\ UNCHANGED <<fsUp, apiUp, blockCount, cmdDue, chunk, http, uploads, completed, pause, link,
                       rx, delivered, deliveries, losses, undisturbed, orphan>>
      BY <1>6 DEF TooLong, piVars
  <2>2. EspFlags'
      BY <1>1, <2>1 DEF EspOK, EspFlags
  <2>3. EspOK'
      BY <1>1, <2>1, <2>2 DEF EspOK
  <2>4. LineOK' /\ PiOK' /\ Counts'
      BY <1>1, <2>1 DEF LineOK, PiOK, Counts
  <2> QED
      BY <2>3, <2>4 DEF TransferOK
<1>7. CASE UNCHANGED vars
    BY <1>1, <1>7 DEF vars, espVars, piVars, TransferOK, EspOK, EspFlags, PiOK, LineOK, Counts
<1> QED
    BY <1>2, <1>3, <1>4, <1>5, <1>6, <1>7

\* Whatever the Pi does, the ESP32 does not notice.
LEMMA HeadOfLine ==
    ASSUME NEW l \in Seq(Frame), l # <<>>
    PROVE  Head(l) \in Frame /\ Tail(l) \in Seq(Frame)
OBVIOUS

LEMMA BlockFrame ==
    ASSUME NEW b \in Frame, b.type = "BLOCK"
    PROVE  /\ b.file \in Files /\ b.index \in Nat \ {0}
           /\ b = [type |-> "BLOCK", file |-> b.file, index |-> b.index]
<1>1. b \in [type : {"BLOCK"}, file : Files, index : Block]
    BY DEF Frame
<1>2. \A f \in Files : \A i \in 1..NumBlocks[f] : i \in Nat \ {0}
    BY Numbers
<1>3. \A i \in Block : i \in Nat \ {0}
    BY <1>2 DEF Block
<1> QED
    BY <1>1, <1>3

LEMMA StoredAt ==
    ASSUME NEW S, NEW T, NEW g \in [S -> T], NEW i \in S, NEW v \in T
    PROVE  /\ [g EXCEPT ![i] = v] \in [S -> T] /\ [g EXCEPT ![i] = v][i] = v
           /\ \A j \in S : j # i => [g EXCEPT ![i] = v][j] = g[j]
OBVIOUS

LEMMA StoredBlock ==
    ASSUME IsReception(rx), NEW b \in Frame, b.type = "BLOCK", Fits(b.index)
    PROVE  LET r == [rx EXCEPT !.buf[b.index] = b.file, !.count = @ + 1]
           IN  /\ IsReception(r) /\ r.active = TRUE /\ r.file = rx.file /\ r.count = rx.count + 1
               /\ r.buf[b.index] = b.file
               /\ \A i \in 1..NumBlocks[rx.file] : i # b.index => r.buf[i] = rx.buf[i]
<1>1. /\ DOMAIN rx = {"active", "file", "buf", "count"}
      /\ rx.active = TRUE /\ rx.file \in Files /\ rx.count \in Nat
      /\ rx.buf \in [1..NumBlocks[rx.file] -> Files \cup {Empty}]
    BY DEF IsReception, Fits, NoReception
<1>2. b.file \in Files /\ b.index \in 1..NumBlocks[rx.file]
    BY <1>1, BlockFrame, Numbers DEF Fits
<1> DEFINE r == [rx EXCEPT !.buf[b.index] = b.file, !.count = @ + 1]
<1>3. /\ DOMAIN r = {"active", "file", "buf", "count"} /\ r.active = TRUE /\ r.file = rx.file
      /\ r.count = rx.count + 1 /\ r.buf = [rx.buf EXCEPT ![b.index] = b.file]
    BY <1>1
<1> HIDE DEF r
<1>4. /\ r.buf \in [1..NumBlocks[rx.file] -> Files \cup {Empty}] /\ r.buf[b.index] = b.file
      /\ \A i \in 1..NumBlocks[rx.file] : i # b.index => r.buf[i] = rx.buf[i]
  <2> DEFINE S == 1..NumBlocks[rx.file]
             T == Files \cup {Empty}
  <2>1. rx.buf \in [S -> T] /\ b.index \in S /\ b.file \in T
      BY <1>1, <1>2
  <2> HIDE DEF S, T
  <2>2. /\ r.buf \in [S -> T] /\ r.buf[b.index] = b.file
        /\ \A i \in S : i # b.index => r.buf[i] = rx.buf[i]
      BY <1>3, <2>1, StoredAt
  <2> QED
      BY <2>2 DEF S, T
<1>5. r.count \in Nat
    BY <1>1, <1>3
<1>6. IsReception(r)
    BY <1>1, <1>3, <1>4, <1>5 DEF IsReception
<1> QED
    BY <1>3, <1>4, <1>6 DEF r

LEMMA PiTypes == TransferOK /\ Pi => TransferOK'
<1> SUFFICES ASSUME TransferOK, Pi PROVE TransferOK'
    OBVIOUS
<1>1. EspOK /\ PiOK /\ LineOK /\ Counts
    BY DEF TransferOK
<1>2. UNCHANGED <<espVars, pause, losses, orphan>>
    BY DEF Pi, HandleFileStart, HandleFileBlock, HandleFileEnd, HandleCommand, ReceiveTimeout
<1>3. EspOK' /\ Counts' /\ losses' = losses /\ orphan' = orphan
    BY <1>1, <1>2 DEF EspOK, EspFlags, Counts, espVars
<1>4. LineOK'
  <2>1. link' = link \/ (link # <<>> /\ link' = Tail(link))
      BY DEF Pi, HandleFileStart, HandleFileBlock, HandleFileEnd, HandleCommand, ReceiveTimeout, Received
  <2> QED
      BY <1>1, <1>3, <2>1, HeadOfLine DEF LineOK
<1>5. IsReception(NoReception)
    BY DEF IsReception
<1>6. PiOK'
  <2>1. CASE HandleFileStart
    <3> DEFINE f == Head(link).file
               r == [active |-> TRUE, file |-> f, buf |-> [i \in 1..NumBlocks[f] |-> Empty], count |-> 0]
    <3>1. /\ link # <<>> /\ Head(link).type = "START" /\ UNCHANGED <<delivered, deliveries>>
          /\ (rx' = r /\ undisturbed' = undisturbed) \/ (rx' = NoReception /\ undisturbed' = FALSE)
        BY <2>1 DEF HandleFileStart, Received
    <3>2. f \in Files
      <4>1. Head(link) \in Frame
          BY <1>1, <3>1, HeadOfLine DEF LineOK
      <4> QED
          BY <3>1, <4>1 DEF Frame
    <3>3. IsReception(r)
        BY <3>2 DEF IsReception
    <3> HIDE DEF r
    <3>4. IsReception(rx)'
        BY <1>5, <3>1, <3>3 DEF IsReception, NoReception
    <3>5. undisturbed' \in BOOLEAN
        BY <1>1, <3>1 DEF PiOK
    <3> QED
        BY <1>1, <1>3, <3>1, <3>4, <3>5 DEF PiOK, IsReception, NoReception
  <2>2. CASE HandleFileBlock
    <3>1. /\ link # <<>> /\ Head(link).type = "BLOCK" /\ UNCHANGED <<delivered, deliveries, undisturbed>>
          /\ rx' = IF Fits(Head(link).index)
                   THEN [rx EXCEPT !.buf[Head(link).index] = Head(link).file, !.count = @ + 1] ELSE rx
        BY <2>2 DEF HandleFileBlock, Received
    <3>2. Head(link) \in Frame /\ IsReception(rx)
        BY <1>1, <3>1, HeadOfLine DEF LineOK, PiOK
    <3>3. IsReception(rx)'
      <4>1. CASE Fits(Head(link).index)
          BY <3>1, <3>2, <4>1, StoredBlock DEF IsReception, NoReception
      <4>2. CASE ~Fits(Head(link).index)
          BY <3>1, <3>2, <4>2 DEF IsReception
      <4> QED
          BY <4>1, <4>2
    <3> QED
        BY <1>1, <1>3, <3>1, <3>3 DEF PiOK, IsReception, NoReception
  <2>3. CASE HandleFileEnd
    <3>1. /\ rx' = NoReception /\ undisturbed' = undisturbed
          /\ \/ delivered' = rx /\ deliveries' = deliveries + 1
             \/ UNCHANGED <<delivered, deliveries>>
        BY <2>3 DEF HandleFileEnd
    <3>2. IsReception(rx)' /\ IsReception(delivered)'
        BY <1>1, <1>5, <3>1 DEF PiOK, IsReception, NoReception
    <3>3. deliveries' \in Nat
        BY <1>1, <3>1 DEF PiOK
    <3> QED
        BY <1>1, <1>3, <3>1, <3>2, <3>3 DEF PiOK
  <2>4. CASE HandleCommand
      BY <1>1, <1>3, <2>4 DEF HandleCommand, PiOK, piVars, IsReception, NoReception
  <2>5. CASE ReceiveTimeout
    <3>1. rx' = NoReception /\ undisturbed' = FALSE /\ UNCHANGED <<delivered, deliveries>>
        BY <2>5 DEF ReceiveTimeout
    <3>2. undisturbed' \in BOOLEAN
        BY <3>1
    <3> QED
        BY <1>1, <1>3, <1>5, <3>1, <3>2 DEF PiOK, IsReception, NoReception
  <2> QED
      BY <2>1, <2>2, <2>3, <2>4, <2>5 DEF Pi
<1> QED
    BY <1>3, <1>4, <1>6 DEF TransferOK

LEMMA StepTypes == TransferOK /\ [Next]_vars => TransferOK'
BY StartTypes, ChunkTypes, HttpTypes, OtherTypes, PiTypes DEF Next

\* The types, whether the HTTP clients are orderly or not and whatever the line loses.
THEOREM FileTypes == Spec => []TypeOK
<1>1. Init => TransferOK
    BY InitTransfer
<1>2. TransferOK /\ [Next]_vars => TransferOK'
    BY StepTypes
<1>3. TransferOK => TypeOK
    BY TypesOfParts
<1> QED
    BY <1>1, <1>2, <1>3, PTL DEF Spec

-----------------------------------------------------------------------------
(* The frames of an upload, while none is lost *)

InRange(n) == n.type = "BLOCK" => n.index \in 1..NumBlocks[n.file]

\* One frame more ...
LEMMA OneMore ==
    ASSUME NEW s \in Seq(Frame), NEW e \in Frame, InOrder(s), InRange(e),
           s # <<>> => Follows(s[Len(s)], e)
    PROVE  /\ s \o <<e>> \in Seq(Frame) /\ s \o <<e>> # <<>> /\ InOrder(s \o <<e>>)
           /\ (s \o <<e>>)[Len(s \o <<e>>)] = e
           /\ Head(s \o <<e>>) = IF s = <<>> THEN e ELSE Head(s)
<1> DEFINE t == Append(s, e)
<1>1. s \o <<e>> = t
    BY AppendIsConcat
<1>2. /\ t \in Seq(Frame) /\ t # <<>> /\ Len(t) = Len(s) + 1 /\ t[Len(t)] = e
      /\ \A i \in 1..Len(s) : t[i] = s[i]
    BY AppendProperties
<1>3. Head(t) = IF s = <<>> THEN e ELSE Head(s)
    BY HeadTailAppend
<1> HIDE DEF t
<1>4. Len(s) \in Nat
    OBVIOUS
<1>5. \A k \in 1..Len(t) : InRange(t[k])
  <2> SUFFICES ASSUME NEW k \in 1..Len(t) PROVE InRange(t[k])
      OBVIOUS
  <2>1. CASE k = Len(s) + 1
      BY <1>2, <2>1
  <2>2. CASE k \in 1..Len(s)
      BY <1>2, <2>2 DEF InOrder, InRange
  <2> QED
      BY <1>2, <1>4, <2>1, <2>2
<1>6. \A k \in 1..(Len(t) - 1) : Follows(t[k], t[k + 1])
  <2> SUFFICES ASSUME NEW k \in 1..(Len(t) - 1) PROVE Follows(t[k], t[k + 1])
      OBVIOUS
  <2>1. k \in 1..Len(s) /\ t[k] = s[k]
      BY <1>2, <1>4
  <2>2. CASE k = Len(s)
    <3>1. s # <<>> /\ t[k + 1] = e
        BY <1>2, <1>4, <2>1, <2>2
    <3> QED
        BY <2>1, <2>2, <3>1
  <2>3. CASE k < Len(s)
    <3>1. k + 1 \in 1..Len(s) /\ k \in 1..(Len(s) - 1)
        BY <1>4, <2>1, <2>3
    <3>2. t[k + 1] = s[k + 1] /\ Follows(s[k], s[k + 1])
        BY <1>2, <3>1 DEF InOrder
    <3> QED
        BY <2>1, <3>2
  <2> QED
      BY <1>4, <2>1, <2>2, <2>3
<1>7. InOrder(t)
    BY <1>5, <1>6 DEF InOrder, InRange
<1> QED
    BY <1>1, <1>2, <1>3, <1>7

\* ... and one less.
LEMMA OneLess ==
    ASSUME NEW s \in Seq(Frame), s # <<>>, InOrder(s)
    PROVE  /\ InOrder(Tail(s)) /\ InRange(Head(s))
           /\ Tail(s) = <<>> => s[Len(s)] = Head(s)
           /\ Tail(s) # <<>> => /\ Follows(Head(s), Head(Tail(s)))
                                /\ Tail(s)[Len(Tail(s))] = s[Len(s)]
<1> DEFINE t == Tail(s)
<1>1. /\ Len(s) \in Nat \ {0} /\ Len(t) = Len(s) - 1 /\ t \in Seq(Frame)
      /\ \A i \in 1..Len(t) : t[i] = s[i + 1]
    BY HeadTailProperties
<1> HIDE DEF t
<1>2. Head(s) = s[1] /\ (t # <<>> => Len(t) > 0 /\ Head(t) = t[1]) /\ (t = <<>> => Len(t) = 0)
  <2>1. Head(s) = s[1]
      OBVIOUS
  <2>2. t # <<>> => Len(t) > 0 /\ Head(t) = t[1]
      BY <1>1
  <2>3. t = <<>> => Len(t) = 0
      OBVIOUS
  <2> QED
      BY <2>1, <2>2, <2>3
<1>3. \A k \in 1..Len(t) : InRange(t[k])
  <2> SUFFICES ASSUME NEW k \in 1..Len(t) PROVE InRange(t[k])
      OBVIOUS
  <2>1. k + 1 \in 1..Len(s) /\ t[k] = s[k + 1]
      BY <1>1
  <2> QED
      BY <2>1 DEF InOrder, InRange
<1>4. \A k \in 1..(Len(t) - 1) : Follows(t[k], t[k + 1])
  <2> SUFFICES ASSUME NEW k \in 1..(Len(t) - 1) PROVE Follows(t[k], t[k + 1])
      OBVIOUS
  <2>1. /\ k + 1 \in 1..(Len(s) - 1) /\ k \in 1..Len(t) /\ k + 1 \in 1..Len(t)
      BY <1>1
  <2>2. t[k] = s[k + 1] /\ t[k + 1] = s[(k + 1) + 1]
      BY <1>1, <2>1
  <2>3. Follows(s[k + 1], s[(k + 1) + 1])
      BY <2>1 DEF InOrder
  <2> QED
      BY <2>2, <2>3
<1>5. InOrder(t)
    BY <1>3, <1>4 DEF InOrder, InRange
<1>6. 1 \in 1..Len(s) /\ InRange(s[1])
  <2>1. 1 \in 1..Len(s)
      BY <1>1
  <2> QED
      BY <2>1 DEF InOrder, InRange
<1>7. ASSUME t # <<>> PROVE Follows(Head(s), Head(t)) /\ t[Len(t)] = s[Len(s)]
  <2>1. 1 \in 1..(Len(s) - 1) /\ 1 \in 1..Len(t) /\ Len(t) \in 1..Len(t)
      BY <1>1, <1>2, <1>7
  <2>2. Follows(s[1], s[1 + 1]) /\ t[1] = s[1 + 1] /\ t[Len(t)] = s[Len(t) + 1]
      BY <1>1, <2>1 DEF InOrder
  <2>3. Len(t) + 1 = Len(s)
      BY <1>1
  <2> QED
      BY <1>2, <1>7, <2>2, <2>3
<1>8. ASSUME t = <<>> PROVE s[Len(s)] = Head(s)
  <2>1. Len(s) = 1
      BY <1>1, <1>2, <1>8
  <2> QED
      BY <1>2, <2>1
<1> QED
    BY <1>2, <1>5, <1>6, <1>7, <1>8 DEF t

\* The line with the frames of a block, one after the other.
FirstFrame(f, i) == IF link # <<>> THEN Head(link)
                    ELSE IF i = 1 THEN [type |-> "START", file |-> f]
                    ELSE [type |-> "BLOCK", file |-> f, index |-> i]
LineWith(f, i, by) == link \o Frames(f, i, i - 1, by)
LEMMA FramesOneByOne ==
    ASSUME TransferOK, NEW f \in Files, NEW i \in 1..NumBlocks[f], NEW by \in {"FS", "API"}
    PROVE  LET l1 == link \o IF i - 1 = 0 THEN <<[type |-> "START", file |-> f]>> ELSE <<>>
               l2 == l1 \o <<[type |-> "BLOCK", file |-> f, index |-> i]>>
               l3 == l2 \o <<EndRecord(i - 1)>>
               l4 == l3 \o <<[type |-> "CMD", by |-> by]>>
           IN  LineWith(f, i, by) = IF i < NumBlocks[f] THEN l2 ELSE IF cmdDue THEN l4 ELSE l3
<1> DEFINE S == [type |-> "START", file |-> f]
           B == [type |-> "BLOCK", file |-> f, index |-> i]
           E == EndRecord(i - 1)
           C == [type |-> "CMD", by |-> by]
           a == IF i - 1 = 0 THEN <<S>> ELSE <<>>
           d == IF cmdDue THEN <<C>> ELSE <<>>
           c == IF i < NumBlocks[f] THEN <<>> ELSE <<E>> \o d
           l1 == link \o a
           l2 == l1 \o <<B>>
           l3 == l2 \o <<E>>
           l4 == l3 \o <<C>>
<1>1. NumBlocks[f] \in Nat /\ i \in Nat /\ link \in Seq(Frame)
    BY Numbers DEF TransferOK, LineOK
<1>2. S \in Frame /\ C \in Frame
    BY DEF Frame
<1>3. B \in Frame
  <2>1. i \in Block
      BY DEF Block
  <2> QED
      BY <2>1 DEF Frame
<1>4. E \in Frame
    BY <1>1 DEF Frame, EndRecord
<1> HIDE DEF S, B, C, E
<1>5. l2 \in Seq(Frame)
  <2>1. a \in Seq(Frame) /\ <<B>> \in Seq(Frame)
      BY <1>2, <1>3
  <2> HIDE DEF a
  <2>2. l1 \in Seq(Frame)
      BY <1>1, <2>1, ConcatProperties
  <2> HIDE DEF l1
  <2> QED
      BY <2>1, <2>2, ConcatProperties
<1>6. LineWith(f, i, by) = l2 \o c
  <2>1. Frames(f, i, i - 1, by) = (a \o <<B>>) \o c
      BY DEF Frames, S, B, C, E
  <2>2. a \in Seq(Frame) /\ <<B>> \in Seq(Frame) /\ c \in Seq(Frame) /\ (a \o <<B>>) \in Seq(Frame)
    <3>1. a \in Seq(Frame) /\ <<B>> \in Seq(Frame) /\ <<E>> \in Seq(Frame) /\ d \in Seq(Frame)
        BY <1>2, <1>3, <1>4
    <3>2. (a \o <<B>>) \in Seq(Frame) /\ (<<E>> \o d) \in Seq(Frame)
      <4> HIDE DEF a, d
      <4> QED
        BY <3>1, ConcatProperties
    <3> QED
        BY <3>1, <3>2
  <2> HIDE DEF a, c
  <2>3. (link \o a) \o (<<B>> \o c) = ((link \o a) \o <<B>>) \o c
    <3>1. link \o a \in Seq(Frame)
        BY <1>1, <2>2, ConcatProperties
    <3> DEFINE la == link \o a
    <3>2. la \in Seq(Frame)
        BY <3>1
    <3> HIDE DEF la
    <3>3. la \o (<<B>> \o c) = (la \o <<B>>) \o c
        BY <2>2, <3>2, ConcatAssociative
    <3> QED
        BY <3>3 DEF la
  <2>4. (a \o <<B>>) \o c = a \o (<<B>> \o c) /\ (<<B>> \o c) \in Seq(Frame)
    <3>1. (a \o <<B>>) \o c = a \o (<<B>> \o c)
        BY <2>2, ConcatAssociative
    <3>2. (<<B>> \o c) \in Seq(Frame)
        BY <2>2, ConcatProperties
    <3> QED
        BY <3>1, <3>2
  <2>5. link \o (a \o (<<B>> \o c)) = (link \o a) \o (<<B>> \o c)
    <3> DEFINE bc == <<B>> \o c
    <3>1. link \in Seq(Frame) /\ a \in Seq(Frame) /\ bc \in Seq(Frame)
        BY <1>1, <2>2, <2>4
    <3> HIDE DEF bc
    <3>2. link \o (a \o bc) = (link \o a) \o bc
        BY <3>1, ConcatAssociative
    <3> QED
        BY <3>2 DEF bc
  <2> QED
      BY <2>1, <2>3, <2>4, <2>5 DEF LineWith
<1>7. CASE i < NumBlocks[f]
  <2>1. c = <<>>
      BY <1>7
  <2>2. l2 \o c = l2
    <3> HIDE DEF l2, c
    <3> QED
        BY <1>5, <2>1, ConcatEmptySeq
  <2> QED
      BY <1>6, <1>7, <2>2 DEF S, B, C, E
<1>8. CASE ~(i < NumBlocks[f])
  <2>1. l2 \o c = IF cmdDue THEN l4 ELSE l3
    <3>1. c = <<E>> \o d /\ <<E>> \in Seq(Frame) /\ <<C>> \in Seq(Frame)
        BY <1>2, <1>4, <1>8
    <3>2. CASE cmdDue
      <4>1. d = <<C>>
          BY <3>2
      <4> HIDE DEF l2, c, d
      <4> QED
          BY <1>5, <3>1, <3>2, <4>1, ConcatAssociative DEF l3, l4
    <3>3. CASE ~cmdDue
      <4>1. d = <<>>
          BY <3>3
      <4> HIDE DEF l2, c, d
      <4> QED
          BY <1>5, <3>1, <3>3, <4>1, ConcatEmptySeq DEF l3, l4
    <3> QED
        BY <3>2, <3>3
  <2> QED
      BY <1>6, <1>8, <2>1 DEF S, B, C, E
<1> QED
    BY <1>7, <1>8

\* What a block of an upload adds to the line goes on from what is there.
LEMMA FramesInOrder ==
    ASSUME TransferOK, InOrder(link),
           NEW f \in Files, NEW i \in 1..NumBlocks[f], NEW by \in {"FS", "API"},
           i > 1 /\ link # <<>> => link[Len(link)] = [type |-> "BLOCK", file |-> f, index |-> i - 1]
    PROVE  LET l == LineWith(f, i, by)
           IN  /\ InOrder(l) /\ l # <<>>
               /\ i < NumBlocks[f] => l[Len(l)] = [type |-> "BLOCK", file |-> f, index |-> i]
               /\ Head(l) = FirstFrame(f, i)
<1> DEFINE S == [type |-> "START", file |-> f]
           B == [type |-> "BLOCK", file |-> f, index |-> i]
           E == EndRecord(i - 1)
           C == [type |-> "CMD", by |-> by]
           a == IF i - 1 = 0 THEN <<S>> ELSE <<>>
           l1 == link \o a
           l2 == l1 \o <<B>>
           l3 == l2 \o <<E>>
           l4 == l3 \o <<C>>
<1>1. NumBlocks[f] \in Nat /\ i \in Nat /\ link \in Seq(Frame) /\ InOrder(link)
    BY Numbers DEF TransferOK, LineOK
<1>2. S \in Frame /\ C \in Frame /\ InRange(S) /\ InRange(C)
    BY DEF Frame, InRange
<1>3. B \in Frame /\ InRange(B)
  <2>1. i \in Block
      BY DEF Block
  <2> QED
      BY <2>1 DEF Frame, InRange
<1>4. E = [type |-> "END", count |-> i] /\ E \in Frame /\ InRange(E)
  <2>1. E = [type |-> "END", count |-> i]
      BY <1>1 DEF EndRecord
  <2> QED
      BY <1>1, <2>1 DEF Frame, InRange
<1> HIDE DEF E
<1>5. /\ l1 \in Seq(Frame) /\ InOrder(l1) /\ (l1 # <<>> => Follows(l1[Len(l1)], B))
      /\ (IF l1 = <<>> THEN B ELSE Head(l1)) = IF link # <<>> THEN Head(link) ELSE IF i = 1 THEN S ELSE B
  <2>1. CASE i = 1
    <3>1. l1 = link \o <<S>>
        BY <2>1
    <3>2. link # <<>> => Follows(link[Len(link)], S)
        BY DEF Follows
    <3>3. /\ l1 \in Seq(Frame) /\ l1 # <<>> /\ InOrder(l1) /\ l1[Len(l1)] = S
          /\ Head(l1) = IF link = <<>> THEN S ELSE Head(link)
        BY <1>1, <1>2, <3>1, <3>2, OneMore
    <3>4. Follows(S, B)
        BY <2>1 DEF Follows
    <3> HIDE DEF l1, S, B
    <3> QED
        BY <2>1, <3>3, <3>4
  <2>2. CASE i > 1
    <3>1. l1 = link
        BY <1>1, <2>2, ConcatEmptySeq
    <3>2. link # <<>> => /\ link[Len(link)] = [type |-> "BLOCK", file |-> f, index |-> i - 1]
                         /\ Follows(link[Len(link)], B)
        BY <2>2 DEF Follows
    <3> HIDE DEF l1, B
    <3> QED
        BY <1>1, <2>2, <3>1, <3>2
  <2> QED
      BY <1>1, <2>1, <2>2
<1> HIDE DEF S, B, C
<1>6. /\ l2 \in Seq(Frame) /\ l2 # <<>> /\ InOrder(l2) /\ l2[Len(l2)] = B
      /\ Head(l2) = IF l1 = <<>> THEN B ELSE Head(l1)
  <2> HIDE DEF l1
  <2> QED
      BY <1>3, <1>5, OneMore
<1>7. ASSUME ~(i < NumBlocks[f])
      PROVE  /\ l3 \in Seq(Frame) /\ l3 # <<>> /\ InOrder(l3) /\ Head(l3) = Head(l2)
  <2>1. Follows(B, E)
      BY <1>1, <1>4, <1>7 DEF Follows, B
  <2> HIDE DEF l2
  <2> QED
      BY <1>4, <1>6, <2>1, OneMore
<1>8. ASSUME ~(i < NumBlocks[f])
      PROVE  /\ l4 \in Seq(Frame) /\ l4 # <<>> /\ InOrder(l4) /\ Head(l4) = Head(l2)
  <2>1. Follows(l3[Len(l3)], C)
      BY DEF Follows, C
  <2> HIDE DEF l3
  <2> QED
      BY <1>2, <1>7, <1>8, <2>1, OneMore
<1>9. LineWith(f, i, by) = IF i < NumBlocks[f] THEN l2 ELSE IF cmdDue THEN l4 ELSE l3
    BY FramesOneByOne DEF S, B, C, E
<1>10. Head(l2) = FirstFrame(f, i)
    BY <1>5, <1>6 DEF FirstFrame, S, B
<1>11. CASE i < NumBlocks[f]
  <2> HIDE DEF l2
  <2> QED
      BY <1>6, <1>9, <1>10, <1>11 DEF B
<1>12. CASE ~(i < NumBlocks[f])
  <2> HIDE DEF l2, l3, l4
  <2> QED
      BY <1>7, <1>8, <1>9, <1>10, <1>12
<1> QED
    BY <1>11, <1>12

\* With orderly clients the number of a block that is sent is one more than the count.
LEMMA SenderStream ==
    ASSUME TransferOK, StreamInv, NEW f \in Files, NEW i \in 1..NumBlocks[f], NEW by \in {"FS", "API"},
           i > 1 => LastIs(link, rx, f, i - 1),
           UploadCommonBlockHandler(f, i, i - 1, by), UNCHANGED <<rx, delivered>>
    PROVE  /\ InOrder(link') /\ RxInOrder' /\ Whole(delivered')
           /\ i < NumBlocks[f] => LastIs(link', rx', f, i)
<1>1. link' = LineWith(f, i, by)
    BY DEF UploadCommonBlockHandler, LineWith
<1>2. /\ InOrder(link') /\ link' # <<>> /\ RxExpects(Head(link'))
      /\ i < NumBlocks[f] => link'[Len(link')] = [type |-> "BLOCK", file |-> f, index |-> i]
  <2>1. /\ InOrder(link') /\ link' # <<>> /\ Head(link') = FirstFrame(f, i)
        /\ i < NumBlocks[f] => link'[Len(link')] = [type |-> "BLOCK", file |-> f, index |-> i]
      BY <1>1, FramesInOrder DEF StreamInv, LastIs
  <2>2. RxExpects(FirstFrame(f, i))
    <3>1. i \in Nat
        BY Numbers
    <3> QED
        BY <3>1 DEF FirstFrame, RxExpects, LastIs, StreamInv, RxInOrder
  <2> QED
      BY <2>1, <2>2
<1>3. RxFilled' /\ Whole(delivered')
    BY DEF StreamInv, RxInOrder, RxFilled, Whole
<1>4. (link # <<>> => RxExpects(Head(link)))'
    BY <1>2 DEF RxExpects
<1>5. RxInOrder'
    BY <1>3, <1>4 DEF RxInOrder
<1> QED
    BY <1>2, <1>3, <1>5 DEF LastIs

LEMMA ChunkStream ==
    ASSUME TransferOK, StreamInv, Orderly = TRUE, ServiceChunk
    PROVE  StreamInv'
<1>1. /\ EspOK /\ Counts /\ fsUp /\ ~apiUp /\ blockCount = chunk.next - 1
      /\ UNCHANGED <<http, rx, delivered>>
    BY DEF TransferOK, Counts, ServiceChunk, piVars
<1>2. CASE /\ chunk.next <= NumBlocks[chunk.file]
           /\ UploadCommonBlockHandler(chunk.file, chunk.next, blockCount, "FS")
           /\ chunk' = [chunk EXCEPT !.next = @ + 1]
           /\ fsUp' = (chunk.next < NumBlocks[chunk.file])
           /\ apiUp' = (apiUp /\ fsUp')
  <2>1. chunk.file \in Files /\ chunk.next \in 1..NumBlocks[chunk.file] /\ NumBlocks[chunk.file] \in Nat
      BY <1>1, <1>2, Numbers DEF EspOK
  <2>2. chunk.next > 1 => LastIs(link, rx, chunk.file, chunk.next - 1)
      BY <1>1 DEF StreamInv, SenderInOrder
  <2>3. /\ InOrder(link') /\ RxInOrder' /\ Whole(delivered')
        /\ chunk.next < NumBlocks[chunk.file] => LastIs(link', rx', chunk.file, chunk.next)
      BY <1>1, <1>2, <2>1, <2>2, SenderStream
  <2>4. chunk'.file = chunk.file /\ chunk'.next - 1 = chunk.next
      BY <1>1, <1>2, <2>1 DEF EspOK
  <2>5. SenderInOrder'
      BY <1>1, <1>2, <2>3, <2>4 DEF SenderInOrder, LastIs
  <2> QED
      BY <2>3, <2>5 DEF StreamInv
<1>3. CASE fsUp' = FALSE /\ UNCHANGED <<apiUp, chunk, link>>
    BY <1>1, <1>3 DEF StreamInv, InOrder, Follows, RxInOrder, RxFilled, RxExpects, SenderInOrder, Whole
<1> QED
    BY <1>2, <1>3 DEF ServiceChunk

LEMMA HttpStream ==
    ASSUME TransferOK, StreamInv, Orderly = TRUE, NEW f \in Files, HttpBlock(f)
    PROVE  StreamInv'
<1> DEFINE i == http[f] + 1
<1>1. /\ http \in [Files -> Nat] /\ Counts
      /\ http[f] \in Nat /\ NumBlocks[f] \in Nat /\ http[f] < NumBlocks[f] /\ i \in 1..NumBlocks[f]
    BY Numbers DEF TransferOK, EspOK, Counts, HttpBlock
<1>2. UNCHANGED <<fsUp, chunk, rx, delivered>> /\ UploadAPIBlockHandler(f, i)
    BY DEF HttpBlock, piVars
<1>3. ~fsUp /\ ApiCount = http[f] /\ (http[f] > 0 => apiUp) /\ \A g \in Files : http[g] > 0 => g = f
  <2>1. CASE http[f] = 0
    <3>1. ~fsUp /\ ~apiUp /\ \A g \in Files : http[g] = 0
        BY <2>1 DEF HttpBlock, UploadInProgress
    <3> QED
        BY <2>1, <3>1 DEF ApiCount
  <2>2. CASE http[f] > 0
    <3>1. apiUp
        BY <2>2 DEF HttpBlock
    <3>2. ~fsUp /\ http[f] = blockCount /\ \A g \in Files : http[g] > 0 => g = f
        BY <1>1, <2>2, <3>1 DEF Counts
    <3> QED
        BY <3>1, <3>2 DEF ApiCount
  <2> QED
      BY <1>1, <2>1, <2>2
<1>4. /\ UploadCommonBlockHandler(f, i, i - 1, "API") /\ apiUp' = (i < NumBlocks[f])
    BY <1>1, <1>2, <1>3 DEF UploadAPIBlockHandler
<1>5. i > 1 => LastIs(link, rx, f, i - 1)
    BY <1>1, <1>3 DEF StreamInv, SenderInOrder
<1>6. /\ InOrder(link') /\ RxInOrder' /\ Whole(delivered')
      /\ i < NumBlocks[f] => LastIs(link', rx', f, i)
    BY <1>1, <1>2, <1>4, <1>5, SenderStream
<1>7. /\ \A g \in Files : http'[g] > 0 => g = f
      /\ http'[f] = (IF i < NumBlocks[f] THEN i ELSE 0)
  <2>1. http' = [http EXCEPT ![f] = i % NumBlocks[f]]
      BY DEF HttpBlock
  <2>2. i % NumBlocks[f] = IF i < NumBlocks[f] THEN i ELSE 0
      BY <1>1, NextBlock
  <2> HIDE DEF i
  <2> QED
      BY <1>1, <1>3, <2>1, <2>2
<1>8. SenderInOrder'
  <2>1. ~fsUp'
      BY <1>2, <1>3
  <2>2. ASSUME NEW g \in Files, apiUp', http'[g] > 0 PROVE LastIs(link', rx', g, http'[g])
    <3>1. g = f /\ http'[g] = i
        BY <1>4, <1>7, <2>2
    <3>2. LastIs(link', rx', f, i)
        BY <1>4, <1>6, <2>2
    <3> QED
        BY <3>1, <3>2 DEF LastIs
  <2> QED
      BY <2>1, <2>2 DEF SenderInOrder
<1> QED
    BY <1>6, <1>8 DEF StreamInv

\* What moves no frame, and stops an upload or the reception at most.
LEMMA QuietStream ==
    ASSUME StreamInv, link' = link, UNCHANGED delivered,
           rx' = rx \/ rx' = NoReception,
           fsUp' => \/ fsUp /\ UNCHANGED chunk
                    \/ chunk'.next = 1,
           apiUp' => apiUp,
           \A f \in Files : http'[f] = http[f] \/ http'[f] = 0
    PROVE  StreamInv'
<1>1. InOrder(link') /\ Whole(delivered')
    BY DEF StreamInv, InOrder, Follows, Whole
<1>2. rx'.active => rx' = rx
    BY DEF NoReception
<1>3. RxInOrder'
    BY <1>2 DEF StreamInv, RxInOrder, RxFilled, RxExpects
<1>4. ASSUME NEW f, NEW c, LastIs(link, rx, f, c) PROVE LastIs(link', rx', f, c)
    BY <1>2, <1>4 DEF LastIs
<1>5. SenderInOrder'
  <2>1. ASSUME fsUp', chunk'.next > 1 PROVE LastIs(link', rx', chunk'.file, chunk'.next - 1)
    <3>1. fsUp /\ chunk' = chunk
        BY <2>1
    <3>2. LastIs(link, rx, chunk.file, chunk.next - 1)
        BY <2>1, <3>1 DEF StreamInv, SenderInOrder
    <3> QED
        BY <1>2, <3>1, <3>2 DEF LastIs
  <2>2. ASSUME NEW f \in Files, apiUp', http'[f] > 0 PROVE LastIs(link', rx', f, http'[f])
    <3>1. http'[f] = http[f] /\ LastIs(link, rx, f, http[f])
        BY <2>2 DEF StreamInv, SenderInOrder
    <3> QED
        BY <1>2, <3>1 DEF LastIs
  <2> QED
      BY <2>1, <2>2 DEF SenderInOrder, LastIs
<1> QED
    BY <1>1, <1>3, <1>5 DEF StreamInv

\* Where the upload in progress stands, as long as its last frame is on the line.
SenderOnLine ==
    /\ fsUp /\ chunk.next > 1
         => link[Len(link)] = [type |-> "BLOCK", file |-> chunk.file, index |-> chunk.next - 1]
    /\ \A f \in Files : apiUp /\ http[f] > 0
         => link[Len(link)] = [type |-> "BLOCK", file |-> f, index |-> http[f]]

\* A frame is off the line, and what the Pi has then is what the next one expects.
LEMMA Taken ==
    ASSUME TransferOK, InOrder(link), SenderOnLine, link # <<>>, link' = Tail(link),
           UNCHANGED <<fsUp, chunk, apiUp, http>>,
           Whole(delivered'), RxFilled',
           \A n : Follows(Head(link), n) => RxExpects(n)',
           \A f, c : Head(link) = [type |-> "BLOCK", file |-> f, index |-> c] /\ rx'.active
                       => rx'.file = f /\ rx'.count = c
    PROVE  StreamInv'
<1>1. link \in Seq(Frame) /\ InOrder(link)
    BY DEF TransferOK, LineOK
<1>2. /\ InOrder(link')
      /\ link' = <<>> => link[Len(link)] = Head(link)
      /\ link' # <<>> => Follows(Head(link), Head(link')) /\ link'[Len(link')] = link[Len(link)]
    BY <1>1, OneLess
<1>3. RxInOrder'
    BY <1>2 DEF RxInOrder
<1>4. ASSUME NEW f, NEW c, link[Len(link)] = [type |-> "BLOCK", file |-> f, index |-> c]
      PROVE  LastIs(link', rx', f, c)
    BY <1>2, <1>4 DEF LastIs
<1>5. SenderInOrder'
    BY <1>4 DEF SenderOnLine, SenderInOrder
<1> QED
    BY <1>2, <1>3, <1>5 DEF StreamInv

LEMMA StreamOnLine == StreamInv /\ link # <<>> => SenderOnLine
BY DEF StreamInv, SenderInOrder, SenderOnLine, LastIs

LEMMA PiStream == ASSUME TransferOK, StreamInv, Pi PROVE StreamInv'
<1>1. PiOK /\ LineOK /\ EspOK
    BY DEF TransferOK
<1>2. UNCHANGED <<fsUp, chunk, apiUp, http>>
    BY DEF Pi, HandleFileStart, HandleFileBlock, HandleFileEnd, HandleCommand, ReceiveTimeout, espVars
<1>3. /\ RxFilled /\ Whole(delivered) /\ InOrder(link)
      /\ link # <<>> => RxExpects(Head(link)) /\ SenderOnLine
    BY StreamOnLine DEF StreamInv, RxInOrder
<1>4. ~NoReception.active
    BY DEF NoReception
<1>5. CASE HandleFileStart
  <2> DEFINE f == Head(link).file
             r == [active |-> TRUE, file |-> f, buf |-> [i \in 1..NumBlocks[f] |-> Empty], count |-> 0]
  <2>1. /\ link # <<>> /\ link' = Tail(link) /\ Head(link).type = "START" /\ delivered' = delivered
        /\ rx' = r \/ rx' = NoReception
      BY <1>5 DEF HandleFileStart, Received
  <2>2. Head(link) = [type |-> "START", file |-> f] /\ NumBlocks[f] \in Nat
    <3>1. Head(link) \in Frame
        BY <1>1, <2>1, HeadOfLine DEF LineOK
    <3>2. Head(link) \in [type : {"START"}, file : Files]
        BY <2>1, <3>1 DEF Frame
    <3> QED
        BY <3>2, Numbers
  <2>3. r.active /\ r.file = f /\ r.count = 0
      OBVIOUS
  <2> HIDE DEF r
  <2>4. RxFilled' /\ Whole(delivered')
      BY <1>3, <1>4, <2>1, <2>2, <2>3 DEF RxFilled
  <2>5. ASSUME NEW n, Follows(Head(link), n) PROVE RxExpects(n)'
      BY <1>4, <2>1, <2>2, <2>3, <2>5 DEF RxExpects, Follows
  <2>6. \A g, c : Head(link) # [type |-> "BLOCK", file |-> g, index |-> c]
      BY <2>1
  <2> QED
      BY <1>2, <1>3, <2>1, <2>4, <2>5, <2>6, Taken
<1>6. CASE HandleFileBlock
  <2> DEFINE b == Head(link)
  <2>1. /\ link # <<>> /\ link' = Tail(link) /\ b.type = "BLOCK" /\ delivered' = delivered
        /\ rx' = IF Fits(b.index) THEN [rx EXCEPT !.buf[b.index] = b.file, !.count = @ + 1] ELSE rx
      BY <1>6 DEF HandleFileBlock, Received
  <2>2. b \in Frame /\ IsReception(rx)
      BY <1>1, <2>1, HeadOfLine DEF LineOK, PiOK
  <2>3. /\ b = [type |-> "BLOCK", file |-> b.file, index |-> b.index] /\ b.file \in Files
        /\ NumBlocks[b.file] \in Nat /\ b.index \in 1..NumBlocks[b.file]
    <3>1. InRange(b)
        BY <1>1, <2>1, OneLess DEF StreamInv, LineOK
    <3> QED
        BY <2>1, <2>2, <3>1, BlockFrame, Numbers DEF InRange
  <2>4. ASSUME rx.active
        PROVE  /\ Fits(b.index) /\ rx.file = b.file /\ rx.count = b.index - 1
               /\ \A i \in 1..rx.count : rx.buf[i] = rx.file
      BY <1>3, <2>1, <2>3, <2>4 DEF RxExpects, RxFilled, Fits
  <2> HIDE DEF b
  <2>5. ASSUME rx.active
        PROVE  /\ rx'.active /\ rx'.file = b.file /\ rx'.count = b.index
               /\ \A i \in 1..b.index : rx'.buf[i] = b.file
    <3>1. /\ rx'.active /\ rx'.file = rx.file /\ rx'.count = rx.count + 1
          /\ rx'.buf[b.index] = b.file
          /\ \A i \in 1..NumBlocks[rx.file] : i # b.index => rx'.buf[i] = rx.buf[i]
        BY <2>1, <2>2, <2>4, <2>5, StoredBlock
    <3>2. ASSUME NEW i \in 1..b.index PROVE rx'.buf[i] = b.file
      <4>1. CASE i = b.index
          BY <3>1, <4>1
      <4>2. CASE i # b.index
        <5>1. i \in 1..NumBlocks[rx.file] /\ i \in 1..rx.count
            BY <2>3, <2>4, <2>5, <4>2
        <5> QED
            BY <2>4, <2>5, <3>1, <4>2, <5>1
      <4> QED
          BY <4>1, <4>2
    <3>3. rx.count + 1 = b.index
        BY <2>3, <2>4, <2>5
    <3> QED
        BY <2>4, <2>5, <3>1, <3>2, <3>3
  <2>6. ~rx.active => rx' = rx
      BY <2>1 DEF Fits
  <2>7. RxFilled' /\ Whole(delivered')
      BY <1>3, <2>1, <2>3, <2>5, <2>6 DEF RxFilled
  <2>8. ASSUME NEW n, Follows(b, n) PROVE RxExpects(n)'
    <3>1. CASE rx.active
      <4>1. n.type = "BLOCK" => n.file = b.file /\ n.index - 1 = b.index
        <5>1. ASSUME n.type = "BLOCK"
              PROVE  b = [type |-> "BLOCK", file |-> n.file, index |-> n.index - 1]
            BY <2>1, <2>8, <5>1 DEF Follows
        <5> QED
            BY <5>1
      <4>2. n.type = "END" => b.index = NumBlocks[b.file]
          BY <2>8 DEF Follows
      <4> QED
          BY <2>5, <3>1, <4>1, <4>2 DEF RxExpects
    <3>2. CASE ~rx.active
        BY <2>6, <3>2 DEF RxExpects
    <3> QED
        BY <3>1, <3>2
  <2>9. ASSUME NEW f, NEW c, b = [type |-> "BLOCK", file |-> f, index |-> c], rx'.active
        PROVE  rx'.file = f /\ rx'.count = c
    <3>1. b.file = f /\ b.index = c
        BY <2>9
    <3> QED
        BY <2>5, <2>6, <2>9, <3>1
  <2> QED
      BY <1>2, <1>3, <2>1, <2>7, <2>8, <2>9, Taken DEF b
<1>7. CASE HandleFileEnd
  <2>1. /\ link # <<>> /\ link' = Tail(link) /\ Head(link).type = "END" /\ rx' = NoReception
        /\ (rx.active /\ delivered' = rx) \/ delivered' = delivered
      BY <1>7 DEF HandleFileEnd, Received
  <2>2. Whole(delivered')
      BY <1>3, <2>1 DEF RxFilled, RxExpects, Whole
  <2>3. RxFilled' /\ \A n : RxExpects(n)'
      BY <1>4, <2>1 DEF RxFilled, RxExpects
  <2>4. \A g, c : Head(link) # [type |-> "BLOCK", file |-> g, index |-> c]
      BY <2>1
  <2> QED
      BY <1>2, <1>3, <2>1, <2>2, <2>3, <2>4, Taken
<1>8. CASE HandleCommand
  <2>1. /\ link # <<>> /\ link' = Tail(link) /\ Head(link).type = "CMD" /\ UNCHANGED <<rx, delivered>>
      BY <1>8 DEF HandleCommand, Received, piVars
  <2>2. RxFilled' /\ Whole(delivered')
      BY <1>3, <2>1 DEF RxFilled
  <2>3. ASSUME NEW n, Follows(Head(link), n) PROVE RxExpects(n)'
    <3>1. n.type # "END" /\ n.type # "BLOCK"
        BY <2>1, <2>3 DEF Follows
    <3> QED
        BY <3>1 DEF RxExpects
  <2>4. \A g, c : Head(link) # [type |-> "BLOCK", file |-> g, index |-> c]
      BY <2>1
  <2> QED
      BY <1>2, <1>3, <2>1, <2>2, <2>3, <2>4, Taken
<1>9. CASE ReceiveTimeout
  <2>1. rx' = NoReception /\ UNCHANGED <<link, delivered>>
      BY <1>9 DEF ReceiveTimeout
  <2> QED
      BY <1>2, <2>1, QuietStream
<1> QED
    BY <1>5, <1>6, <1>7, <1>8, <1>9 DEF Pi

LEMMA StepStream ==
    ASSUME TransferOK, StreamInv, Orderly = TRUE, ~Lose, [Next]_vars
    PROVE  StreamInv'
<1>1. CASE Pi
    BY <1>1, PiStream
<1>2. CASE ServiceChunk
    BY <1>2, ChunkStream
<1>3. ASSUME NEW f \in Files, HttpBlock(f) PROVE StreamInv'
    BY <1>3, HttpStream
<1>4. ASSUME NEW f \in Files, NEW cmd \in BOOLEAN, StartUploadFromFileSystem(f, cmd) PROVE StreamInv'
  <2>1. chunk'.next = 1 /\ UNCHANGED <<apiUp, http, link, rx, delivered>>
      BY <1>4 DEF StartUploadFromFileSystem, piVars
  <2> QED
      BY <2>1, QuietStream
<1>5. CASE ServiceTimeout
  <2>1. ~fsUp' /\ ~apiUp' /\ UNCHANGED <<http, link, rx, delivered>>
      BY <1>5 DEF ServiceTimeout, GiveUp, piVars
  <2> QED
      BY <2>1, QuietStream
<1>6. ASSUME NEW f \in Files, HttpAbort(f) PROVE StreamInv'
  <2>1. http' = [http EXCEPT ![f] = 0] /\ UNCHANGED <<fsUp, apiUp, chunk, link, rx, delivered>>
      BY <1>6 DEF HttpAbort, piVars
  <2>2. \A g \in Files : http'[g] = http[g] \/ http'[g] = 0
      BY <2>1 DEF TransferOK, EspOK
  <2> QED
      BY <2>1, <2>2, QuietStream
<1>7. CASE Pause \/ TooLong \/ UNCHANGED vars
  <2>1. UNCHANGED <<fsUp, apiUp, chunk, http, link, rx, delivered>>
      BY <1>7 DEF Pause, TooLong, vars, espVars, piVars
  <2> QED
      BY <2>1, QuietStream
<1> QED
    BY <1>1, <1>2, <1>3, <1>4, <1>5, <1>6, <1>7 DEF Next

LEMMA InitStream == Init => StreamInv
<1> SUFFICES ASSUME Init PROVE StreamInv
    OBVIOUS
<1>1. link = <<>> /\ rx = NoReception /\ delivered = NoReception /\ ~fsUp /\ ~apiUp
    BY DEF Init
<1>2. InOrder(<<>>)
    BY DEF InOrder
<1> QED
    BY <1>1, <1>2 DEF StreamInv, RxInOrder, RxFilled, SenderInOrder, Whole, NoReception

-----------------------------------------------------------------------------
(* A line that loses one frame *)

\* A block is missing: until the next start record the Pi has fewer blocks than went before
\* the frame that comes next, so the counts do not agree at the end record.
RxBehind(n) ==
    /\ n.type = "BLOCK" => rx.count < n.index - 1
    /\ n.type = "END" => rx.count < n.count
LastBehind(l, r, f, c) == IF l = <<>> THEN r.count < c
                          ELSE l[Len(l)] = [type |-> "BLOCK", file |-> f, index |-> c]
SenderBehind ==
    /\ fsUp /\ chunk.next > 1 => LastBehind(link, rx, chunk.file, chunk.next - 1)
    /\ \A f \in Files : apiUp /\ http[f] > 0 => LastBehind(link, rx, f, http[f])
BehindInv ==
    /\ InOrder(link) /\ Whole(delivered)
    /\ rx.active /\ (link # <<>> => RxBehind(Head(link)))
    /\ SenderBehind

\* As long as no upload is given up while the Pi waits for more, a start record comes when
\* the Pi receives nothing: losing it costs the file and mixes it with no other.
Closes(n) == n.type \in {"END", "CMD"}
Opens(n)  == n.type \in {"START", "CMD"}
AfterEnd(s)  == \A k \in 1..(Len(s) - 1) : Opens(s[k + 1]) => Closes(s[k])
InTheMiddle  == (fsUp /\ chunk.next > 1) \/ apiUp
Fresh ==
    /\ AfterEnd(link)
    /\ link # <<>> /\ Opens(Head(link)) => ~rx.active
    /\ pause = 2 => link = <<>> /\ ~rx.active
    /\ ~InTheMiddle => IF link = <<>> THEN ~rx.active ELSE Closes(link[Len(link)])

\* DeliveredWhole, with what it needs from step to step.
OneLossInv ==
    /\ losses = 0 => StreamInv
    /\ losses = 0 /\ ~orphan => Fresh
    /\ losses = 1 /\ ~orphan => StreamInv \/ BehindInv

LEMMA BehindOnLine == BehindInv /\ link # <<>> => SenderOnLine
BY DEF BehindInv, SenderBehind, SenderOnLine, LastBehind

\* A frame is off the line, and the Pi is behind the next one.
LEMMA TakenBehind ==
    ASSUME TransferOK, InOrder(link), SenderOnLine, link # <<>>, link' = Tail(link),
           UNCHANGED <<fsUp, chunk, apiUp, http>>,
           Whole(delivered'), rx'.active,
           \A n : Follows(Head(link), n) => RxBehind(n)',
           \A f, c : Head(link) = [type |-> "BLOCK", file |-> f, index |-> c] => rx'.count < c
    PROVE  BehindInv'
<1>1. link \in Seq(Frame)
    BY DEF TransferOK, LineOK
<1>2. /\ InOrder(link')
      /\ link' = <<>> => link[Len(link)] = Head(link)
      /\ link' # <<>> => Follows(Head(link), Head(link')) /\ link'[Len(link')] = link[Len(link)]
    BY <1>1, OneLess
<1>3. (link # <<>> => RxBehind(Head(link)))'
    BY <1>2 DEF RxBehind
<1>4. ASSUME NEW f, NEW c, link[Len(link)] = [type |-> "BLOCK", file |-> f, index |-> c]
      PROVE  LastBehind(link', rx', f, c)
    BY <1>2, <1>4 DEF LastBehind
<1>5. SenderBehind'
    BY <1>4 DEF SenderOnLine, SenderBehind
<1> QED
    BY <1>2, <1>3, <1>5 DEF BehindInv

\* The frame that is lost is a block, and the Pi is behind, or none that it misses.
LEMMA LossStream ==
    ASSUME TransferOK, StreamInv, Fresh, Lose
    PROVE  StreamInv' \/ BehindInv'
<1>1. PiOK /\ LineOK /\ EspOK
    BY DEF TransferOK
<1>2. /\ link # <<>> /\ link' = Tail(link)
      /\ UNCHANGED <<fsUp, chunk, apiUp, http, rx, delivered>>
    BY DEF Lose, espVars, piVars
<1>3. RxFilled' /\ Whole(delivered') /\ InOrder(link) /\ RxExpects(Head(link)) /\ SenderOnLine
    BY <1>2, StreamOnLine DEF StreamInv, RxInOrder, RxFilled
<1>4. Head(link) \in Frame
    BY <1>1, <1>2, HeadOfLine DEF LineOK
<1>5. CASE rx.active /\ Head(link).type = "BLOCK"
  <2> DEFINE b == Head(link)
  <2>1. /\ b = [type |-> "BLOCK", file |-> b.file, index |-> b.index] /\ b.file \in Files
        /\ NumBlocks[b.file] \in Nat /\ b.index \in 1..NumBlocks[b.file]
    <3>1. InRange(b)
        BY <1>1, <1>2, <1>3, OneLess DEF LineOK
    <3> QED
        BY <1>4, <1>5, <3>1, BlockFrame, Numbers DEF InRange
  <2>2. rx.count = b.index - 1 /\ b.index \in Nat
      BY <1>3, <1>5, <2>1 DEF RxExpects
  <2> HIDE DEF b
  <2>3. ASSUME NEW n, Follows(b, n) PROVE RxBehind(n)'
    <3>1. n.type = "BLOCK" => n.index - 1 = b.index
      <4>1. ASSUME n.type = "BLOCK"
            PROVE  b = [type |-> "BLOCK", file |-> n.file, index |-> n.index - 1]
        <5>1. b.type = "BLOCK"
            BY <2>1
        <5> QED
            BY <2>3, <4>1, <5>1 DEF Follows
      <4> QED
          BY <4>1
    <3>2. n.type = "END" => n.count = b.index
        BY <2>3 DEF Follows
    <3> QED
        BY <1>2, <2>2, <3>1, <3>2 DEF RxBehind
  <2>4. ASSUME NEW f, NEW c, b = [type |-> "BLOCK", file |-> f, index |-> c] PROVE rx'.count < c
    <3>1. b.index = c
        BY <2>4
    <3> QED
        BY <1>2, <2>2, <3>1
  <2> QED
      BY <1>2, <1>3, <1>5, <2>3, <2>4, TakenBehind DEF b
<1>6. CASE ~(rx.active /\ Head(link).type = "BLOCK")
  <2>1. ASSUME NEW n, Follows(Head(link), n) PROVE RxExpects(n)'
    <3>1. CASE rx.active
      <4>1. Head(link).type # "BLOCK" /\ Head(link).type # "START"
          BY <1>2, <1>6, <3>1 DEF Fresh, Opens
      <4>2. n.type # "BLOCK" /\ n.type # "END"
          BY <2>1, <4>1 DEF Follows
      <4> QED
          BY <4>2 DEF RxExpects
    <3>2. CASE ~rx.active
        BY <1>2, <3>2 DEF RxExpects
    <3> QED
        BY <3>1, <3>2
  <2>2. ASSUME NEW f, NEW c, Head(link) = [type |-> "BLOCK", file |-> f, index |-> c], rx'.active
        PROVE  FALSE
      BY <1>2, <1>6, <2>2
  <2> QED
      BY <1>2, <1>3, <2>1, <2>2, Taken
<1> QED
    BY <1>5, <1>6

\* What the Pi makes of a frame it is behind: it stays behind, or begins anew, or receives
\* nothing any more.
LEMMA PiBehind == ASSUME TransferOK, BehindInv, Pi PROVE StreamInv' \/ BehindInv'
<1>1. PiOK /\ LineOK /\ EspOK
    BY DEF TransferOK
<1>2. UNCHANGED <<fsUp, chunk, apiUp, http>>
    BY DEF Pi, HandleFileStart, HandleFileBlock, HandleFileEnd, HandleCommand, ReceiveTimeout, espVars
<1>3. /\ Whole(delivered) /\ InOrder(link) /\ rx.active
      /\ link # <<>> => RxBehind(Head(link)) /\ SenderOnLine
    BY BehindOnLine DEF BehindInv
<1>4. ~NoReception.active
    BY DEF NoReception
<1>5. CASE HandleFileStart
  <2> DEFINE f == Head(link).file
             r == [active |-> TRUE, file |-> f, buf |-> [i \in 1..NumBlocks[f] |-> Empty], count |-> 0]
  <2>1. /\ link # <<>> /\ link' = Tail(link) /\ Head(link).type = "START" /\ delivered' = delivered
        /\ rx' = r \/ rx' = NoReception
      BY <1>5 DEF HandleFileStart, Received
  <2>2. Head(link) = [type |-> "START", file |-> f] /\ NumBlocks[f] \in Nat
    <3>1. Head(link) \in Frame
        BY <1>1, <2>1, HeadOfLine DEF LineOK
    <3>2. Head(link) \in [type : {"START"}, file : Files]
        BY <2>1, <3>1 DEF Frame
    <3> QED
        BY <3>2, Numbers
  <2>3. r.active /\ r.file = f /\ r.count = 0
      OBVIOUS
  <2> HIDE DEF r
  <2>4. RxFilled' /\ Whole(delivered')
      BY <1>3, <1>4, <2>1, <2>2, <2>3 DEF RxFilled
  <2>5. ASSUME NEW n, Follows(Head(link), n) PROVE RxExpects(n)'
      BY <1>4, <2>1, <2>2, <2>3, <2>5 DEF RxExpects, Follows
  <2>6. \A g, c : Head(link) # [type |-> "BLOCK", file |-> g, index |-> c]
      BY <2>1
  <2> QED
      BY <1>2, <1>3, <2>1, <2>4, <2>5, <2>6, Taken
<1>6. CASE HandleFileBlock
  <2> DEFINE b == Head(link)
  <2>1. /\ link # <<>> /\ link' = Tail(link) /\ b.type = "BLOCK" /\ delivered' = delivered
        /\ rx' = IF Fits(b.index) THEN [rx EXCEPT !.buf[b.index] = b.file, !.count = @ + 1] ELSE rx
      BY <1>6 DEF HandleFileBlock, Received
  <2>2. b \in Frame /\ IsReception(rx)
      BY <1>1, <2>1, HeadOfLine DEF LineOK, PiOK
  <2>3. b.index \in Nat /\ rx.count \in Nat /\ rx.count < b.index - 1
    <3>1. InRange(b)
        BY <1>1, <1>3, <2>1, OneLess DEF LineOK
    <3>2. b.file \in Files /\ NumBlocks[b.file] \in Nat
        BY <2>1, <2>2, BlockFrame, Numbers
    <3>3. b.index \in Nat
        BY <2>1, <3>1, <3>2 DEF InRange
    <3> QED
        BY <1>3, <1>4, <2>1, <2>2, <3>3 DEF RxBehind, IsReception
  <2>4. rx'.active /\ rx'.count \in Nat /\ rx'.count < b.index
    <3>1. CASE Fits(b.index)
      <4>1. rx'.active /\ rx'.count = rx.count + 1
          BY <1>3, <1>4, <2>1, <2>2, <3>1 DEF IsReception
      <4> HIDE DEF b
      <4> QED
          BY <2>3, <4>1
    <3>2. CASE ~Fits(b.index)
      <4>1. rx' = rx
          BY <2>1, <3>2
      <4> HIDE DEF b
      <4> QED
          BY <1>3, <2>3, <4>1
    <3> QED
        BY <3>1, <3>2
  <2> HIDE DEF b
  <2>5. ASSUME NEW n, Follows(b, n) PROVE RxBehind(n)'
    <3>1. n.type = "BLOCK" => n.index - 1 = b.index
      <4>1. ASSUME n.type = "BLOCK"
            PROVE  b = [type |-> "BLOCK", file |-> n.file, index |-> n.index - 1]
          BY <2>1, <2>5, <4>1 DEF Follows
      <4> QED
          BY <4>1
    <3>2. n.type = "END" => n.count = b.index
        BY <2>5 DEF Follows
    <3> QED
        BY <2>4, <3>1, <3>2 DEF RxBehind
  <2>6. ASSUME NEW f, NEW c, b = [type |-> "BLOCK", file |-> f, index |-> c] PROVE rx'.count < c
    <3>1. b.index = c
        BY <2>6
    <3> QED
        BY <2>4, <3>1
  <2>7. Whole(delivered')
      BY <1>3, <2>1
  <2> QED
      BY <1>2, <1>3, <2>1, <2>4, <2>5, <2>6, <2>7, TakenBehind DEF b
<1>7. CASE HandleFileEnd
  <2>1. /\ link # <<>> /\ link' = Tail(link) /\ Head(link).type = "END" /\ rx' = NoReception
        /\ Head(link).count = rx.count \/ delivered' = delivered
      BY <1>7 DEF HandleFileEnd, Received, CountAgrees
  <2>2. rx.count < Head(link).count /\ rx.count \in Nat
      BY <1>1, <1>3, <1>4, <2>1 DEF RxBehind, PiOK, IsReception
  <2>3. Whole(delivered')
      BY <1>3, <2>1, <2>2
  <2>4. RxFilled' /\ \A n : RxExpects(n)'
      BY <1>4, <2>1 DEF RxFilled, RxExpects
  <2>5. \A g, c : Head(link) # [type |-> "BLOCK", file |-> g, index |-> c]
      BY <2>1
  <2> QED
      BY <1>2, <1>3, <2>1, <2>3, <2>4, <2>5, Taken
<1>8. CASE HandleCommand
  <2>1. /\ link # <<>> /\ link' = Tail(link) /\ Head(link).type = "CMD" /\ UNCHANGED <<rx, delivered>>
      BY <1>8 DEF HandleCommand, Received, piVars
  <2>2. Whole(delivered') /\ rx'.active
      BY <1>3, <2>1
  <2>3. ASSUME NEW n, Follows(Head(link), n) PROVE RxBehind(n)'
    <3>1. n.type # "END" /\ n.type # "BLOCK"
        BY <2>1, <2>3 DEF Follows
    <3> QED
        BY <3>1 DEF RxBehind
  <2>4. \A g, c : Head(link) # [type |-> "BLOCK", file |-> g, index |-> c]
      BY <2>1
  <2> QED
      BY <1>2, <1>3, <2>1, <2>2, <2>3, <2>4, TakenBehind
<1>9. CASE ReceiveTimeout
  <2>1. rx' = NoReception /\ UNCHANGED <<link, delivered>>
      BY <1>9 DEF ReceiveTimeout
  <2>2. InOrder(link') /\ Whole(delivered') /\ RxInOrder'
      BY <1>3, <1>4, <2>1 DEF RxInOrder, RxFilled, RxExpects
  <2>3. ASSUME NEW f, NEW c, LastBehind(link, rx, f, c) PROVE LastIs(link', rx', f, c)
      BY <1>4, <2>1, <2>3 DEF LastBehind, LastIs
  <2>4. SenderInOrder'
      BY <1>2, <2>3 DEF BehindInv, SenderBehind, SenderInOrder
  <2> QED
      BY <2>2, <2>4 DEF StreamInv
<1> QED
    BY <1>5, <1>6, <1>7, <1>8, <1>9 DEF Pi

\* A block goes out, of the upload in progress or of one that begins.
Sends(f, i, by) ==
    /\ UploadCommonBlockHandler(f, i, i - 1, by)
    /\ IF i = 1 THEN ~InTheMiddle
       ELSE \/ fsUp /\ chunk.file = f /\ chunk.next = i
            \/ apiUp /\ http[f] = i - 1
    /\ InTheMiddle' <=> i < NumBlocks[f]
    /\ fsUp' /\ chunk'.next > 1 => i < NumBlocks[f] /\ chunk'.file = f /\ chunk'.next - 1 = i
    /\ \A g \in Files : apiUp' /\ http'[g] > 0 => i < NumBlocks[f] /\ g = f /\ http'[g] = i

LEMMA ChunkSends ==
    ASSUME TransferOK, Orderly = TRUE, ServiceChunk
    PROVE  \/ \E f \in Files : \E i \in 1..NumBlocks[f] : Sends(f, i, "FS")
           \/ /\ ~fsUp' /\ orphan' = (orphan \/ chunk.next > 1)
              /\ UNCHANGED <<apiUp, chunk, pause, link>>
<1> DEFINE f == chunk.file
           i == chunk.next
<1>1. /\ EspOK /\ Counts /\ fsUp /\ ~apiUp /\ blockCount = i - 1
      /\ UNCHANGED http
    BY DEF TransferOK, Counts, ServiceChunk
<1> SUFFICES ASSUME /\ i <= NumBlocks[f]
                    /\ UploadCommonBlockHandler(f, i, blockCount, "FS")
                    /\ chunk' = [chunk EXCEPT !.next = @ + 1]
                    /\ fsUp' = (i < NumBlocks[f])
                    /\ apiUp' = (apiUp /\ fsUp')
             PROVE  \E g \in Files : \E k \in 1..NumBlocks[g] : Sends(g, k, "FS")
    BY DEF ServiceChunk
<1>2. /\ i <= NumBlocks[f]
      /\ UploadCommonBlockHandler(f, i, blockCount, "FS")
      /\ chunk' = [chunk EXCEPT !.next = @ + 1]
      /\ fsUp' = (i < NumBlocks[f])
      /\ apiUp' = (apiUp /\ fsUp')
    OBVIOUS
<1>3. f \in Files /\ i \in 1..NumBlocks[f] /\ NumBlocks[f] \in Nat /\ i \in Nat
    BY <1>1, <1>2, Numbers DEF EspOK
<1>4. chunk'.file = f /\ chunk'.next = i + 1
    BY <1>1, <1>2 DEF EspOK
<1> HIDE DEF f, i
<1>5. UploadCommonBlockHandler(f, i, i - 1, "FS")
    BY <1>1, <1>2
<1>6. i = 1 => ~InTheMiddle
    BY <1>1, <1>3 DEF InTheMiddle, i
<1>7. InTheMiddle' <=> i < NumBlocks[f]
  <2>1. chunk'.next > 1
      BY <1>3, <1>4
  <2>2. fsUp' <=> i < NumBlocks[f]
      BY Zenon, <1>2
  <2> QED
      BY Zenon, <1>1, <1>2, <2>1, <2>2 DEF InTheMiddle
<1>8. i # 1 => fsUp /\ chunk.file = f /\ chunk.next = i
    BY <1>1 DEF f, i
<1>9. fsUp' /\ chunk'.next > 1 => i < NumBlocks[f] /\ chunk'.file = f /\ chunk'.next - 1 = i
  <2>1. chunk'.next - 1 = i
      BY <1>3, <1>4
  <2> QED
      BY Zenon, <1>2, <1>4, <2>1
<1>10. ~apiUp'
    BY <1>1, <1>2
<1>11. Sends(f, i, "FS")
    BY <1>5, <1>6, <1>7, <1>8, <1>9, <1>10 DEF Sends
<1> QED
    BY <1>3, <1>11

LEMMA HttpSends ==
    ASSUME TransferOK, Orderly = TRUE, NEW f \in Files, HttpBlock(f)
    PROVE  \E i \in 1..NumBlocks[f] : Sends(f, i, "API")
<1> DEFINE i == http[f] + 1
<1>1. /\ http \in [Files -> Nat] /\ Counts
      /\ http[f] \in Nat /\ NumBlocks[f] \in Nat /\ http[f] < NumBlocks[f] /\ i \in 1..NumBlocks[f]
    BY Numbers DEF TransferOK, EspOK, Counts, HttpBlock
<1>2. UNCHANGED <<fsUp, chunk>> /\ UploadAPIBlockHandler(f, i)
    BY DEF HttpBlock
<1>3. /\ ~fsUp /\ ApiCount = http[f] /\ \A g \in Files : http[g] > 0 => g = f
      /\ IF http[f] = 0 THEN ~InTheMiddle ELSE apiUp
  <2>1. CASE http[f] = 0
    <3>1. ~fsUp /\ ~apiUp /\ \A g \in Files : http[g] = 0
        BY <2>1 DEF HttpBlock, UploadInProgress
    <3> QED
        BY <2>1, <3>1 DEF ApiCount, InTheMiddle
  <2>2. CASE http[f] # 0
    <3>1. apiUp /\ http[f] > 0
        BY <1>1, <2>2 DEF HttpBlock
    <3>2. ~fsUp /\ http[f] = blockCount /\ \A g \in Files : http[g] > 0 => g = f
        BY <1>1, <3>1 DEF Counts
    <3> QED
        BY <2>2, <3>1, <3>2 DEF ApiCount
  <2> QED
      BY <2>1, <2>2
<1>4. i - 1 = http[f]
    BY <1>1
<1>5. UploadCommonBlockHandler(f, i, i - 1, "API") /\ apiUp' = (i < NumBlocks[f])
    BY <1>2, <1>3, <1>4 DEF UploadAPIBlockHandler
<1>6. ~fsUp'
    BY <1>2, <1>3
<1>7. /\ \A g \in Files : http'[g] > 0 => g = f
      /\ http'[f] = (IF i < NumBlocks[f] THEN i ELSE 0)
  <2>1. http' = [http EXCEPT ![f] = i % NumBlocks[f]]
      BY DEF HttpBlock
  <2>2. i % NumBlocks[f] = IF i < NumBlocks[f] THEN i ELSE 0
      BY <1>1, NextBlock
  <2> HIDE DEF i
  <2> QED
      BY <1>1, <1>3, <2>1, <2>2
<1>8. i = 1 => http[f] = 0
    BY <1>1
<1>9. i # 1 => http[f] # 0
    BY <1>1
<1> HIDE DEF i
<1>10. InTheMiddle' <=> i < NumBlocks[f]
    BY <1>5, <1>6 DEF InTheMiddle
<1>11. ASSUME NEW g \in Files, apiUp', http'[g] > 0
       PROVE  i < NumBlocks[f] /\ g = f /\ http'[g] = i
    BY <1>5, <1>7, <1>11
<1>12. IF i = 1 THEN ~InTheMiddle ELSE apiUp /\ http[f] = i - 1
    BY <1>3, <1>4, <1>8, <1>9
<1>13. Sends(f, i, "API")
    BY <1>5, <1>6, <1>10, <1>11, <1>12 DEF Sends
<1> QED
    BY <1>1, <1>13

LEMMA SendBehind ==
    ASSUME TransferOK, BehindInv, NEW f \in Files, NEW i \in 1..NumBlocks[f], NEW by \in {"FS", "API"},
           Sends(f, i, by), UNCHANGED <<rx, delivered>>
    PROVE  BehindInv'
<1> DEFINE B == [type |-> "BLOCK", file |-> f, index |-> i]
<1>1. link' = LineWith(f, i, by) /\ i \in Nat
    BY Numbers DEF Sends, UploadCommonBlockHandler, LineWith
<1>2. i > 1 => LastBehind(link, rx, f, i - 1)
    BY DEF BehindInv, SenderBehind, Sends
<1>3. /\ InOrder(link') /\ link' # <<>> /\ Head(link') = FirstFrame(f, i)
      /\ i < NumBlocks[f] => link'[Len(link')] = B
    BY <1>1, <1>2, FramesInOrder DEF BehindInv, LastBehind
<1>4. RxBehind(FirstFrame(f, i))
    BY <1>1, <1>2 DEF FirstFrame, RxBehind, LastBehind, BehindInv
<1>5. (link # <<>> => RxBehind(Head(link)))'
    BY <1>3, <1>4 DEF RxBehind
<1>6. SenderBehind'
  <2>1. ASSUME i < NumBlocks[f] PROVE LastBehind(link', rx', f, i)
      BY <1>3, <2>1 DEF LastBehind
  <2> QED
      BY <2>1 DEF Sends, SenderBehind
<1> QED
    BY <1>3, <1>5, <1>6 DEF BehindInv, Whole

LEMMA QuietBehind ==
    ASSUME BehindInv, link' = link, UNCHANGED <<delivered, rx>>,
           fsUp' => \/ fsUp /\ UNCHANGED chunk
                    \/ chunk'.next = 1,
           apiUp' => apiUp,
           \A f \in Files : http'[f] = http[f] \/ http'[f] = 0
    PROVE  BehindInv'
<1>1. ASSUME fsUp', chunk'.next > 1
      PROVE  LastBehind(link', rx', chunk'.file, chunk'.next - 1)
  <2>1. fsUp /\ chunk' = chunk
      BY <1>1
  <2> QED
      BY <1>1, <2>1 DEF BehindInv, SenderBehind
<1>2. ASSUME NEW f \in Files, apiUp', http'[f] > 0
      PROVE  LastBehind(link', rx', f, http'[f])
  <2>1. http'[f] = http[f]
      BY <1>2
  <2> QED
      BY <1>2, <2>1 DEF BehindInv, SenderBehind
<1>3. SenderBehind'
    BY <1>1, <1>2 DEF SenderBehind
<1> QED
    BY <1>3 DEF BehindInv, InOrder, Follows, Whole, RxBehind

LEMMA StepBehind ==
    ASSUME TransferOK, BehindInv, Orderly = TRUE, ~Lose, [Next]_vars
    PROVE  StreamInv' \/ BehindInv'
<1>1. CASE Pi
    BY <1>1, PiBehind
<1>2. CASE ServiceChunk
  <2>1. UNCHANGED <<rx, delivered, http>>
      BY <1>2 DEF ServiceChunk, piVars
  <2>2. ASSUME NEW f \in Files, NEW i \in 1..NumBlocks[f], Sends(f, i, "FS") PROVE BehindInv'
      BY <2>1, <2>2, SendBehind
  <2>3. CASE ~fsUp' /\ UNCHANGED <<apiUp, chunk, link>>
      BY <2>1, <2>3, QuietBehind
  <2> QED
      BY <1>2, <2>2, <2>3, ChunkSends
<1>3. ASSUME NEW f \in Files, HttpBlock(f) PROVE BehindInv'
  <2>1. UNCHANGED <<rx, delivered>>
      BY <1>3 DEF HttpBlock, piVars
  <2>2. PICK i \in 1..NumBlocks[f] : Sends(f, i, "API")
      BY <1>3, HttpSends
  <2> QED
      BY <2>1, <2>2, SendBehind
<1>4. ASSUME NEW f \in Files, NEW cmd \in BOOLEAN, StartUploadFromFileSystem(f, cmd) PROVE BehindInv'
  <2>1. chunk'.next = 1 /\ UNCHANGED <<apiUp, http, link, rx, delivered>>
      BY <1>4 DEF StartUploadFromFileSystem, piVars
  <2> QED
      BY <2>1, QuietBehind
<1>5. CASE ServiceTimeout
  <2>1. ~fsUp' /\ ~apiUp' /\ UNCHANGED <<http, link, rx, delivered>>
      BY <1>5 DEF ServiceTimeout, GiveUp, piVars
  <2> QED
      BY <2>1, QuietBehind
<1>6. ASSUME NEW f \in Files, HttpAbort(f) PROVE BehindInv'
  <2>1. http' = [http EXCEPT ![f] = 0] /\ UNCHANGED <<fsUp, apiUp, chunk, link, rx, delivered>>
      BY <1>6 DEF HttpAbort, piVars
  <2>2. \A g \in Files : http'[g] = http[g] \/ http'[g] = 0
      BY <2>1 DEF TransferOK, EspOK
  <2> QED
      BY <2>1, <2>2, QuietBehind
<1>7. CASE Pause \/ TooLong \/ UNCHANGED vars
  <2>1. UNCHANGED <<fsUp, apiUp, chunk, http, link, rx, delivered>>
      BY <1>7 DEF Pause, TooLong, vars, espVars, piVars
  <2> QED
      BY <2>1, QuietBehind
<1> QED
    BY <1>1, <1>2, <1>3, <1>4, <1>5, <1>6, <1>7 DEF Next

\* The order of the records: one frame more, one less, the frames of a block.
LEMMA OneMoreRecord ==
    ASSUME NEW s \in Seq(Frame), NEW e \in Frame, AfterEnd(s),
           s # <<>> /\ Opens(e) => Closes(s[Len(s)])
    PROVE  /\ s \o <<e>> \in Seq(Frame) /\ s \o <<e>> # <<>> /\ AfterEnd(s \o <<e>>)
           /\ (s \o <<e>>)[Len(s \o <<e>>)] = e
<1> DEFINE t == Append(s, e)
<1>1. s \o <<e>> = t
    BY AppendIsConcat
<1>2. /\ t \in Seq(Frame) /\ t # <<>> /\ Len(t) = Len(s) + 1 /\ t[Len(t)] = e
      /\ \A i \in 1..Len(s) : t[i] = s[i]
    BY AppendProperties
<1> HIDE DEF t
<1>3. Len(s) \in Nat
    OBVIOUS
<1>4. ASSUME NEW k \in 1..(Len(t) - 1), Opens(t[k + 1]) PROVE Closes(t[k])
  <2>1. k \in 1..Len(s) /\ t[k] = s[k]
      BY <1>2, <1>3
  <2>2. CASE k = Len(s)
    <3>1. s # <<>> /\ t[k + 1] = e
        BY <1>2, <1>3, <2>1, <2>2
    <3> QED
        BY <1>4, <2>1, <2>2, <3>1
  <2>3. CASE k < Len(s)
    <3>1. k + 1 \in 1..Len(s) /\ k \in 1..(Len(s) - 1)
        BY <1>3, <2>1, <2>3
    <3>2. t[k + 1] = s[k + 1]
        BY <1>2, <3>1
    <3> QED
        BY <1>4, <2>1, <3>1, <3>2 DEF AfterEnd
  <2> QED
      BY <1>3, <2>1, <2>2, <2>3
<1>5. AfterEnd(t)
    BY <1>4 DEF AfterEnd
<1> QED
    BY <1>1, <1>2, <1>5

LEMMA OneLessRecord ==
    ASSUME NEW s \in Seq(Frame), s # <<>>, AfterEnd(s)
    PROVE  /\ AfterEnd(Tail(s))
           /\ Tail(s) # <<>> /\ Opens(Head(Tail(s))) => Closes(Head(s))
           /\ s[Len(s)] = IF Tail(s) = <<>> THEN Head(s) ELSE Tail(s)[Len(Tail(s))]
<1> DEFINE t == Tail(s)
<1>1. /\ Len(s) \in Nat \ {0} /\ Len(t) = Len(s) - 1 /\ t \in Seq(Frame)
      /\ \A i \in 1..Len(t) : t[i] = s[i + 1]
    BY HeadTailProperties
<1> HIDE DEF t
<1>2. Head(s) = s[1] /\ (t # <<>> => Len(t) > 0 /\ Head(t) = t[1]) /\ (t = <<>> => Len(t) = 0)
  <2>1. Head(s) = s[1]
      OBVIOUS
  <2>2. t # <<>> => Len(t) > 0 /\ Head(t) = t[1]
      BY <1>1
  <2>3. t = <<>> => Len(t) = 0
      OBVIOUS
  <2> QED
      BY <2>1, <2>2, <2>3
<1>3. ASSUME NEW k \in 1..(Len(t) - 1), Opens(t[k + 1]) PROVE Closes(t[k])
  <2>1. k + 1 \in 1..(Len(s) - 1) /\ k \in 1..Len(t) /\ k + 1 \in 1..Len(t)
      BY <1>1
  <2>2. t[k] = s[k + 1] /\ t[k + 1] = s[(k + 1) + 1]
      BY <1>1, <2>1
  <2> QED
      BY <1>3, <2>1, <2>2 DEF AfterEnd
<1>4. ASSUME t # <<>> PROVE (Opens(Head(t)) => Closes(Head(s))) /\ s[Len(s)] = t[Len(t)]
  <2>1. 1 \in 1..(Len(s) - 1) /\ 1 \in 1..Len(t) /\ Len(t) \in 1..Len(t)
      BY <1>1, <1>2, <1>4
  <2>2. t[1] = s[1 + 1] /\ t[Len(t)] = s[Len(t) + 1] /\ Len(t) + 1 = Len(s)
      BY <1>1, <2>1
  <2> QED
      BY <1>2, <1>4, <2>1, <2>2 DEF AfterEnd
<1>5. ASSUME t = <<>> PROVE s[Len(s)] = Head(s)
  <2>1. Len(s) = 1
      BY <1>1, <1>2, <1>5
  <2> QED
      BY <1>2, <2>1
<1>6. AfterEnd(t)
    BY <1>3 DEF AfterEnd
<1> QED
    BY <1>4, <1>5, <1>6 DEF t

LEMMA FramesAfterEnd ==
    ASSUME TransferOK, AfterEnd(link),
           NEW f \in Files, NEW i \in 1..NumBlocks[f], NEW by \in {"FS", "API"},
           i = 1 /\ link # <<>> => Closes(link[Len(link)])
    PROVE  LET l == LineWith(f, i, by)
           IN  AfterEnd(l) /\ (i < NumBlocks[f] \/ Closes(l[Len(l)]))
<1> DEFINE S == [type |-> "START", file |-> f]
           B == [type |-> "BLOCK", file |-> f, index |-> i]
           E == EndRecord(i - 1)
           C == [type |-> "CMD", by |-> by]
           l1 == link \o IF i - 1 = 0 THEN <<S>> ELSE <<>>
           l2 == l1 \o <<B>>
           l3 == l2 \o <<E>>
           l4 == l3 \o <<C>>
<1>1. NumBlocks[f] \in Nat /\ i \in Nat /\ link \in Seq(Frame)
    BY Numbers DEF TransferOK, LineOK
<1>2. S \in Frame /\ C \in Frame /\ Closes(C)
    BY DEF Frame, Closes
<1>3. B \in Frame /\ ~Opens(B)
  <2>1. i \in Block
      BY DEF Block
  <2> QED
      BY <2>1 DEF Frame, Opens
<1>4. E \in Frame /\ ~Opens(E) /\ Closes(E)
    BY <1>1 DEF Frame, EndRecord, Opens, Closes
<1>5. LineWith(f, i, by) = IF i < NumBlocks[f] THEN l2 ELSE IF cmdDue THEN l4 ELSE l3
    BY FramesOneByOne
<1> HIDE DEF S, B, C, E
<1>6. l1 \in Seq(Frame) /\ AfterEnd(l1)
  <2>1. CASE i - 1 = 0
    <3>1. l1 = link \o <<S>> /\ i = 1
        BY <1>1, <2>1
    <3> HIDE DEF l1
    <3> QED
        BY <1>1, <1>2, <3>1, OneMoreRecord
  <2>2. CASE i - 1 # 0
    <3>1. l1 = link
        BY <1>1, <2>2, ConcatEmptySeq
    <3> HIDE DEF l1
    <3> QED
        BY <1>1, <3>1
  <2> QED
      BY <2>1, <2>2
<1>7. l2 \in Seq(Frame) /\ AfterEnd(l2)
  <2> HIDE DEF l1
  <2> QED
      BY <1>3, <1>6, OneMoreRecord
<1>8. l3 \in Seq(Frame) /\ l3 # <<>> /\ AfterEnd(l3) /\ l3[Len(l3)] = E
  <2> HIDE DEF l2
  <2> QED
      BY <1>4, <1>7, OneMoreRecord
<1>9. AfterEnd(l4) /\ l4[Len(l4)] = C
  <2> HIDE DEF l3
  <2> QED
      BY <1>2, <1>4, <1>8, OneMoreRecord
<1> HIDE DEF l2, l3, l4
<1> QED
    BY <1>2, <1>4, <1>5, <1>7, <1>8, <1>9

LEMMA SendFresh ==
    ASSUME TransferOK, InOrder(link), Fresh,
           NEW f \in Files, NEW i \in 1..NumBlocks[f], NEW by \in {"FS", "API"},
           i > 1 /\ link # <<>> => link[Len(link)] = [type |-> "BLOCK", file |-> f, index |-> i - 1],
           Sends(f, i, by), UNCHANGED rx
    PROVE  Fresh'
<1>1. link' = LineWith(f, i, by) /\ i \in Nat /\ pause' = 0
    BY Numbers DEF Sends, UploadCommonBlockHandler, LineWith
<1>2. link' # <<>> /\ Head(link') = FirstFrame(f, i)
    BY <1>1, FramesInOrder
<1>3. i = 1 => ~InTheMiddle
    BY DEF Sends
<1>4. AfterEnd(link') /\ (i < NumBlocks[f] \/ Closes(link'[Len(link')]))
    BY <1>1, <1>3, FramesAfterEnd DEF Fresh
<1>5. Opens(FirstFrame(f, i)) => ~rx.active
  <2>1. CASE link # <<>>
      BY <2>1 DEF FirstFrame, Fresh
  <2>2. CASE link = <<>> /\ i = 1
      BY <1>3, <2>2 DEF Fresh
  <2>3. CASE link = <<>> /\ i # 1
      BY <2>3 DEF FirstFrame, Opens
  <2> QED
      BY <2>1, <2>2, <2>3
<1>6. InTheMiddle' <=> i < NumBlocks[f]
    BY DEF Sends
<1> QED
    BY <1>1, <1>2, <1>4, <1>5, <1>6 DEF Fresh

\* Nothing moves on the line.
LEMMA QuietFresh ==
    ASSUME Fresh, link' = link, rx' = rx \/ rx' = NoReception,
           pause' = 2 => pause = 2 \/ (link = <<>> /\ ~rx.active),
           InTheMiddle => InTheMiddle' \/ (link = <<>> /\ ~rx.active)
    PROVE  Fresh'
<1>1. ~rx.active => ~rx'.active
    BY DEF NoReception
<1> QED
    BY <1>1 DEF Fresh, AfterEnd, Opens, Closes

\* The Pi takes a frame.
LEMMA PiFresh == ASSUME TransferOK, Fresh, Pi PROVE Fresh'
<1>1. InTheMiddle' <=> InTheMiddle
    BY DEF Pi, HandleFileStart, HandleFileBlock, HandleFileEnd, HandleCommand, ReceiveTimeout,
           espVars, InTheMiddle
<1>2. UNCHANGED pause
    BY DEF Pi, HandleFileStart, HandleFileBlock, HandleFileEnd, HandleCommand, ReceiveTimeout
<1>3. CASE ReceiveTimeout
  <2>1. rx' = NoReception /\ link' = link
      BY <1>3 DEF ReceiveTimeout
  <2> QED
      BY <1>1, <1>2, <2>1, QuietFresh
<1>4. CASE ~ReceiveTimeout
  <2>1. /\ link # <<>> /\ link' = Tail(link)
        /\ Closes(Head(link)) => ~rx'.active
    <3>1. CASE HandleFileStart \/ HandleFileBlock
        BY <3>1 DEF HandleFileStart, HandleFileBlock, Received, Closes
    <3>2. CASE HandleFileEnd
        BY <3>2 DEF HandleFileEnd, Received, NoReception
    <3>3. CASE HandleCommand
        BY <3>3 DEF HandleCommand, Received, piVars, Fresh, Opens
    <3> QED
        BY <1>4, <3>1, <3>2, <3>3 DEF Pi
  <2>2. /\ AfterEnd(link')
        /\ link' # <<>> /\ Opens(Head(link')) => Closes(Head(link))
        /\ link[Len(link)] = IF link' = <<>> THEN Head(link) ELSE link'[Len(link')]
      BY <2>1, OneLessRecord DEF TransferOK, LineOK, Fresh
  <2>3. pause' # 2
      BY <1>2, <2>1 DEF Fresh
  <2>4. ~InTheMiddle => Closes(link[Len(link)])
      BY <2>1 DEF Fresh
  <2> QED
      BY <1>1, <2>1, <2>2, <2>3, <2>4 DEF Fresh
<1> QED
    BY <1>3, <1>4

LEMMA StepFresh ==
    ASSUME TransferOK, StreamInv, Fresh, Orderly = TRUE, ~Lose, [Next]_vars, ~orphan'
    PROVE  Fresh'
<1>1. InOrder(link) /\ (link # <<>> => SenderOnLine)
    BY StreamOnLine DEF StreamInv
<1>2. CASE Pi
    BY <1>2, PiFresh
<1>3. ASSUME NEW f \in Files, NEW i \in 1..NumBlocks[f], NEW by \in {"FS", "API"}, Sends(f, i, by)
      PROVE  i > 1 /\ link # <<>> => link[Len(link)] = [type |-> "BLOCK", file |-> f, index |-> i - 1]
  <2> SUFFICES ASSUME i > 1, link # <<>>
               PROVE  link[Len(link)] = [type |-> "BLOCK", file |-> f, index |-> i - 1]
      OBVIOUS
  <2>1. \/ fsUp /\ chunk.file = f /\ chunk.next = i
        \/ apiUp /\ http[f] = i - 1
      BY <1>3 DEF Sends
  <2>2. i - 1 > 0
      BY Numbers
  <2> QED
      BY <1>1, <2>1, <2>2 DEF SenderOnLine
<1>4. CASE ServiceChunk
  <2>1. UNCHANGED rx /\ fsUp
      BY <1>4 DEF ServiceChunk, piVars
  <2>2. ASSUME NEW f \in Files, NEW i \in 1..NumBlocks[f], Sends(f, i, "FS") PROVE Fresh'
      BY <1>1, <1>3, <2>1, <2>2, SendFresh
  <2>3. CASE /\ ~fsUp' /\ orphan' = (orphan \/ chunk.next > 1)
             /\ UNCHANGED <<apiUp, chunk, pause, link>>
    <3>1. ~(chunk.next > 1) /\ ~apiUp
        BY <2>1, <2>3 DEF TransferOK, Counts
    <3>2. ~InTheMiddle
        BY <3>1 DEF InTheMiddle
    <3> QED
        BY <2>1, <2>3, <3>2, QuietFresh
  <2> QED
      BY <1>4, <2>2, <2>3, ChunkSends
<1>5. ASSUME NEW f \in Files, HttpBlock(f) PROVE Fresh'
  <2>1. UNCHANGED rx
      BY <1>5 DEF HttpBlock, piVars
  <2>2. PICK i \in 1..NumBlocks[f] : Sends(f, i, "API")
      BY <1>5, HttpSends
  <2> QED
      BY <1>1, <1>3, <2>1, <2>2, SendFresh
<1>6. ASSUME NEW f \in Files, NEW cmd \in BOOLEAN, StartUploadFromFileSystem(f, cmd) PROVE Fresh'
  <2>1. ~InTheMiddle /\ pause' = 0 /\ UNCHANGED <<link, rx>>
      BY <1>6 DEF StartUploadFromFileSystem, piVars, UploadInProgress, InTheMiddle
  <2> QED
      BY <2>1, QuietFresh
<1>7. CASE ServiceTimeout
  <2>1. UNCHANGED <<link, rx, pause>> /\ pause \in 0..2 /\ ~(pause < 2)
      BY <1>7 DEF ServiceTimeout, piVars, TransferOK, EspOK
  <2>2. link = <<>> /\ ~rx.active
      BY <2>1 DEF Fresh
  <2> QED
      BY <2>1, <2>2, QuietFresh
<1>8. ASSUME NEW f \in Files, HttpAbort(f) PROVE Fresh'
  <2>1. UNCHANGED <<fsUp, apiUp, chunk, link, rx, pause>>
      BY <1>8 DEF HttpAbort, piVars
  <2> QED
      BY <2>1, QuietFresh DEF InTheMiddle
<1>9. CASE Pause
  <2>1. UNCHANGED <<fsUp, apiUp, chunk, link, rx>> /\ link = <<>> /\ pause' = pause + 1
      BY <1>9 DEF Pause, espVars, piVars
  <2>2. pause' = 2 => ~rx.active
      BY <1>9, <2>1 DEF Pause, TransferOK, EspOK
  <2> QED
      BY <2>1, <2>2, QuietFresh DEF InTheMiddle
<1>10. CASE TooLong \/ UNCHANGED vars
  <2>1. UNCHANGED <<fsUp, apiUp, chunk, link, rx, pause>>
      BY <1>10 DEF TooLong, vars, espVars, piVars
  <2> QED
      BY <2>1, QuietFresh DEF InTheMiddle
<1> QED
    BY <1>2, <1>4, <1>5, <1>6, <1>7, <1>8, <1>9, <1>10 DEF Next

LEMMA InitFresh == Init => Fresh
<1> SUFFICES ASSUME Init PROVE Fresh
    OBVIOUS
<1>1. link = <<>> /\ rx = NoReception /\ pause = 0
    BY DEF Init
<1>2. AfterEnd(<<>>)
    BY DEF AfterEnd
<1> QED
    BY <1>1, <1>2 DEF Fresh, NoReception

LEMMA LossesCounted ==
    [Next]_vars => /\ UNCHANGED losses \/ Lose
                   /\ orphan => orphan'
<1> SUFFICES ASSUME [Next]_vars
             PROVE  (UNCHANGED losses \/ Lose) /\ (orphan => orphan')
    OBVIOUS
<1>1. CASE UNCHANGED vars
    BY <1>1 DEF vars
<1>2. CASE Pi
    BY <1>2 DEF Pi, HandleFileStart, HandleFileBlock, HandleFileEnd, HandleCommand, ReceiveTimeout
<1>3. CASE ServiceChunk
  <2>1. UNCHANGED losses
      BY <1>3 DEF ServiceChunk
  <2>2. ASSUME orphan PROVE orphan'
    <3>1. (orphan \/ chunk.next > 1) = TRUE
        BY <2>2
    <3>2. CASE UNCHANGED orphan
        BY <2>2, <3>2
    <3>3. CASE orphan' = (orphan \/ chunk.next > 1)
      <4> DEFINE given == orphan \/ chunk.next > 1
      <4>1. orphan' = given /\ given = TRUE
          BY <3>1, <3>3
      <4> HIDE DEF given
      <4> QED
          BY <4>1
    <3> QED
        BY <1>3, <3>2, <3>3 DEF ServiceChunk
  <2> QED
      BY <2>1, <2>2
<1>4. CASE ServiceTimeout
    BY <1>4 DEF ServiceTimeout
<1>5. ASSUME NEW f \in Files, NEW cmd \in BOOLEAN,
             StartUploadFromFileSystem(f, cmd) \/ HttpBlock(f) \/ HttpAbort(f)
      PROVE  UNCHANGED <<losses, orphan>>
    BY <1>5 DEF StartUploadFromFileSystem, HttpBlock, HttpAbort
<1>6. CASE Lose \/ Pause \/ TooLong
    BY <1>6 DEF Lose, Pause, TooLong
<1> QED
    BY <1>1, <1>2, <1>3, <1>4, <1>5, <1>6 DEF Next

LEMMA StepOneLoss ==
    ASSUME TransferOK, OneLossInv, Orderly = TRUE, [Next]_vars
    PROVE  OneLossInv'
<1>1. losses \in Nat
    BY Numbers DEF TransferOK, LineOK
<1>2. CASE Lose
  <2>1. losses' = losses + 1 /\ orphan' = orphan
      BY <1>2 DEF Lose
  <2>2. ASSUME losses' = 1, ~orphan' PROVE StreamInv' \/ BehindInv'
    <3>1. losses = 0 /\ ~orphan
        BY <1>1, <2>1, <2>2
    <3> QED
        BY <1>2, <3>1, LossStream DEF OneLossInv
  <2> QED
      BY <1>1, <2>1, <2>2 DEF OneLossInv
<1>3. CASE ~Lose
  <2>1. losses' = losses /\ (orphan => orphan')
      BY <1>3, LossesCounted
  <2>2. losses = 0 => StreamInv'
      BY <1>3, StepStream DEF OneLossInv
  <2>3. losses = 0 /\ ~orphan' => Fresh'
      BY <1>3, <2>1, StepFresh DEF OneLossInv
  <2>4. losses = 1 /\ ~orphan' => StreamInv' \/ BehindInv'
      BY <1>3, <2>1, StepStream, StepBehind DEF OneLossInv
  <2> QED
      BY <2>1, <2>2, <2>3, <2>4 DEF OneLossInv
<1> QED
    BY <1>2, <1>3

\* The inductive invariant of a line that loses a frame at most.
THEOREM StreamInvariant ==
    ASSUME Orderly = TRUE
    PROVE  Spec => [](TransferOK /\ OneLossInv)
<1>1. Init => TransferOK /\ OneLossInv
    BY InitTransfer, InitStream, InitFresh DEF Init, OneLossInv
<1>2. TransferOK /\ OneLossInv /\ [Next]_vars => (TransferOK /\ OneLossInv)'
    BY StepTypes, StepOneLoss
<1> QED
    BY <1>1, <1>2, PTL DEF Spec

\* A file is delivered whole or not at all, whatever stops in the middle and although a
\* frame is lost, as long as HTTP clients do not overlap with another upload.
THEOREM FileDeliveredWhole ==
    ASSUME Orderly = TRUE
    PROVE  Spec => []DeliveredWhole
<1>1. OneLossInv => DeliveredWhole
  <2>1. StreamInv \/ BehindInv => Whole(delivered)
      BY DEF StreamInv, BehindInv
  <2> QED
      BY <2>1 DEF OneLossInv, Whole, DeliveredWhole
<1> QED
    BY <1>1, StreamInvariant, PTL

-----------------------------------------------------------------------------
(* Until the first disturbance *)

LEMMA EndsNat == \A n : Ends(n) \in Nat
BY DEF Ends

\* An end record more on the line, and one less
LEMMA CountMore ==
    ASSUME NEW l \in Seq(Frame), NEW e \in Frame, NEW m, NEW n \in Nat, CountsUp(l, m, n)
    PROVE  l \o <<e>> \in Seq(Frame) /\ CountsUp(l \o <<e>>, m, n + Ends(e))
<1> DEFINE t == Append(l, e)
<1>1. l \o <<e>> = t
    BY AppendIsConcat
<1>2. /\ t \in Seq(Frame) /\ Len(t) = Len(l) + 1 /\ t[Len(t)] = e
      /\ \A k \in 1..Len(l) : t[k] = l[k]
    BY AppendProperties
<1>3. PICK c \in [0..Len(l) -> Nat] :
        c[0] = m /\ c[Len(l)] = n /\ \A k \in 1..Len(l) : c[k] = c[k - 1] + Ends(l[k])
    BY DEF CountsUp
<1> DEFINE d == [k \in 0..Len(t) |-> IF k = Len(t) THEN n + Ends(e) ELSE c[k]]
<1> HIDE DEF t
<1>4. Len(l) \in Nat /\ Ends(e) \in Nat
    BY EndsNat
<1>5. d \in [0..Len(t) -> Nat]
  <2>1. ASSUME NEW k \in 0..Len(t), k # Len(t) PROVE c[k] \in Nat
    <3>1. k \in 0..Len(l)
        BY <1>2, <1>4, <2>1
    <3> QED
        BY <1>3, <3>1
  <2>2. n + Ends(e) \in Nat
      BY <1>4
  <2> QED
      BY <2>1, <2>2
<1>6. /\ \A k \in 0..Len(l) : d[k] = c[k]
      /\ d[Len(t)] = n + Ends(e) /\ 0 \in 0..Len(l) /\ Len(l) \in 0..Len(l)
    BY <1>2, <1>4
<1> HIDE DEF d
<1>7. ASSUME NEW k \in 1..Len(t) PROVE d[k] = d[k - 1] + Ends(t[k])
  <2>1. CASE k = Len(t)
    <3>1. k - 1 = Len(l)
        BY <1>2, <1>4, <2>1
    <3> QED
        BY <1>2, <1>3, <1>6, <2>1, <3>1
  <2>2. CASE k # Len(t)
    <3>1. k \in 1..Len(l) /\ k \in 0..Len(l) /\ k - 1 \in 0..Len(l)
        BY <1>2, <1>4, <2>2
    <3> QED
        BY <1>2, <1>3, <1>6, <3>1
  <2> QED
      BY <2>1, <2>2
<1>8. CountsUp(t, m, n + Ends(e))
    BY <1>3, <1>5, <1>6, <1>7 DEF CountsUp
<1> QED
    BY <1>1, <1>2, <1>8

LEMMA CountLess ==
    ASSUME NEW l \in Seq(Frame), l # <<>>, NEW m \in Nat, NEW n \in Nat, CountsUp(l, m, n)
    PROVE  CountsUp(Tail(l), m + Ends(Head(l)), n)
<1> DEFINE t == Tail(l)
<1>1. /\ Len(l) \in Nat \ {0} /\ Len(t) = Len(l) - 1 /\ t \in Seq(Frame)
      /\ \A k \in 1..Len(t) : t[k] = l[k + 1]
    BY HeadTailProperties
<1>2. Head(l) = l[1]
    OBVIOUS
<1>3. PICK c \in [0..Len(l) -> Nat] :
        c[0] = m /\ c[Len(l)] = n /\ \A k \in 1..Len(l) : c[k] = c[k - 1] + Ends(l[k])
    BY DEF CountsUp
<1> HIDE DEF t
<1> DEFINE d == [k \in 0..Len(t) |-> c[k + 1]]
<1>4. d \in [0..Len(t) -> Nat]
  <2>1. ASSUME NEW k \in 0..Len(t) PROVE c[k + 1] \in Nat
    <3>1. k + 1 \in 0..Len(l)
        BY <1>1
    <3> QED
        BY <1>3, <3>1
  <2> QED
      BY <2>1
<1>5. \A k \in 0..Len(t) : d[k] = c[k + 1]
    OBVIOUS
<1> HIDE DEF d
<1>6. d[0] = m + Ends(Head(l)) /\ d[Len(t)] = n
  <2>1. 0 \in 0..Len(t) /\ Len(t) \in 0..Len(t) /\ 1 \in 1..Len(l) /\ 1 - 1 = 0 /\ 0 + 1 = 1 /\ Len(t) + 1 = Len(l)
      BY <1>1
  <2>2. c[1] = c[1 - 1] + Ends(l[1])
      BY <1>3, <2>1
  <2>3. d[0] = c[0 + 1] /\ d[Len(t)] = c[Len(t) + 1]
      BY <1>5, <2>1
  <2> QED
      BY <1>2, <1>3, <2>1, <2>2, <2>3
<1>7. ASSUME NEW k \in 1..Len(t) PROVE d[k] = d[k - 1] + Ends(t[k])
  <2>1. k \in 0..Len(t) /\ k - 1 \in 0..Len(t) /\ (k - 1) + 1 = k /\ (k + 1) - 1 = k /\ k + 1 \in 1..Len(l)
      BY <1>1
  <2>2. c[k + 1] = c[(k + 1) - 1] + Ends(l[k + 1])
      BY <1>3, <2>1
  <2>3. d[k] = c[k + 1] /\ d[k - 1] = c[(k - 1) + 1] /\ t[k] = l[k + 1]
      BY <1>1, <1>5, <2>1
  <2> QED
      BY <2>1, <2>2, <2>3
<1>8. CountsUp(t, m + Ends(Head(l)), n)
    BY <1>4, <1>6, <1>7 DEF CountsUp
<1> QED
    BY <1>8 DEF t

LEMMA CountNone ==
    ASSUME NEW m, NEW n, CountsUp(<<>>, m, n)
    PROVE  m = n
BY DEF CountsUp

LEMMA SenderCounts ==
    ASSUME TransferOK, NEW f \in Files, NEW i \in 1..NumBlocks[f], NEW by \in {"FS", "API"},
           UploadCommonBlockHandler(f, i, i - 1, by), CountsUp(link, deliveries, completed),
           UNCHANGED deliveries
    PROVE  CountsUp(link', deliveries', completed')
<1> DEFINE S == [type |-> "START", file |-> f]
           B == [type |-> "BLOCK", file |-> f, index |-> i]
           E == EndRecord(i - 1)
           C == [type |-> "CMD", by |-> by]
           l1 == link \o IF i - 1 = 0 THEN <<S>> ELSE <<>>
           l2 == l1 \o <<B>>
           l3 == l2 \o <<E>>
           l4 == l3 \o <<C>>
<1>1. NumBlocks[f] \in Nat /\ i \in Nat /\ link \in Seq(Frame) /\ completed \in Nat
    BY Numbers DEF TransferOK, LineOK, EspOK
<1>2. S \in Frame /\ C \in Frame /\ Ends(S) = 0 /\ Ends(C) = 0
    BY DEF Frame, Ends
<1>3. B \in Frame /\ Ends(B) = 0
  <2>1. i \in Block
      BY DEF Block
  <2> QED
      BY <2>1 DEF Frame, Ends
<1>4. E \in Frame /\ Ends(E) = 1
    BY <1>1 DEF Frame, EndRecord, Ends
<1>5. link' = IF i < NumBlocks[f] THEN l2 ELSE IF cmdDue THEN l4 ELSE l3
    BY FramesOneByOne DEF UploadCommonBlockHandler, LineWith
<1>6. completed' = IF i < NumBlocks[f] THEN completed ELSE completed + 1
    BY DEF UploadCommonBlockHandler
<1> HIDE DEF S, B, C, E
<1>7. l1 \in Seq(Frame) /\ CountsUp(l1, deliveries, completed)
  <2>1. CASE i - 1 = 0
    <3>1. l1 = link \o <<S>> /\ completed + 0 = completed
        BY <1>1, <2>1
    <3> HIDE DEF l1
    <3> QED
        BY <1>1, <1>2, <3>1, CountMore
  <2>2. CASE i - 1 # 0
    <3>1. l1 = link
        BY <1>1, <2>2, ConcatEmptySeq
    <3> HIDE DEF l1
    <3> QED
        BY <1>1, <3>1
  <2> QED
      BY <2>1, <2>2
<1>8. l2 \in Seq(Frame) /\ CountsUp(l2, deliveries, completed)
  <2>1. completed + 0 = completed
      BY <1>1
  <2> HIDE DEF l1
  <2> QED
      BY <1>1, <1>3, <1>7, <2>1, CountMore
<1>9. l3 \in Seq(Frame) /\ CountsUp(l3, deliveries, completed + 1)
  <2> HIDE DEF l2
  <2> QED
      BY <1>1, <1>4, <1>8, CountMore
<1>10. CountsUp(l4, deliveries, completed + 1)
  <2>1. (completed + 1) + 0 = completed + 1 /\ completed + 1 \in Nat
      BY <1>1
  <2> HIDE DEF l3
  <2> QED
      BY <1>2, <1>9, <2>1, CountMore
<1> HIDE DEF l2, l3, l4
<1> QED
    BY <1>5, <1>6, <1>8, <1>9, <1>10

\* A block goes out: the Pi is ready for the first of its frames.
LEMMA SenderUninterrupted ==
    ASSUME TransferOK, StreamInv, NEW f \in Files, NEW i \in 1..NumBlocks[f], NEW by \in {"FS", "API"},
           i > 1 => LastIs(link, rx, f, i - 1),
           UploadCommonBlockHandler(f, i, i - 1, by), UNCHANGED <<rx, deliveries>>,
           Uninterrupted, link = <<>> /\ i > 1 => rx.active
    PROVE  Uninterrupted'
<1>1. link' = LineWith(f, i, by) /\ i \in Nat
    BY Numbers DEF UploadCommonBlockHandler, LineWith
<1>2. link' # <<>> /\ Head(link') = FirstFrame(f, i)
    BY <1>1, FramesInOrder DEF StreamInv, LastIs
<1>3. Takes(Head(link))'
  <2>1. CASE link # <<>>
    <3>1. Takes(Head(link)) /\ Head(link') = Head(link)
        BY <1>2, <2>1 DEF Uninterrupted, PiReady, FirstFrame
    <3> QED
        BY <3>1 DEF Takes
  <2>2. CASE link = <<>> /\ i = 1
    <3>1. Head(link').type = "START"
        BY <1>2, <2>2 DEF FirstFrame
    <3> QED
        BY <3>1 DEF Takes
  <2>3. CASE link = <<>> /\ i > 1
    <3>1. Head(link').type = "BLOCK"
        BY <1>2, <2>3 DEF FirstFrame
    <3> QED
        BY <2>3, <3>1 DEF Takes
  <2> QED
      BY <1>1, <2>1, <2>2, <2>3
<1>4. CountsUp(link', deliveries', completed')
    BY SenderCounts DEF Uninterrupted
<1> QED
    BY <1>2, <1>3, <1>4 DEF Uninterrupted, PiReady, Takes

LEMMA ChunkUninterrupted ==
    ASSUME TransferOK, StreamInv, Uninterrupted, Orderly = TRUE, ServiceChunk
    PROVE  Uninterrupted'
<1>1. /\ EspOK /\ Counts /\ fsUp /\ ~apiUp /\ blockCount = chunk.next - 1
      /\ UNCHANGED <<http, rx, deliveries>>
    BY DEF TransferOK, Counts, ServiceChunk, piVars
<1>2. CASE /\ chunk.next <= NumBlocks[chunk.file]
           /\ UploadCommonBlockHandler(chunk.file, chunk.next, blockCount, "FS")
  <2>1. chunk.file \in Files /\ chunk.next \in 1..NumBlocks[chunk.file] /\ NumBlocks[chunk.file] \in Nat
      BY <1>1, <1>2, Numbers DEF EspOK
  <2>2. chunk.next > 1 => LastIs(link, rx, chunk.file, chunk.next - 1)
      BY <1>1 DEF StreamInv, SenderInOrder
  <2>3. link = <<>> /\ chunk.next > 1 => rx.active
      BY <1>1 DEF Uninterrupted, PiReady
  <2> QED
      BY <1>1, <1>2, <2>1, <2>2, <2>3, SenderUninterrupted
<1>3. CASE fsUp' = FALSE /\ UNCHANGED <<apiUp, link, completed>>
    BY <1>1, <1>3 DEF Uninterrupted, PiReady, Takes
<1> QED
    BY <1>2, <1>3 DEF ServiceChunk

LEMMA HttpUninterrupted ==
    ASSUME TransferOK, StreamInv, Uninterrupted, Orderly = TRUE, NEW f \in Files, HttpBlock(f)
    PROVE  Uninterrupted'
<1> DEFINE i == http[f] + 1
<1>1. /\ http[f] \in Nat /\ NumBlocks[f] \in Nat /\ http[f] < NumBlocks[f] /\ i \in 1..NumBlocks[f] /\ Counts
    BY Numbers DEF TransferOK, EspOK, Counts, HttpBlock
<1>2. UNCHANGED <<rx, deliveries>> /\ UploadAPIBlockHandler(f, i)
    BY DEF HttpBlock, piVars
<1>3. ~fsUp /\ ApiCount = http[f] /\ (http[f] > 0 => apiUp)
  <2>1. CASE http[f] = 0
    <3>1. ~fsUp /\ ~apiUp
        BY <2>1 DEF HttpBlock, UploadInProgress
    <3> QED
        BY <2>1, <3>1 DEF ApiCount
  <2>2. CASE http[f] > 0
    <3>1. apiUp
        BY <2>2 DEF HttpBlock
    <3>2. ~fsUp /\ http[f] = blockCount
        BY <1>1, <2>2, <3>1 DEF Counts
    <3> QED
        BY <3>1, <3>2 DEF ApiCount
  <2> QED
      BY <1>1, <2>1, <2>2
<1>4. UploadCommonBlockHandler(f, i, i - 1, "API")
    BY <1>1, <1>2, <1>3 DEF UploadAPIBlockHandler
<1>5. i > 1 => LastIs(link, rx, f, i - 1)
    BY <1>1, <1>3 DEF StreamInv, SenderInOrder
<1>6. link = <<>> /\ i > 1 => rx.active
    BY <1>1, <1>3 DEF Uninterrupted, PiReady
<1> QED
    BY <1>1, <1>2, <1>4, <1>5, <1>6, SenderUninterrupted

\* What moves no frame, and stops an upload at most.
LEMMA QuietUninterrupted ==
    ASSUME Uninterrupted, UNCHANGED <<link, rx, deliveries, completed>>,
           fsUp' => \/ fsUp /\ UNCHANGED chunk
                    \/ chunk'.next = 1,
           apiUp' => apiUp,
           \A f \in Files : http'[f] = http[f] \/ http'[f] = 0
    PROVE  Uninterrupted'
<1>1. CountsUp(link', deliveries', completed')
    BY DEF Uninterrupted
<1>2. link # <<>> => Takes(Head(link))'
    BY DEF Uninterrupted, PiReady, Takes
<1>3. ASSUME link = <<>>
      PROVE  /\ fsUp' /\ chunk'.next > 1 => rx'.active
             /\ \A f \in Files : apiUp' /\ http'[f] > 0 => rx'.active
    BY <1>3 DEF Uninterrupted, PiReady
<1> QED
    BY <1>1, <1>2, <1>3 DEF Uninterrupted, PiReady, Takes

\* The Pi takes a frame and is ready for the next.
LEMMA TakenUninterrupted ==
    ASSUME TransferOK, StreamInv, Uninterrupted, link # <<>>, link' = Tail(link),
           UNCHANGED <<fsUp, chunk, apiUp, http, completed>>,
           deliveries' = deliveries + Ends(Head(link)),
           Head(link).type = "BLOCK" => rx'.active,
           \A n : Follows(Head(link), n) => Takes(n)'
    PROVE  Uninterrupted'
<1>1. link \in Seq(Frame) /\ InOrder(link) /\ deliveries \in Nat /\ completed \in Nat
    BY DEF TransferOK, LineOK, PiOK, EspOK, StreamInv
<1>2. /\ link' = <<>> => link[Len(link)] = Head(link)
      /\ link' # <<>> => Follows(Head(link), Head(link'))
    BY <1>1, OneLess
<1>3. CountsUp(link', deliveries', completed')
  <2>1. CountsUp(link, deliveries, completed)
      BY DEF Uninterrupted
  <2> QED
      BY <1>1, <2>1, CountLess
<1>4. CASE link' # <<>>
    BY <1>2, <1>3, <1>4 DEF Uninterrupted, PiReady, Takes
<1>5. CASE link' = <<>>
  <2>1. ASSUME NEW f, NEW c, LastIs(link, rx, f, c) PROVE rx'.active
    <3>1. Head(link) = [type |-> "BLOCK", file |-> f, index |-> c]
        BY <1>2, <1>5, <2>1 DEF LastIs
    <3> QED
        BY <3>1
  <2>2. /\ fsUp' /\ chunk'.next > 1 => rx'.active
        /\ \A f \in Files : apiUp' /\ http'[f] > 0 => rx'.active
      BY <2>1 DEF StreamInv, SenderInOrder
  <2> QED
      BY <1>3, <1>5, <2>2 DEF Uninterrupted, PiReady
<1> QED
    BY <1>4, <1>5

LEMMA PiUninterrupted ==
    ASSUME TransferOK, StreamInv, Uninterrupted, Pi, undisturbed'
    PROVE  Uninterrupted'
<1>1. PiOK /\ LineOK /\ deliveries \in Nat
    BY DEF TransferOK, PiOK
<1>2. UNCHANGED <<fsUp, chunk, apiUp, http, completed>>
    BY DEF Pi, HandleFileStart, HandleFileBlock, HandleFileEnd, HandleCommand, ReceiveTimeout, espVars
<1>3. link # <<>> => Takes(Head(link)) /\ RxExpects(Head(link))
    BY DEF Uninterrupted, PiReady, StreamInv, RxInOrder
<1>4. deliveries + 0 = deliveries
    BY <1>1
<1>5. CASE HandleFileStart
  <2>1. /\ link # <<>> /\ link' = Tail(link) /\ Head(link).type = "START" /\ deliveries' = deliveries
        /\ rx'.active
      BY <1>5 DEF HandleFileStart, Received
  <2>2. ASSUME NEW n, Follows(Head(link), n) PROVE Takes(n)'
      BY <2>1, <2>2 DEF Follows, Takes
  <2>3. Ends(Head(link)) = 0
      BY <2>1 DEF Ends
  <2> QED
      BY <1>2, <1>4, <2>1, <2>2, <2>3, TakenUninterrupted
<1>6. CASE HandleFileBlock
  <2> DEFINE b == Head(link)
  <2>1. /\ link # <<>> /\ link' = Tail(link) /\ b.type = "BLOCK" /\ deliveries' = deliveries
        /\ rx' = IF Fits(b.index) THEN [rx EXCEPT !.buf[b.index] = b.file, !.count = @ + 1] ELSE rx
      BY <1>6 DEF HandleFileBlock, Received
  <2>2. b \in Frame /\ IsReception(rx)
      BY <1>1, <2>1, HeadOfLine DEF LineOK, PiOK
  <2>3. rx.active /\ rx.file = b.file /\ rx.count = b.index - 1
      BY <1>3, <2>1 DEF Takes, RxExpects
  <2>4. b.file \in Files /\ NumBlocks[b.file] \in Nat /\ b.index \in 1..NumBlocks[b.file]
    <3>1. InRange(b)
        BY <1>1, <2>1, OneLess DEF StreamInv, LineOK
    <3> QED
        BY <2>1, <2>2, <3>1, BlockFrame, Numbers DEF InRange
  <2>5. Fits(b.index)
      BY <2>3, <2>4 DEF Fits
  <2> HIDE DEF b
  <2>6. rx'.active /\ rx'.count = b.index
    <3>1. rx'.active /\ rx'.count = rx.count + 1
        BY <2>1, <2>2, <2>5, StoredBlock
    <3> QED
        BY <2>3, <2>4, <3>1
  <2>7. ASSUME NEW n, Follows(b, n) PROVE Takes(n)'
      BY <2>6, <2>7 DEF Follows, Takes
  <2>8. Ends(b) = 0
      BY <2>1 DEF Ends
  <2> QED
      BY <1>2, <1>4, <2>1, <2>6, <2>7, <2>8, TakenUninterrupted DEF b
<1>7. CASE HandleFileEnd
  <2>1. link # <<>> /\ link' = Tail(link) /\ Head(link).type = "END"
      BY <1>7 DEF HandleFileEnd, Received
  <2>2. rx.active /\ CountAgrees(Head(link).count)
      BY <1>3, <2>1 DEF Takes, CountAgrees
  <2>3. deliveries' = deliveries + Ends(Head(link))
      BY <1>7, <2>1, <2>2 DEF HandleFileEnd, Ends
  <2>4. ASSUME NEW n, Follows(Head(link), n) PROVE Takes(n)'
      BY <2>1, <2>4 DEF Follows, Takes
  <2>5. Head(link).type # "BLOCK"
      BY <2>1
  <2> QED
      BY <1>2, <2>1, <2>3, <2>4, <2>5, TakenUninterrupted
<1>8. CASE HandleCommand
  <2>1. /\ link # <<>> /\ link' = Tail(link) /\ Head(link).type = "CMD" /\ deliveries' = deliveries
      BY <1>8 DEF HandleCommand, Received, piVars
  <2>2. ASSUME NEW n, Follows(Head(link), n) PROVE Takes(n)'
      BY <2>1, <2>2 DEF Follows, Takes
  <2>3. Ends(Head(link)) = 0 /\ Head(link).type # "BLOCK"
      BY <2>1 DEF Ends
  <2> QED
      BY <1>2, <1>4, <2>1, <2>2, <2>3, TakenUninterrupted
<1>9. CASE ReceiveTimeout
    BY <1>9 DEF ReceiveTimeout
<1> QED
    BY <1>5, <1>6, <1>7, <1>8, <1>9 DEF Pi

LEMMA StepUninterrupted ==
    ASSUME TransferOK, StreamInv, Uninterrupted, Orderly = TRUE, [Next]_vars, undisturbed'
    PROVE  Uninterrupted'
<1>1. CASE Pi
    BY <1>1, PiUninterrupted
<1>2. CASE ServiceChunk
    BY <1>2, ChunkUninterrupted
<1>3. ASSUME NEW f \in Files, HttpBlock(f) PROVE Uninterrupted'
    BY <1>3, HttpUninterrupted
<1>4. ASSUME NEW f \in Files, NEW cmd \in BOOLEAN, StartUploadFromFileSystem(f, cmd) PROVE Uninterrupted'
  <2>1. chunk'.next = 1 /\ UNCHANGED <<apiUp, http, link, rx, deliveries, completed>>
      BY <1>4 DEF StartUploadFromFileSystem, piVars
  <2> QED
      BY <2>1, QuietUninterrupted
<1>5. CASE ServiceTimeout
  <2>1. ~fsUp' /\ ~apiUp' /\ UNCHANGED <<http, link, rx, deliveries, completed>>
      BY <1>5 DEF ServiceTimeout, GiveUp, piVars
  <2> QED
      BY <2>1, QuietUninterrupted
<1>6. ASSUME NEW f \in Files, HttpAbort(f) PROVE Uninterrupted'
  <2>1. /\ http' = [http EXCEPT ![f] = 0]
        /\ UNCHANGED <<fsUp, apiUp, chunk, link, rx, deliveries, completed>>
      BY <1>6 DEF HttpAbort, piVars
  <2>2. \A g \in Files : http'[g] = http[g] \/ http'[g] = 0
      BY <2>1 DEF TransferOK, EspOK
  <2> QED
      BY <2>1, <2>2, QuietUninterrupted
<1>7. CASE Pause \/ TooLong \/ UNCHANGED vars
  <2>1. UNCHANGED <<fsUp, apiUp, chunk, http, link, rx, deliveries, completed>>
      BY <1>7 DEF Pause, TooLong, vars, espVars, piVars
  <2> QED
      BY <2>1, QuietUninterrupted
<1>8. ~Lose
    BY DEF Lose
<1> QED
    BY <1>1, <1>2, <1>3, <1>4, <1>5, <1>6, <1>7, <1>8 DEF Next

\* A disturbance is not forgotten.
LEMMA Disturbed == ASSUME TransferOK, [Next]_vars, undisturbed' PROVE undisturbed /\ ~Lose
<1>1. undisturbed' = undisturbed \/ undisturbed' = FALSE
    BY DEF Next, Pi, HandleFileStart, HandleFileBlock, HandleFileEnd, HandleCommand, ReceiveTimeout,
           StartUploadFromFileSystem, ServiceChunk, ServiceTimeout, HttpBlock, HttpAbort, Lose, Pause,
           TooLong, vars
<1> QED
    BY <1>1 DEF Lose

\* Without a disturbance every upload whose end record was sent is delivered, those after
\* one that was given up too, as long as HTTP clients do not overlap with another upload.
THEOREM CompletedFilesDelivered ==
    ASSUME Orderly = TRUE
    PROVE  Spec => []CompletedIsDelivered
<1> DEFINE Inv == TransferOK /\ (undisturbed => StreamInv /\ Uninterrupted)
<1>1. Init => Inv
  <2> SUFFICES ASSUME Init PROVE Uninterrupted
      BY InitTransfer, InitStream
  <2>1. link = <<>> /\ ~fsUp /\ ~apiUp /\ deliveries = 0 /\ completed = 0
      BY DEF Init
  <2>2. CountsUp(<<>>, 0, 0)
    <3> DEFINE c == [k \in 0..0 |-> 0]
    <3>1. c \in [0..Len(<<>>) -> Nat] /\ c[0] = 0 /\ c[Len(<<>>)] = 0 /\ 1..Len(<<>>) = {}
        OBVIOUS
    <3> HIDE DEF c
    <3> QED
        BY <3>1 DEF CountsUp
  <2> QED
      BY <2>1, <2>2 DEF Uninterrupted, PiReady
<1>2. Inv /\ [Next]_vars => Inv'
    BY StepTypes, StepStream, StepUninterrupted, Disturbed
<1>3. Inv => CompletedIsDelivered
    BY CountNone DEF Uninterrupted, CompletedIsDelivered
<1> QED
    BY <1>1, <1>2, <1>3, PTL DEF Spec

=============================================================================
