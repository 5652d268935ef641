-------------------------- MODULE SftpUploadProofs --------------------------
(***************************************************************************)
(* Proofs about SftpUpload for a local file of any number of blocks, any   *)
(* number of refusals and lost connections and any order of responses.     *)
(***************************************************************************)
EXTENDS SftpUpload, SftpPacketsProofs, FiniteSetTheorems

----------------------------------------------------------------------------
(* Places, calls and files                                                 *)

\* The blocking calls, one by one.
LEMMA CallFacts ==
  /\ DOMAIN Calls = {"check", "discard", "open", "erase", "undo", "remove", "rename", "touch", "idle"}
  /\ Calls["check"] = "stat" /\ Calls["discard"] = "remove" /\ Calls["open"] = "open"
  /\ Calls["erase"] = "remove" /\ Operand["erase"] = RemoteFile
  /\ Calls["undo"] = "remove" /\ Calls["remove"] = "remove" /\ Calls["rename"] = "rename"
  /\ Calls["touch"] = "setstat" /\ Calls["idle"] = "realpath"
  /\ Operand["check"] = "dest" /\ Operand["discard"] = "partial" /\ Operand["open"] = RemoteFile
  /\ Operand["undo"] = RemoteFile /\ Operand["remove"] = "dest" /\ Operand["rename"] = "partial"
  /\ Operand["touch"] = "dest" /\ Operand["idle"] = "dest"
  BY DEF Calls, Operand

\* The file that is written is chosen once.
LEMMA RemoteFileFacts ==
  /\ RemoteFile \in Files
  /\ DoResume => RemoteFile = "partial"
  /\ UNCHANGED choiceVars => RemoteFile' = RemoteFile
  BY FilesAssumption DEF RemoteFile, choiceVars

\* No blocking call writes or closes.
LEMMA CalledKind ==
  ASSUME NEW place \in DOMAIN Calls
  PROVE  /\ Calls[place] \in Kinds /\ Calls[place] \notin {"write", "close"}
         /\ Operand[place] \in Files
         /\ Calls[place] = "open" => place = "open"
  <1>1. /\ Calls[place] \in Kinds /\ Calls[place] \notin {"write", "close"}
        /\ Calls[place] = "open" => place = "open"
    BY CallFacts, KindsAssumption
  <1>2. Operand[place] \in Files
    BY CallFacts, RemoteFileFacts, FilesAssumption
  <1>3. QED
    BY <1>1, <1>2

\* The contents of a file that exists: blocks, or the file before the upload.
LEMMA ContentsFacts ==
  /\ NoFile # Old
  /\ \A s \in SUBSET Blocks : s # NoFile /\ s # Old /\ s \in Contents
  /\ {NoFile, Old} \subseteq Contents
  /\ \A c \in Contents : c \notin {NoFile, Old} => c \in SUBSET Blocks
  BY ContentsAssumption DEF Blocks, Contents

\* The first n blocks, and the size of a file that has them.
LEMMA FirstBlocks ==
  ASSUME NEW n \in Nat
  PROVE  IsFiniteSet(1..n) /\ Cardinality(1..n) = n
  BY FS_Interval

\* A file of blocks has at most the size of the local one, and the beginning of
\* the local file has as many blocks as it says.
LEMMA SizeFacts ==
  ASSUME NEW s \in SUBSET Blocks
  PROVE  /\ Length(s) \in 0..N
         /\ \A n \in 0..N : Length(1..n) = n
  <1>1. N \in Nat
    BY BoundAssumption
  <1>2. IsFiniteSet(Blocks) /\ Cardinality(Blocks) = N
    BY <1>1, FirstBlocks DEF Blocks
  <1>3. ASSUME NEW t \in SUBSET Blocks
        PROVE  /\ Length(t) = Cardinality({k \in Blocks : \E m \in t : k <= m})
               /\ Length(t) \in 0..N
    <2> DEFINE u == {k \in Blocks : \E m \in t : k <= m}
    <2>1. Length(t) = Cardinality(u)
      BY ContentsFacts DEF Length
    <2>2. u \subseteq Blocks
      OBVIOUS
    <2> HIDE DEF u
    <2>3. IsFiniteSet(u) /\ Cardinality(u) <= Cardinality(Blocks)
      BY <1>2, <2>2, FS_Subset
    <2>4. Cardinality(u) \in Nat
      BY <2>3, FS_CardinalityType
    <2>5. QED
      BY <1>1, <1>2, <2>1, <2>3, <2>4 DEF u
  <1>4. ASSUME NEW n \in 0..N PROVE Length(1..n) = n
    <2>1. 1..n \in SUBSET Blocks /\ n \in Nat
      BY <1>1 DEF Blocks
    <2>2. {k \in Blocks : \E m \in 1..n : k <= m} = 1..n
      BY <1>1, <2>1 DEF Blocks
    <2>3. Length(1..n) = Cardinality(1..n)
      BY <1>3, <2>1, <2>2
    <2>4. QED
      BY <2>1, <2>3, FirstBlocks
  <1>5. QED
    BY <1>3, <1>4

\* The offset to resume from is within the file.
LEMMA ResumeOffsetFacts ==
  ASSUME UploadTypeOK, files["partial"] # Old
  PROVE  ResumeOffset \in 0..N
  <1>1. files["partial"] \in Contents /\ N \in Nat
    BY BoundAssumption, FilesAssumption DEF UploadTypeOK
  <1>2. CASE files["partial"] = NoFile
    BY <1>1, <1>2 DEF ResumeOffset, Length
  <1>3. CASE files["partial"] \in SUBSET Blocks
    BY <1>3, SizeFacts DEF ResumeOffset
  <1>4. QED
    BY <1>1, <1>2, <1>3, ContentsFacts

----------------------------------------------------------------------------
(* What a step does to the requests and to the server                      *)

\* Nothing is sent and the server does nothing ...
Quiet == UNCHANGED <<FMessageCounter, outgoing, serverVars>>

\* ... or one request is sent, a block only in its turn, and one that displaces
\* the file only after the close ...
Sends ==
  /\ UNCHANGED serverVars
  /\ \E kind \in Kinds, file \in Files, block \in Nat :
       /\ SendPacket(kind, file, block)
       /\ kind = "open" => pc = "open"
       /\ kind \in {"remove", "rename"} => ~handle \/ pc \in {"undo", "remove", "rename"}
       /\ kind = "write" => pc = "continue" /\ FTransfered < N /\ file = RemoteFile /\ block = FTransfered + 1

\* ... or the connection is lost or opened again, or the server serves.
Cut ==
  /\ FMessageCounter' \in {0, FMessageCounter}
  /\ outgoing' = <<>> /\ incoming' = {} /\ handle' = FALSE
  /\ UNCHANGED <<files, holed, refusals>>

Shape == UNCHANGED choiceVars /\ (Quiet \/ Sends \/ Cut \/ Serve)

\* Every step is one of these.
LEMMA StepShape ==
  ASSUME UploadTypeOK, EarlyInv, Next
  PROVE  Shape
  <1> USE DEF Shape
  <1>1. ASSUME SendCall PROVE Shape
    <2>1. pc \in DOMAIN Calls /\ call = NULL /\ SendPacket(Calls[pc], Operand[pc], 0) /\ UNCHANGED serverVars
      BY <1>1 DEF SendCall
    <2>2. /\ Calls[pc] \in Kinds /\ Calls[pc] # "write" /\ Operand[pc] \in Files
          /\ Calls[pc] = "open" => pc = "open"
      BY <2>1, CalledKind
    <2>3. Calls[pc] \in {"remove", "rename"} => ~handle \/ pc \in {"undo", "remove", "rename"}
      BY <2>1, CallFacts DEF EarlyInv, Early, NothingUnderWay
    <2>4. QED
      BY <1>1, <2>1, <2>2, <2>3 DEF SendCall, Sends
  <1>2. ASSUME Continue PROVE Shape
    <2>1. FTransfered + 1 \in Nat /\ RemoteFile \in Files /\ "write" \in Kinds
      BY RemoteFileFacts, KindsAssumption, BoundAssumption DEF UploadTypeOK
    <2>2. QED
      BY <1>2, <2>1 DEF Continue, Sends
  <1>3. ASSUME SendClose PROVE Shape
    BY <1>3, RemoteFileFacts, KindsAssumption DEF SendClose, Sends
  <1>4. ASSUME SendProperties PROVE Shape
    BY <1>4, KindsAssumption, FilesAssumption DEF SendProperties, Sends
  <1>5. ASSUME Disposed PROVE Shape
    <2>1. CASE RemoteFileHandle
      BY <1>5, <2>1, RemoteFileFacts, KindsAssumption DEF Disposed, Sends
    <2>2. CASE ~RemoteFileHandle
      BY <1>5, <2>2 DEF Disposed, Quiet
    <2>3. QED
      BY <2>1, <2>2
  <1>6. ASSUME Drop \/ WrongNumber PROVE Shape
    BY <1>6 DEF Drop, WrongNumber, Lost, Cut
  <1>7. ASSUME Reopen PROVE Shape
    BY <1>7 DEF Reopen, ResetConnection, EarlyInv, NothingUnderWay, Cut, serverVars
  <1>8. ASSUME Checked \/ Discarded \/ NotOpened \/ Erased \/ Undone \/ Removed \/ Renamed \/ Touched \/ KeptAlive
        PROVE  Shape
    BY <1>8 DEF Checked, Discarded, NotOpened, Erased, Undone, Removed, Renamed, Touched,
       KeptAlive,
       Returns, Quiet
  <1>9. ASSUME Closed \/ CloseRefused \/ PropertiesSet PROVE Shape
    BY <1>9 DEF Closed, CloseRefused, PropertiesSet, Receives, Quiet
  <1>10. ASSUME HandleWritten \/ HandleRefused \/ HandleThrows \/ DisposeResponse \/ Opened \/ Stores
         PROVE  Shape
    BY <1>10 DEF HandleWritten, HandleRefused, HandleThrows, Handles, DisposeResponse, Opened,
       Stores,
       StoreReserved, Quiet
  <1>11. ASSUME \/ Declined \/ Written \/ CloseSent \/ PropertiesSent \/ Interrupted \/ Leave
                \/ Unwind \/ Unwound \/ GiveUp
         PROVE  Shape
    BY <1>11 DEF Declined, Written, CloseSent, PropertiesSent, Interrupted, Leave, Unwind,
       Unwound, GiveUp,
       Quiet, packetVars
  <1>12. ASSUME Serve PROVE Shape
    BY <1>12 DEF Serve
  <1>13. QED
    BY <1>1, <1>2, <1>3, <1>4, <1>5, <1>6, <1>7, <1>8, <1>9, <1>10, <1>11, <1>12 DEF Next,
       Transfer

----------------------------------------------------------------------------
(* Every step keeps the types                                              *)

IInv == RequestsOK /\ ResponsesOK /\ UploadTypeOK /\ UploadInvariant

\* A number that is given out is one.
LEMMA CallTypes ==
  ASSUME RequestsOK
  PROVE  NextNumber \in Nat /\ NextNumber # NULL
  BY DEF RequestsOK, NextNumber, NULL

\* The sending half of the packets.
LEMMA RequestsStep ==
  ASSUME RequestsOK, Shape
  PROVE  RequestsOK'
  <1>1. ASSUME Quiet PROVE RequestsOK'
    BY <1>1 DEF Quiet, RequestsOK
  <1>2. ASSUME Sends PROVE RequestsOK'
    <2>1. PICK kind \in Kinds : \E file \in Files, block \in Nat : SendPacket(kind, file, block)
      BY <1>2 DEF Sends
    <2>2. QED
      BY <2>1, SendKeeps
  <1>3. ASSUME Cut PROVE RequestsOK'
    BY <1>3 DEF Cut, RequestsOK
  <1>4. ASSUME Serve PROVE RequestsOK'
    BY <1>4 DEF Serve, RequestsOK
  <1>5. QED
    BY <1>1, <1>2, <1>3, <1>4 DEF Shape

\* The receiving half.
LEMMA ResponsesStep ==
  ASSUME RequestsOK, ResponsesOK, UploadTypeOK, EarlyInv, Next
  PROVE  ResponsesOK'
  <1>0. ASSUME UNCHANGED <<incoming, reservationVars, stored>> PROVE ResponsesOK'
    BY <1>0 DEF ResponsesOK, StoredInOwnPacket, reservationVars, IsReserved, Contains, Positions
  <1>1. ASSUME Continue PROVE ResponsesOK'
    BY <1>1, ReserveKeeps, CallTypes DEF Continue
  <1>2. ASSUME CloseSent \/ PropertiesSent PROVE ResponsesOK'
    <2>1. CloseRequest \in Nat /\ PropertiesRequest \in Nat
      BY DEF UploadTypeOK
    <2>2. QED
      BY <1>2, <2>1, ReserveKeeps DEF CloseSent, PropertiesSent
  <1>3. ASSUME Disposed PROVE ResponsesOK'
    <2>1. CASE RemoteFileHandle
      BY <1>3, <2>1, ReserveKeeps, CallTypes DEF Disposed
    <2>2. CASE ~RemoteFileHandle
      BY <1>0, <1>3, <2>2 DEF Disposed
    <2>3. QED
      BY <2>1, <2>2
  <1>4. ASSUME Checked \/ Discarded \/ NotOpened \/ Erased \/ Undone \/ Removed \/ Renamed \/ Touched \/ KeptAlive
        PROVE  ResponsesOK'
    <2>1. \E packet, p : Accept(packet, p)
      BY <1>4 DEF Checked, Discarded, NotOpened, Erased, Undone, Removed, Renamed, Touched,
         KeptAlive,
         Returns
    <2>2. QED
      BY <2>1, AcceptKeeps
  <1>5. ASSUME Closed \/ CloseRefused \/ PropertiesSet PROVE ResponsesOK'
    <2>1. \E packet, p : Accept(packet, p)
      BY <1>5 DEF Closed, CloseRefused, PropertiesSet, Receives
    <2>2. QED
      BY <2>1, AcceptKeeps
  <1>6. ASSUME HandleWritten \/ HandleRefused \/ DisposeResponse \/ Opened PROVE ResponsesOK'
    <2>1. \E packet, p : Accept(packet, p)
      BY <1>6 DEF HandleWritten, HandleRefused, SendPacketThrows, Handles, DisposeResponse, Opened
    <2>2. QED
      BY <2>1, AcceptKeeps
  <1>7. ASSUME Stores PROVE ResponsesOK'
    BY <1>7, StoreKeeps DEF Stores
  <1>8. ASSUME Leave \/ Unwind \/ HandleThrows PROVE ResponsesOK'
    <2>1. CASE \E packet : UnreserveResponse(packet) /\ UNCHANGED incoming
      BY <2>1, UnreserveKeeps
    <2>2. CASE UNCHANGED <<incoming, reservationVars, stored>>
      BY <1>0, <2>2
    <2>3. QED
      BY <1>8, <2>1, <2>2 DEF Leave, Unwind, HandleThrows
  <1>9. ASSUME Reopen PROVE ResponsesOK'
    BY <1>9, ResetKeeps DEF Reopen
  <1>10. ASSUME Drop \/ WrongNumber PROVE ResponsesOK'
    <2>1. incoming' = {} /\ UNCHANGED <<reservationVars, stored>>
      BY <1>10 DEF Drop, WrongNumber, Lost
    <2>2. QED
      BY <2>1 DEF ResponsesOK, StoredInOwnPacket, reservationVars, IsReserved, Contains, Positions
  <1>11. ASSUME Serve PROVE ResponsesOK'
    <2> DEFINE q == Head(outgoing)
    <2>1. q \in Request
      BY <1>11 DEF Serve, RequestsOK
    <2>2. \A ok \in BOOLEAN : [number |-> q.number, kind |-> q.kind, ok |-> ok] \in Response
      BY <2>1 DEF Request, Response
    <2>3. \E ok \in BOOLEAN :
            incoming' = incoming \union {[number |-> q.number, kind |-> q.kind, ok |-> ok]}
      BY <1>11 DEF Serve
    <2> HIDE DEF q
    <2>4. (incoming \subseteq Response) => (incoming' \subseteq Response)
      BY <2>2, <2>3
    <2>5. UNCHANGED <<FPacketReservations, FPacketNumbers, stored>>
      BY <1>11 DEF Serve
    <2>6. QED
      BY <2>4, <2>5 DEF ResponsesOK, StoredInOwnPacket, IsReserved, Contains, Positions
  <1>12. ASSUME \/ SendCall \/ SendClose \/ SendProperties \/ Declined \/ Written \/ Interrupted
                \/ Unwound \/ GiveUp
         PROVE  ResponsesOK'
    <2>1. UNCHANGED <<incoming, reservationVars, stored>>
      BY <1>12 DEF SendCall, SendClose, SendProperties, Declined, Written, Interrupted, Unwound,
         GiveUp,
         packetVars, reservationVars
    <2>2. QED
      BY <1>0, <2>1
  <1>13. QED
    BY <1>1, <1>2, <1>3, <1>4, <1>5, <1>6, <1>7, <1>8, <1>9, <1>10, <1>11, <1>12 DEF Next,
       Transfer

----------------------------------------------------------------------------
(* What the server does with the oldest request                            *)

Oldest == outgoing[1]
Refuses ==
  /\ handle' = (handle /\ Oldest.kind # "close")
  /\ holed' = (holed \/ Oldest.kind = "write") /\ UNCHANGED files
Opens ==
  /\ Oldest.kind = "open" /\ handle' = TRUE
  /\ files' = [files EXCEPT ![Oldest.file] = IF ResumeTransfer /\ @ # NoFile THEN @ ELSE {}]
Writes ==
  /\ Oldest.kind = "write" /\ handle /\ handle' = TRUE
  /\ files' = [files EXCEPT ![Oldest.file] = @ \union {Oldest.block}]
ClosesIt == Oldest.kind = "close" /\ handle' = FALSE /\ UNCHANGED files
Removes ==
  /\ Oldest.kind = "remove" /\ handle' = handle
  /\ files' = [files EXCEPT ![Oldest.file] = NoFile]
Renames ==
  /\ Oldest.kind = "rename" /\ handle' = handle
  /\ files' = [dest |-> files["partial"], partial |-> NoFile]
Answers ==
  Oldest.kind \in {"stat", "setstat", "realpath"} /\ handle' = handle /\ UNCHANGED files

\* The server answers the oldest request in one of these ways.
LEMMA ServeFacts ==
  ASSUME RequestsOK, UploadTypeOK, Serve
  PROVE  /\ Oldest \in Request
         /\ Len(outgoing) \in Nat \ {0} /\ Len(outgoing)' = Len(outgoing) - 1
         /\ \A k \in 1..(Len(outgoing) - 1) : outgoing'[k] = outgoing[k + 1]
         /\ \/ Refuses
            \/ /\ Opens \/ Writes \/ ClosesIt \/ Removes \/ Renames \/ Answers
               /\ holed' = (holed \/ (pc = "erase" /\ ResumeTransfer)) /\ UNCHANGED refusals
         /\ UNCHANGED <<choiceVars, attemptVars, requestVars, flowVars, pc, FTransfered, FRequests, call, drops>>
         /\ refusals' \in 0..MaxRefusals
  <1>1. outgoing # <<>> /\ outgoing \in Seq(Request) /\ outgoing' = Tail(outgoing)
    BY DEF Serve, RequestsOK
  <1>2. Head(outgoing) = Oldest /\ Oldest \in Request
    BY <1>1, TailFacts DEF Oldest
  <1>3. Oldest.kind \in {"stat", "open", "write", "close", "remove", "rename", "setstat", "realpath"}
    BY <1>2, KindsAssumption DEF Request
  <1>4. \/ /\ Executable(Oldest) /\ files' = Executed(Oldest)
           /\ handle' = (Oldest.kind = "open" \/ (handle /\ Oldest.kind # "close"))
           /\ holed' = (holed \/ (pc = "erase" /\ ResumeTransfer)) /\ UNCHANGED refusals
        \/ /\ Refuses /\ refusals' \in 0..MaxRefusals
    <2>1. refusals \in 0..MaxRefusals /\ MaxRefusals \in Nat
      BY BoundAssumption DEF UploadTypeOK
    <2>2. CASE /\ Executable(Oldest) /\ files' = Executed(Oldest)
               /\ handle' = (Oldest.kind = "open" \/ (handle /\ Oldest.kind # "close"))
               /\ holed' = (holed \/ (pc = "erase" /\ ResumeTransfer)) /\ UNCHANGED refusals
      BY <2>2
    <2>3. CASE /\ ~Executable(Oldest) \/ (Oldest.kind \in Refusable /\ refusals < MaxRefusals)
               /\ refusals' = IF Executable(Oldest) THEN refusals + 1 ELSE refusals
               /\ Refuses
      <3>1. refusals' \in 0..MaxRefusals
        BY <2>1, <2>3
      <3>2. QED
        BY <2>3, <3>1
    <2>4. QED
      BY <1>2, <2>2, <2>3 DEF Serve, Refuses
  <1>5. ASSUME Executable(Oldest), files' = Executed(Oldest),
               handle' = (Oldest.kind = "open" \/ (handle /\ Oldest.kind # "close"))
        PROVE  Opens \/ Writes \/ ClosesIt \/ Removes \/ Renames \/ Answers
    <2>1. handle \in BOOLEAN
      BY DEF UploadTypeOK
    <2>2. CASE Oldest.kind = "open"
      BY <1>5, <2>2 DEF Executed, Opens
    <2>3. CASE Oldest.kind = "write"
      BY <1>5, <2>3 DEF Executed, Executable, Writes
    <2>4. CASE Oldest.kind = "close"
      BY <1>5, <2>4 DEF Executed, ClosesIt
    <2>5. CASE Oldest.kind = "remove"
      BY <1>5, <2>1, <2>5 DEF Executed, Removes
    <2>6. CASE Oldest.kind = "rename"
      BY <1>5, <2>1, <2>6 DEF Executed, Renames
    <2>7. CASE Oldest.kind \in {"stat", "setstat", "realpath"}
      BY <1>5, <2>1, <2>7 DEF Executed, Answers
    <2>8. QED
      BY <1>3, <2>2, <2>3, <2>4, <2>5, <2>6, <2>7
  <1>6. /\ Len(outgoing) \in Nat \ {0} /\ Len(outgoing)' = Len(outgoing) - 1
        /\ \A k \in 1..(Len(outgoing) - 1) : outgoing'[k] = outgoing[k + 1]
    BY <1>1, TailFacts
  <1>7. UNCHANGED <<choiceVars, attemptVars, requestVars, flowVars, pc, FTransfered, FRequests, call, drops>>
    BY DEF Serve
  <1>8. refusals' \in 0..MaxRefusals
    BY <1>4 DEF UploadTypeOK
  <1>9. QED
    BY <1>2, <1>4, <1>5, <1>6, <1>7, <1>8

----------------------------------------------------------------------------
(* The types of the upload and of the server                               *)

ServerTypes ==
  /\ files \in [Files -> Contents] /\ refusals \in 0..MaxRefusals
  /\ handle \in BOOLEAN /\ holed \in BOOLEAN

\* The server's part of the types.
LEMMA ServerTypesFacts == UploadTypeOK => ServerTypes
  BY DEF UploadTypeOK, ServerTypes

\* A block written is a block of the file, and goes to a file of blocks.
LEMMA WriteFacts ==
  ASSUME RequestsOK, UploadTypeOK, FileInv, Serve, Writes
  PROVE  /\ Oldest.file = RemoteFile /\ Oldest.block \in Blocks
         /\ files[RemoteFile] \in SUBSET Blocks
         /\ files[RemoteFile] \union {Oldest.block} \in SUBSET Blocks
         /\ files' = [files EXCEPT ![RemoteFile] = files[RemoteFile] \union {Oldest.block}]
  <1>1. 1 \in Positions(outgoing)
    BY ServeFacts DEF Positions
  <1>2. Oldest.file = RemoteFile /\ Oldest.block \in Blocks /\ files[RemoteFile] \in SUBSET Blocks
    BY <1>1 DEF FileInv, Oldest, Writes
  <1>3. QED
    BY <1>2 DEF Writes

\* The server keeps to files of blocks.
LEMMA ServerTypesStep ==
  ASSUME RequestsOK, UploadTypeOK, FileInv, Shape
  PROVE  ServerTypes'
  <1>1. ServerTypes
    BY ServerTypesFacts
  <1>2. CASE Quiet \/ Sends
    BY <1>1, <1>2 DEF Quiet, Sends, serverVars, ServerTypes
  <1>3. CASE Cut
    BY <1>1, <1>3 DEF Cut, ServerTypes
  <1>4. ASSUME Serve PROVE ServerTypes'
    <2>1. refusals' \in 0..MaxRefusals
      BY <1>4, ServeFacts
    <2>2. handle' \in BOOLEAN /\ holed' \in BOOLEAN
      BY <1>1, <1>4, ServeFacts
      DEF ServerTypes, Refuses, Opens, Writes, ClosesIt, Removes, Renames, Answers
    <2>3. files' \in [Files -> Contents]
      <3>1. /\ {} \in Contents /\ NoFile \in Contents /\ files \in [Files -> Contents]
            /\ files["partial"] \in Contents
        BY <1>1, ContentsFacts, FilesAssumption DEF ServerTypes
      <3>2. CASE Refuses \/ ClosesIt \/ Answers
        BY <3>1, <3>2 DEF Refuses, ClosesIt, Answers
      <3>3. CASE Opens
        BY <3>1, <3>3 DEF Opens
      <3>4. CASE Writes
        <4>1. files[RemoteFile] \union {Oldest.block} \in Contents
          BY <1>4, <3>4, WriteFacts, ContentsFacts
        <4>2. QED
          BY <1>4, <3>1, <3>4, <4>1, WriteFacts
      <3>5. CASE Removes
        BY <3>1, <3>5 DEF Removes
      <3>6. CASE Renames
        BY <3>1, <3>6, FilesAssumption DEF Renames
      <3>7. QED
        BY <1>4, <3>2, <3>3, <3>4, <3>5, <3>6, ServeFacts
    <2>4. QED
      BY <2>1, <2>2, <2>3 DEF ServerTypes
  <1>5. QED
    BY <1>2, <1>3, <1>4 DEF Shape

FlowTypes ==
  /\ {cpNoConfirmation, DestFileExists, ResumeTransfer} \subseteq BOOLEAN
  /\ {RemoteFileHandle, TransferFinished, error, overtaken, orphaned} \subseteq BOOLEAN
  /\ pc \in Places /\ FTransfered \in 0..N
  /\ FRequests \in Seq(Nat) /\ {call, CloseRequest, PropertiesRequest} \subseteq Nat
  /\ result \in {"none", "done", "failed"} /\ drops \in 0..MaxDrops

\* Every place a step goes to is one.
LEMMA PlacesFacts ==
  /\ Places = {"continue", "writing", "closing", "set", "setting", "dispose", "close",
       "properties", "leave", "unwind", "lost", "over", "check", "discard", "open", "erase", "undo",
       "remove", "rename", "touch", "idle"}
  /\ {FirstStep, AfterClose, AfterDispose, AfterTransfer, Resend} \subseteq Places
  BY CallFacts
  DEF Places, FirstStep, AfterClose, AfterDispose, AfterTransfer, Finish, Resend

\* The thread that uploads keeps to its places and to the blocks of the file.
LEMMA FlowTypesStep ==
  ASSUME RequestsOK, UploadTypeOK, FileInv, Next
  PROVE  FlowTypes'
  <1>0. /\ FlowTypes /\ NextNumber \in Nat /\ N \in Nat /\ MaxDrops \in Nat /\ NULL \in Nat
        /\ Tail(FRequests) \in Seq(Nat) \/ FRequests = <<>>
    BY CallTypes, BoundAssumption, TailFacts DEF UploadTypeOK, FlowTypes, NULL
  <1> USE DEF FlowTypes
  <1>1. ASSUME SendCall \/ SendClose \/ SendProperties \/ Disposed PROVE FlowTypes'
    BY <1>0, <1>1, PlacesFacts
    DEF SendCall, SendClose, SendProperties, Disposed, attemptVars, requestVars, flowVars
  <1>2. ASSUME Continue PROVE FlowTypes'
    <2>1. FTransfered' \in 0..N /\ FRequests' \in Seq(Nat)
      BY <1>0, <1>2 DEF Continue
    <2>2. QED
      BY <1>0, <1>2, <2>1, PlacesFacts DEF Continue, attemptVars, requestVars, flowVars
  <1>3. ASSUME Checked PROVE FlowTypes'
    <2>1. ResumeOffset \in 0..N
      BY ResumeOffsetFacts DEF FileInv
    <2>2. FTransfered' \in 0..N /\ ResumeTransfer' \in BOOLEAN /\ DestFileExists' \in BOOLEAN
      BY <1>0, <1>3, <2>1 DEF Checked, Fails
    <2>3. QED
      BY <1>0, <1>3, <2>2, PlacesFacts DEF Checked, Fails, Returns, requestVars
  <1>4. ASSUME Discarded \/ NotOpened \/ Erased \/ Undone \/ Removed \/ Renamed \/ Touched \/ KeptAlive
        PROVE  FlowTypes'
    <2>1. /\ call' = NULL
          /\ UNCHANGED <<cpNoConfirmation, DestFileExists, ResumeTransfer, requestVars, FTransfered, FRequests, result, drops>>
      BY <1>4 DEF Discarded, NotOpened, Erased, Undone, Removed, Renamed, Touched, KeptAlive,
         Returns,
         RetriesOrFails, Goes, Fails
    <2>2. pc' \in Places /\ error' \in BOOLEAN
      BY <1>0, <1>4, PlacesFacts DEF Discarded, NotOpened, Erased, Undone, Removed, Renamed,
         Touched,
         KeptAlive, RetriesOrFails, Goes, Fails
    <2>3. QED
      BY <1>0, <2>1, <2>2 DEF requestVars
  <1>5. ASSUME Closed \/ CloseRefused \/ PropertiesSet PROVE FlowTypes'
    <2>1. UNCHANGED <<cpNoConfirmation, DestFileExists, ResumeTransfer, requestVars, FTransfered, FRequests, result, call, drops>>
      BY <1>5 DEF Closed, CloseRefused, PropertiesSet, Receives, RetriesOrFails, Goes, Fails
    <2>2. pc' \in Places /\ error' \in BOOLEAN
      BY <1>0, <1>5, PlacesFacts DEF Closed, CloseRefused, PropertiesSet, RetriesOrFails, Goes,
         Fails
    <2>3. QED
      BY <1>0, <2>1, <2>2 DEF requestVars
  <1>6. ASSUME HandleWritten \/ HandleRefused \/ HandleThrows \/ DisposeResponse PROVE FlowTypes'
    <2>1. FRequests' \in Seq(Nat)
      BY <1>0, <1>6 DEF HandleWritten, HandleRefused, HandleThrows, Handles, DisposeResponse
    <2>2. /\ pc' \in Places
          /\ {error', RemoteFileHandle', overtaken', orphaned'} \subseteq BOOLEAN
      BY <1>0, <1>6, PlacesFacts
      DEF HandleWritten, HandleRefused, HandleThrows, SendPacketThrows, Handles, DisposeResponse,
         requestVars, flowVars
    <2>3. QED
      BY <1>0, <1>6, <2>1, <2>2
      DEF HandleWritten, HandleRefused, HandleThrows, Handles, DisposeResponse, attemptVars,
         requestVars, flowVars
  <1>7. ASSUME Opened \/ Declined PROVE FlowTypes'
    BY <1>0, <1>7, PlacesFacts DEF Opened, Declined, Fails, attemptVars, requestVars, flowVars
  <1>14. ASSUME Stores PROVE FlowTypes'
    <2>1. overtaken' \in BOOLEAN
      BY <1>14 DEF Stores
    <2>2. QED
      BY <1>0, <1>14, <2>1 DEF Stores, attemptVars, flowVars
  <1>8. ASSUME Written \/ CloseSent \/ PropertiesSent \/ Interrupted PROVE FlowTypes'
    BY <1>0, <1>8, PlacesFacts
    DEF Written, CloseSent, PropertiesSent, Interrupted, attemptVars, requestVars, flowVars
  <1>9. ASSUME Leave \/ Unwind \/ Unwound \/ GiveUp PROVE FlowTypes'
    BY <1>0, <1>9, PlacesFacts
    DEF Leave, Unwind, Unwound, GiveUp, attemptVars, requestVars, flowVars
  <1>10. ASSUME Reopen PROVE FlowTypes'
    <2>1. /\ pc' = FirstStep /\ FTransfered' = 0 /\ cpNoConfirmation' = TRUE
          /\ DestFileExists' = FALSE /\ ResumeTransfer' = FALSE
          /\ RemoteFileHandle' = FALSE /\ TransferFinished' = FALSE /\ error' = FALSE
          /\ orphaned' = FALSE
          /\ UNCHANGED <<FRequests, call, CloseRequest, PropertiesRequest, overtaken, result, drops>>
      BY <1>10 DEF Reopen
    <2>2. pc' \in Places /\ 0 \in 0..N
      BY <1>0, <2>1, PlacesFacts
    <2>3. QED
      BY <1>0, <2>1, <2>2
  <1>11. ASSUME Drop \/ WrongNumber PROVE FlowTypes'
    <2>1. drops' \in 0..MaxDrops
      BY <1>0, <1>11 DEF Drop, WrongNumber
    <2>2. QED
      <3>1. /\ FRequests' = <<>> /\ call' = NULL /\ CloseRequest' = NULL /\ PropertiesRequest' = NULL
            /\ pc' \in {"over", "unwind"}
            /\ overtaken' = FALSE
            /\ UNCHANGED <<attemptVars, RemoteFileHandle, TransferFinished, orphaned, flowVars, FTransfered>>
        BY <1>11 DEF Drop, WrongNumber, Lost
      <3>2. pc' \in Places /\ FRequests' \in Seq(Nat)
        BY <3>1, PlacesFacts
      <3>3. QED
        BY <1>0, <2>1, <3>1, <3>2 DEF attemptVars, flowVars
  <1>12. ASSUME Serve PROVE FlowTypes'
    BY <1>0, <1>12 DEF Serve, attemptVars, requestVars, flowVars
  <1>13. QED
    BY <1>1, <1>2, <1>3, <1>4, <1>5, <1>6, <1>7, <1>8, <1>9, <1>10, <1>11, <1>12, <1>14 DEF Next,
       Transfer

\* Both together.
LEMMA UploadTypeStep ==
  ASSUME RequestsOK, UploadTypeOK, FileInv, Shape, Next
  PROVE  UploadTypeOK'
  <1>1. {DoResume, Preserve}' \subseteq BOOLEAN /\ before' \in {NoFile, Old}
    BY DEF Shape, choiceVars, UploadTypeOK
  <1>2. QED
    BY <1>1, ServerTypesStep, FlowTypesStep DEF UploadTypeOK, ServerTypes, FlowTypes

----------------------------------------------------------------------------
(* Until the file is open                                                  *)

\* Any place after the file is open.
Late == pc \notin {"check", "discard", "open", "erase", "unwind", "lost"}

\* The request sent is the last one under way.
LEMMA SendFacts ==
  ASSUME RequestsOK, NEW kind \in Kinds, NEW file \in Files, NEW block \in Nat,
         SendPacket(kind, file, block)
  PROVE  /\ Len(outgoing) \in Nat /\ Len(outgoing') = Len(outgoing) + 1
         /\ \A k \in 1..Len(outgoing) : outgoing'[k] = outgoing[k]
         /\ outgoing'[Len(outgoing) + 1].number = NextNumber
         /\ outgoing'[Len(outgoing) + 1].kind = kind
         /\ outgoing'[Len(outgoing) + 1].file = file
         /\ outgoing'[Len(outgoing) + 1].block = block
  <1> DEFINE q == [number |-> NextNumber, kind |-> kind, file |-> file, block |-> block]
  <1>1. q \in Request
    BY CallTypes DEF Request
  <1>2. outgoing' = Append(outgoing, q) /\ outgoing \in Seq(Request)
    BY DEF SendPacket, RequestsOK
  <1> HIDE DEF q
  <1>3. /\ Len(outgoing) \in Nat /\ Len(outgoing') = Len(outgoing) + 1
        /\ \A k \in 1..Len(outgoing) : outgoing'[k] = outgoing[k]
        /\ outgoing'[Len(outgoing) + 1] = q
    BY <1>1, <1>2, AppendFacts
  <1>4. QED
    BY <1>3 DEF q

\* The same of any step that sends.
LEMMA SendsFacts ==
  ASSUME RequestsOK, Sends
  PROVE  /\ Len(outgoing) \in Nat /\ Len(outgoing') = Len(outgoing) + 1
         /\ \A k \in 1..Len(outgoing) : outgoing'[k] = outgoing[k]
         /\ outgoing'[Len(outgoing) + 1].kind = "open" => pc = "open"
         /\ outgoing'[Len(outgoing) + 1].kind \in {"remove", "rename"} =>
              ~handle \/ pc \in {"undo", "remove", "rename"}
         /\ outgoing'[Len(outgoing) + 1].kind = "write" =>
              /\ pc = "continue" /\ FTransfered < N
              /\ outgoing'[Len(outgoing) + 1].file = RemoteFile
              /\ outgoing'[Len(outgoing) + 1].block = FTransfered + 1
  <1> DEFINE InTurn(kind, file, block) ==
        /\ SendPacket(kind, file, block)
        /\ kind = "open" => pc = "open"
        /\ kind \in {"remove", "rename"} => ~handle \/ pc \in {"undo", "remove", "rename"}
        /\ kind = "write" => /\ pc = "continue" /\ FTransfered < N
                             /\ file = RemoteFile /\ block = FTransfered + 1
  <1>1. PICK kind \in Kinds : \E file \in Files, block \in Nat : InTurn(kind, file, block)
    BY DEF Sends
  <1>2. PICK file \in Files : \E block \in Nat : InTurn(kind, file, block)
    BY <1>1
  <1>3. PICK block \in Nat : InTurn(kind, file, block)
    BY <1>2
  <1>4. QED
    BY <1>3, SendFacts

\* Only from the place where the file is opened is it asked to be opened.
LEMMA NoOpens ==
  ASSUME RequestsOK, UploadTypeOK, EarlyInv, Shape, pc # "open"
  PROVE  \A k \in 1..Len(outgoing') : outgoing'[k].kind # "open"
  <1>1. \A k \in 1..Len(outgoing) : outgoing[k].kind # "open"
    BY DEF EarlyInv, Positions
  <1>2. CASE Quiet
    BY <1>1, <1>2 DEF Quiet
  <1>3. CASE Sends
    BY <1>1, <1>3, SendsFacts
  <1>4. CASE Cut
    BY <1>4 DEF Cut
  <1>5. CASE Serve
    BY <1>1, <1>5, ServeFacts
  <1>6. QED
    BY <1>2, <1>3, <1>4, <1>5 DEF Shape

\* Once the file is open, the invariant of the opening is left alone.
LEMMA LateStep ==
  ASSUME RequestsOK, UploadTypeOK, EarlyInv, Shape, Late, Late'
  PROVE  EarlyInv'
  BY NoOpens DEF EarlyInv, Late, Early, Positions

\* The one response that can be received before the file is open.
LEMMA EarlyReceipt ==
  ASSUME EarlyInv, Early, call # NULL, NEW p \in Acceptable(call), Accept(call, p)
  PROVE  /\ outgoing = <<>> /\ incoming' = {}
         /\ UNCHANGED <<FPacketReservations, FPacketNumbers, stored>>
         /\ handle = (pc = "open" /\ p.ok)
         /\ p.ok \in BOOLEAN /\ Verdict(call, p) = IF p.ok THEN "ok" ELSE "refused"
  <1>1. /\ p \in incoming /\ incoming' = incoming \ {p}
        /\ UNCHANGED <<FPacketReservations, FPacketNumbers, stored>>
    BY UnreservedReceives DEF EarlyInv
  <1>2. PICK ok \in BOOLEAN : ResponseUnderWay(ok)
    BY <1>1 DEF EarlyInv, RequestUnderWay
  <1>3. p = [number |-> call, kind |-> Calls[pc], ok |-> ok]
    BY <1>1, <1>2 DEF ResponseUnderWay
  <1>4. incoming' = {}
    BY <1>1, <1>2 DEF ResponseUnderWay
  <1>5. p.ok = ok /\ p.number = call
    BY <1>3
  <1>6. QED
    BY <1>1, <1>2, <1>4, <1>5 DEF ResponseUnderWay, Verdict

\* The steps after the opening, and where they lead.
LateAction ==
  \/ Continue \/ Written \/ SendClose \/ CloseSent \/ SendProperties \/ PropertiesSent
  \/ HandleWritten \/ HandleRefused \/ HandleThrows \/ DisposeResponse \/ Disposed \/ Interrupted
  \/ Closed \/ CloseRefused \/ Undone \/ Removed \/ Renamed \/ Touched \/ PropertiesSet
  \/ Leave \/ KeptAlive

\* They lead to one another.
LEMMA LatePlaces ==
  ASSUME LateAction
  PROVE  Late /\ Late'
  <1> USE DEF Late
  <1>1. ASSUME \/ Continue \/ Written \/ SendClose \/ CloseSent \/ SendProperties \/ PropertiesSent
               \/ Interrupted \/ DisposeResponse \/ Disposed \/ Leave
        PROVE  Late /\ Late'
    BY <1>1 DEF Continue, Written, SendClose, CloseSent, SendProperties, PropertiesSent,
       Interrupted,
       DisposeResponse, Disposed, Leave, AfterClose, AfterDispose
  <1>2. ASSUME HandleWritten \/ HandleRefused \/ HandleThrows PROVE Late /\ Late'
    BY <1>2 DEF HandleWritten, HandleRefused, HandleThrows, SendPacketThrows, Handles, Sending,
       AfterClose
  <1>3. ASSUME Closed \/ CloseRefused \/ PropertiesSet PROVE Late /\ Late'
    BY <1>3 DEF Closed, CloseRefused, PropertiesSet, Receives, RetriesOrFails, Goes, Fails,
       AfterTransfer, Finish, Resend
  <1>4. ASSUME Undone \/ Removed \/ Renamed \/ Touched \/ KeptAlive PROVE Late /\ Late'
    BY <1>4 DEF Undone, Removed, Renamed, Touched, KeptAlive, Returns, RetriesOrFails, Goes, Fails
  <1>5. QED
    BY <1>1, <1>2, <1>3, <1>4 DEF LateAction

\* Every step keeps EarlyInv.
LEMMA EarlyStep ==
  ASSUME RequestsOK, ResponsesOK, UploadTypeOK, UploadInvariant, Shape, Next
  PROVE  EarlyInv'
  <1> USE DEF UploadInvariant
  <1>1. ASSUME LateAction PROVE  EarlyInv'
    BY <1>1, LatePlaces, LateStep
  <1>2. ASSUME SendCall PROVE EarlyInv'
    <2>1. CASE Late
      BY <1>2, <2>1, LateStep DEF SendCall, Late
    <2>2. CASE ~Late
      <3>1. Early /\ NothingUnderWay /\ FPacketReservations = <<>> /\ FPacketNumbers = <<>> /\ stored = {}
        BY <1>2, <2>2, CallFacts DEF SendCall, Late, Early, EarlyInv
      <3>2. /\ Len(outgoing') = 1 /\ outgoing'[1].number = NextNumber
            /\ outgoing'[1].kind = Calls[pc] /\ outgoing'[1].file = Operand[pc]
        <4>1. /\ pc \in DOMAIN Calls /\ SendPacket(Calls[pc], Operand[pc], 0)
              /\ Calls[pc] \in Kinds /\ Operand[pc] \in Files
          BY <1>2, CalledKind DEF SendCall
        <4>2. Len(outgoing) = 0
          BY <3>1 DEF NothingUnderWay
        <4>3. QED
          BY <4>1, <4>2, SendFacts
      <3>3. call' = NextNumber /\ UNCHANGED <<incoming, reservationVars, stored, handle, pc>>
        BY <1>2 DEF SendCall, serverVars
      <3>4. Operand' = Operand
        BY RemoteFileFacts DEF Operand, Shape
      <3>5. RequestUnderWay'
        BY <3>1, <3>2, <3>3, <3>4 DEF RequestUnderWay, NothingUnderWay
      <3>6. \A k \in 1..Len(outgoing') : outgoing'[k].kind = "open" => pc' = "open"
        BY <3>1, <3>2, <3>3, CallFacts DEF Early
      <3>7. QED
        BY <3>1, <3>3, <3>5, <3>6, CallTypes DEF EarlyInv, Early, Positions, reservationVars
    <2>3. QED
      BY <2>1, <2>2
  <1>3. ASSUME Checked \/ Discarded \/ NotOpened \/ Erased \/ Opened PROVE EarlyInv'
    <2>1. /\ Early /\ call # NULL /\ call' = NULL
          /\ UNCHANGED <<outgoing, handle>>
          /\ \E p \in Acceptable(call) :
               Accept(call, p) /\ (pc = "open" /\ pc' \in {"open", "erase"} => Verdict(call, p) = "refused")
      BY <1>3 DEF Checked, Discarded, NotOpened, Erased, Opened, Returns, Early, serverVars
    <2>2. PICK p \in Acceptable(call) :
            Accept(call, p) /\ (pc = "open" /\ pc' \in {"open", "erase"} => Verdict(call, p) = "refused")
      BY <2>1
    <2>3. /\ outgoing = <<>> /\ incoming' = {}
          /\ UNCHANGED <<FPacketReservations, FPacketNumbers, stored>>
          /\ handle = (pc = "open" /\ p.ok)
          /\ p.ok \in BOOLEAN /\ Verdict(call, p) = IF p.ok THEN "ok" ELSE "refused"
      BY <2>1, <2>2, EarlyReceipt
    <2>4. pc' = "continue" \/ pc' = "leave" \/ (Early' /\ ~handle)
      BY <1>3, <2>2, <2>3
      DEF Checked, Discarded, NotOpened, Erased, Opened, Returns, RetriesOrFails, Goes, Fails, Early
    <2>5. Early' => NothingUnderWay'
      BY <2>1, <2>3, <2>4 DEF NothingUnderWay, Early
    <2>6. QED
      BY <2>1, <2>3, <2>4, <2>5 DEF EarlyInv, Early, Positions
  <1>4. ASSUME Declined PROVE EarlyInv'
    <2>1. pc' = "leave" /\ outgoing = <<>> /\ UNCHANGED outgoing
      BY <1>4 DEF Declined, Fails, EarlyInv, Early, NothingUnderWay, packetVars
    <2>2. QED
      BY <2>1 DEF EarlyInv, Early, Positions
  <1>5. ASSUME Stores PROVE EarlyInv'
    <2>1. ~Early
      BY <1>5, UnreservedStoresNothing DEF Stores, EarlyInv
    <2>2. pc \notin {"unwind", "lost"}
      BY <1>5 DEF Stores, StoreReserved, Arriving, EarlyInv, NothingUnderWay
    <2>3. QED
      BY <1>5, <2>1, <2>2, LateStep DEF Stores, Late, Early
  <1>6. ASSUME Serve PROVE EarlyInv'
    <2>1. UNCHANGED <<pc, call, FPacketReservations, FPacketNumbers, stored>> /\ outgoing # <<>>
      BY <1>6 DEF Serve
    <2>2. CASE Late
      BY <2>1, <2>2, LateStep DEF Late
    <2>3. CASE Early
      <3>1. call # NULL /\ RequestUnderWay
        BY <2>1, <2>3 DEF EarlyInv, NothingUnderWay, ResponseUnderWay
      <3>2. /\ Oldest.number = call /\ Oldest.kind = Calls[pc] /\ Head(outgoing) = Oldest
        BY <1>6, <2>1, <3>1, TailFacts DEF Oldest, RequestUnderWay, RequestsOK
      <3>3. outgoing' = <<>>
        BY <1>6, <3>1, ServeFacts DEF RequestUnderWay, RequestsOK, Serve
      <3>4. PICK ok \in BOOLEAN :
              /\ incoming' = incoming \union {[number |-> Oldest.number, kind |-> Oldest.kind, ok |-> ok]}
              /\ handle' = IF ok THEN Oldest.kind = "open" \/ (handle /\ Oldest.kind # "close")
                                 ELSE handle /\ Oldest.kind # "close"
        BY <1>6, <3>2 DEF Serve
      <3>5. incoming = {} /\ ~handle /\ (Oldest.kind = "open" <=> pc = "open")
        BY <2>3, <3>1, <3>2, CallFacts DEF RequestUnderWay, Early
      <3>6. incoming' = {[number |-> call, kind |-> Calls[pc], ok |-> ok]}
        BY <3>2, <3>4, <3>5
      <3>7. handle' = (pc = "open" /\ ok)
        BY <3>4, <3>5
      <3>8. ResponseUnderWay(ok)'
        BY <2>1, <3>3, <3>6, <3>7 DEF ResponseUnderWay
      <3>9. QED
        BY <2>1, <2>3, <3>1, <3>3, <3>8 DEF EarlyInv, Early, Positions
    <2>4. QED
      BY <2>1, <2>2, <2>3 DEF Late, Early, EarlyInv, NothingUnderWay
  <1>7. ASSUME Drop \/ WrongNumber PROVE EarlyInv'
    <2>1. /\ pc' \in {"unwind", "over"} /\ call' = NULL
          /\ outgoing' = <<>> /\ incoming' = {} /\ handle' = FALSE
      BY <1>7 DEF Drop, WrongNumber, Lost
    <2>2. QED
      BY <2>1 DEF EarlyInv, Early, NothingUnderWay, Positions
  <1>8. ASSUME Unwind \/ Unwound \/ GiveUp PROVE EarlyInv'
    <2>1. /\ pc \in {"unwind", "lost"} /\ pc' \in {"unwind", "lost", "over"}
          /\ UNCHANGED <<outgoing, incoming, handle, call>>
      BY <1>8 DEF Unwind, Unwound, GiveUp, packetVars, serverVars
    <2>2. NothingUnderWay /\ call = NULL
      BY <2>1 DEF EarlyInv
    <2>3. QED
      BY <2>1, <2>2 DEF EarlyInv, Early, NothingUnderWay, Positions
  <1>9. ASSUME Reopen PROVE EarlyInv'
    <2>1. /\ pc' \in {"check", "open"} /\ outgoing' = <<>> /\ incoming' = {}
          /\ FPacketReservations' = <<>> /\ FPacketNumbers' = <<>> /\ stored' = {}
          /\ UNCHANGED <<handle, call>>
      BY <1>9 DEF Reopen, ResetConnection, FirstStep, serverVars
    <2>2. ~handle /\ call = NULL
      BY <1>9 DEF Reopen, EarlyInv, NothingUnderWay
    <2>3. QED
      BY <2>1, <2>2 DEF EarlyInv, Early, NothingUnderWay, Positions
  <1>10. QED
    BY <1>1, <1>2, <1>3, <1>4, <1>5, <1>6, <1>7, <1>8, <1>9 DEF Next, Transfer, LateAction

----------------------------------------------------------------------------
(* Resuming                                                                *)

\* The oldest request while the file is not open yet.
LEMMA EarlyRequest ==
  ASSUME RequestsOK, EarlyInv, Early, Serve
  PROVE  Oldest.kind = Calls[pc] /\ Oldest.file = Operand[pc] /\ ~handle
  <1>1. outgoing # <<>> /\ outgoing \in Seq(Request)
    BY DEF Serve, RequestsOK
  <1>2. RequestUnderWay
    BY <1>1 DEF EarlyInv, NothingUnderWay, ResponseUnderWay
  <1>3. QED
    BY <1>2 DEF RequestUnderWay, Oldest

\* Every step keeps ResumeInv.
LEMMA ResumeStep ==
  ASSUME RequestsOK, ResponsesOK, UploadTypeOK, UploadInvariant, Shape, Next
  PROVE  ResumeInv'
  <1> USE DEF UploadInvariant
  <1>0. ASSUME pc' \notin {"check", "discard", "open", "erase"} PROVE ResumeInv'
    BY <1>0 DEF ResumeInv
  <1>1. ASSUME LateAction PROVE  ResumeInv'
    BY <1>0, <1>1, LatePlaces DEF Late
  <1>2. ASSUME Opened \/ Declined \/ Drop \/ WrongNumber \/ Unwind \/ Unwound \/ GiveUp PROVE ResumeInv'
    <2>1. pc' \notin {"check", "discard", "open", "erase"}
      BY <1>2 DEF Opened, Declined, Fails, Drop, WrongNumber, Lost, Unwind, Unwound, GiveUp
    <2>2. QED
      BY <1>0, <2>1
  <1>3. ASSUME SendCall \/ Stores PROVE ResumeInv'
    <2>1. /\ UNCHANGED <<pc, FTransfered, ResumeTransfer, DoResume, files, holed, handle>>
          /\ RemoteFile' = RemoteFile
      BY <1>3, RemoteFileFacts DEF SendCall, Stores, Shape, choiceVars, attemptVars, serverVars
    <2>2. QED
      BY <2>1 DEF ResumeInv
  <1>4. ASSUME Checked PROVE ResumeInv'
    <2>1. /\ pc = "check" /\ call # NULL /\ \E p \in Acceptable(call) : Accept(call, p)
          /\ UNCHANGED <<files, holed, handle, DoResume>>
      BY <1>4 DEF Checked, Returns, serverVars, choiceVars
    <2>2. ~handle /\ DoResume /\ FTransfered = 0 /\ ResumeTransfer = FALSE
      BY <2>1, EarlyReceipt DEF Early, ResumeInv, UploadTypeOK
    <2>3. CASE ResumeTransfer' = FALSE /\ FTransfered' = 0 /\ pc' \in {"open", "discard", "leave"}
      BY <2>1, <2>2, <2>3 DEF ResumeInv
    <2>4. CASE /\ files["partial"] # NoFile /\ pc' = "open"
               /\ ResumeTransfer' = TRUE /\ FTransfered' = ResumeOffset
      <3>1. RemoteFile = "partial" /\ RemoteFile' = "partial"
        BY <2>1, <2>2, RemoteFileFacts DEF Shape
      <3>2. files["partial"] \notin {NoFile, Old} /\ "partial" \in DOMAIN files
        BY <2>4, FilesAssumption DEF FileInv, UploadTypeOK
      <3>3. ~holed => files["partial"] = 1..ResumeOffset
        <4>1. files["partial"] \in SUBSET Blocks
          BY <3>2, ContentsFacts DEF UploadTypeOK
        <4>2. Cardinality(files["partial"]) \in 0..N
          BY <4>1, FS_Subset, FirstBlocks, FS_CardinalityType, BoundAssumption DEF Blocks
        <4>3. ~holed => files["partial"] = 1..Cardinality(files["partial"])
          BY <3>2 DEF PartialIsPrefix
        <4>4. ~holed => ResumeOffset = Cardinality(files["partial"])
          BY <4>1, <4>2, <4>3, SizeFacts DEF ResumeOffset
        <4>5. QED
          BY <4>3, <4>4
      <3>4. QED
        BY <2>1, <2>2, <2>4, <3>1, <3>3 DEF ResumeInv
    <2>5. QED
      BY <1>4, <2>2, <2>3, <2>4 DEF Checked, Fails
  <1>5. ASSUME Discarded \/ NotOpened \/ Erased PROVE ResumeInv'
    <2>1. /\ pc \in {"discard", "open", "erase"} /\ call # NULL
          /\ UNCHANGED <<files, holed, handle, DoResume, FTransfered, ResumeTransfer>>
          /\ RemoteFile' = RemoteFile
          /\ pc' \in {"open", "leave"} \/ (pc # "discard" /\ pc' = "erase")
          /\ \E p \in Acceptable(call) :
               Accept(call, p) /\ (pc = "open" => Verdict(call, p) = "refused")
      BY <1>5, RemoteFileFacts
      DEF Discarded, NotOpened, Erased, Returns, RetriesOrFails, Goes, Fails, serverVars, choiceVars, Shape
    <2>2. PICK p \in Acceptable(call) :
            Accept(call, p) /\ (pc = "open" => Verdict(call, p) = "refused")
      BY <2>1
    <2>3. ~handle
      BY <2>1, <2>2, EarlyReceipt DEF Early
    <2>4. QED
      BY <2>1, <2>3 DEF ResumeInv
  <1>6. ASSUME Serve PROVE ResumeInv'
    <2>1. UNCHANGED <<pc, FTransfered, ResumeTransfer, DoResume>> /\ RemoteFile' = RemoteFile
      BY <1>6, RemoteFileFacts DEF Serve, attemptVars, choiceVars, Shape
    <2>2. CASE pc \notin {"open", "erase"}
      BY <2>1, <2>2 DEF ResumeInv
    <2>5. CASE pc = "erase"
      <3>1. Oldest.kind = "remove" /\ ~handle
        BY <1>6, <2>5, EarlyRequest, CallFacts DEF Early
      <3>2. CASE Refuses
        BY <2>1, <2>5, <3>1, <3>2, ServerTypesFacts DEF Refuses, ResumeInv, ServerTypes
      <3>3. CASE Removes /\ holed' = (holed \/ (pc = "erase" /\ ResumeTransfer))
        BY <2>1, <2>5, <3>1, <3>3, ServerTypesFacts DEF Removes, ResumeInv, ServerTypes
      <3>4. QED
        BY <1>6, <3>1, <3>2, <3>3, ServeFacts DEF Opens, Writes, ClosesIt, Renames, Answers
    <2>3. CASE pc = "open"
      <3>1. Oldest.kind = "open" /\ Oldest.file = RemoteFile /\ ~handle
        BY <1>6, <2>3, EarlyRequest, CallFacts DEF Early
      <3>2. CASE Refuses
        BY <2>1, <2>3, <3>1, <3>2, ServerTypesFacts DEF Refuses, ResumeInv, ServerTypes
      <3>3. CASE Opens /\ holed' = (holed \/ (pc = "erase" /\ ResumeTransfer))
        <4>0. holed' = holed
          BY <2>3, <3>3, ServerTypesFacts DEF ServerTypes
        <4>1. RemoteFile \in DOMAIN files /\ "partial" \in DOMAIN files
          BY RemoteFileFacts, FilesAssumption DEF UploadTypeOK
        <4>2. files'[RemoteFile] = IF ResumeTransfer /\ files[RemoteFile] # NoFile THEN files[RemoteFile] ELSE {}
          BY <3>1, <3>3, <4>1 DEF Opens
        <4>3. 1..0 = {}
          OBVIOUS
        <4>4. 1..FTransfered # NoFile
          BY ContentsFacts, BoundAssumption DEF Blocks, UploadTypeOK
        <4>5. QED
          BY <2>1, <2>3, <4>0, <4>2, <4>3, <4>4, <3>1, <3>3 DEF ResumeInv
      <3>4. QED
        BY <1>6, <3>1, <3>2, <3>3, ServeFacts DEF Writes, ClosesIt, Removes, Renames, Answers
    <2>4. QED
      BY <2>2, <2>3, <2>5
  <1>7. ASSUME Reopen PROVE ResumeInv'
    <2>1. /\ pc' = FirstStep /\ FTransfered' = 0 /\ ResumeTransfer' = FALSE
          /\ UNCHANGED <<DoResume, handle>> /\ ~handle
      BY <1>7 DEF Reopen, choiceVars, serverVars, EarlyInv, NothingUnderWay
    <2>2. QED
      BY <2>1 DEF ResumeInv, FirstStep
  <1>8. QED
    BY <1>1, <1>2, <1>3, <1>4, <1>5, <1>6, <1>7 DEF Next, Transfer, LateAction

----------------------------------------------------------------------------
(* The files                                                               *)

\* The file is opened where it is asked for, and has blocks only then.
LEMMA OpenFacts ==
  ASSUME RequestsOK, UploadTypeOK, EarlyInv, ResumeInv, FileInv, Serve, Opens
  PROVE  /\ pc = "open" /\ ~handle /\ Len(outgoing) = 1
         /\ Oldest.file = RemoteFile /\ RemoteFile \in DOMAIN files
         /\ files' = [files EXCEPT ![RemoteFile] = IF ResumeTransfer /\ @ # NoFile THEN @ ELSE {}]
         /\ files'[RemoteFile] \in SUBSET Blocks
  <1>1. 1 \in Positions(outgoing)
    BY ServeFacts DEF Positions
  <1>2. pc = "open"
    BY <1>1 DEF EarlyInv, Opens, Oldest
  <1>3. ~handle /\ Oldest.file = RemoteFile
    BY <1>2, EarlyRequest, CallFacts DEF Early
  <1>4. Len(outgoing) = 1
    BY <1>2 DEF EarlyInv, Early, Serve, NothingUnderWay, ResponseUnderWay, RequestUnderWay
  <1>5. RemoteFile \in DOMAIN files /\ files[RemoteFile] \in Contents
    BY RemoteFileFacts DEF UploadTypeOK
  <1>6. files' = [files EXCEPT ![RemoteFile] = IF ResumeTransfer /\ @ # NoFile THEN @ ELSE {}]
    BY <1>3 DEF Opens
  <1>7. ResumeTransfer /\ files[RemoteFile] # NoFile => files[RemoteFile] \in SUBSET Blocks
    BY <1>2, <1>5, RemoteFileFacts, ContentsFacts DEF ResumeInv, FileInv
  <1>8. files'[RemoteFile] = IF ResumeTransfer /\ files[RemoteFile] # NoFile THEN files[RemoteFile] ELSE {}
    BY <1>5, <1>6
  <1>9. QED
    BY <1>2, <1>3, <1>4, <1>5, <1>6, <1>7, <1>8

\* While the file is open, nothing that is served displaces it.
LEMMA OpenStays ==
  ASSUME RequestsOK, UploadTypeOK, CloseInv, Serve, handle
  PROVE  ~Displaces(Oldest)
  <1>1. 1 \in Positions(outgoing)
    BY ServeFacts DEF Positions
  <1>2. QED
    BY <1>1 DEF CloseInv, Oldest

\* Every step keeps FileInv.
LEMMA FileStep ==
  ASSUME RequestsOK, UploadTypeOK, UploadInvariant, Shape
  PROVE  FileInv'
  <1> USE DEF UploadInvariant
  <1>0. UNCHANGED RemoteFile
    BY RemoteFileFacts DEF Shape
  <1>1. ASSUME Quiet PROVE FileInv'
    BY <1>0, <1>1 DEF Quiet, FileInv, Positions, serverVars
  <1>2. ASSUME Sends PROVE FileInv'
    <2>1. FTransfered < N => FTransfered + 1 \in Blocks
      BY BoundAssumption DEF Blocks, UploadTypeOK
    <2>2. \A k \in 1..Len(outgoing) :
            outgoing[k].kind = "write" => outgoing[k].file = RemoteFile /\ outgoing[k].block \in Blocks
      BY DEF FileInv, Positions
    <2>3. \A k \in 1..Len(outgoing') :
            outgoing'[k].kind = "write" => outgoing'[k].file = RemoteFile /\ outgoing'[k].block \in Blocks
      BY <1>2, <2>1, <2>2, SendsFacts
    <2>4. QED
      BY <1>0, <1>2, <2>3 DEF Sends, FileInv, Positions, serverVars
  <1>3. ASSUME Cut PROVE FileInv'
    BY <1>3 DEF Cut, FileInv, Positions
  <1>4. ASSUME Serve PROVE FileInv'
    <2>1. \A k \in 1..Len(outgoing') :
            outgoing'[k].kind = "write" => outgoing'[k].file = RemoteFile /\ outgoing'[k].block \in Blocks
      BY <1>4, ServeFacts DEF FileInv, Positions
    <2>2. /\ files["partial"] # Old /\ DOMAIN files = Files
          /\ handle => files[RemoteFile] \in SUBSET Blocks
          /\ RemoteFile \in Files /\ "partial" \in Files
          /\ NoFile # Old /\ \A s \in SUBSET Blocks : s # Old
      BY RemoteFileFacts, FilesAssumption, ContentsFacts DEF FileInv, UploadTypeOK
    <2>3. files'["partial"] # Old /\ (handle' => files'[RemoteFile] \in SUBSET Blocks)
      <3>1. CASE Refuses \/ ClosesIt \/ Answers
        <4>1. UNCHANGED files /\ (handle' => handle)
          BY <3>1, ServerTypesFacts DEF Refuses, ClosesIt, Answers, ServerTypes
        <4>2. QED
          BY <2>2, <4>1
      <3>2. CASE Opens
        BY <1>4, <2>2, <3>2, OpenFacts
      <3>3. CASE Writes
        BY <1>4, <2>2, <3>3, WriteFacts
      <3>4. CASE Removes
        <4>1. handle => Oldest.file # RemoteFile
          BY <1>4, <3>4, OpenStays DEF Removes, Displaces
        <4>2. QED
          BY <2>2, <3>4, <4>1 DEF Removes
      <3>5. CASE Renames
        BY <1>4, <2>2, <3>5, OpenStays DEF Renames, Displaces
      <3>6. QED
        BY <1>4, <3>1, <3>2, <3>3, <3>4, <3>5, ServeFacts
    <2>4. QED
      BY <1>0, <2>1, <2>3 DEF FileInv, Positions
  <1>5. QED
    BY <1>1, <1>2, <1>3, <1>4 DEF Shape

----------------------------------------------------------------------------
(* Closing before displacing                                               *)

Closing == \E j \in 1..Len(outgoing) : outgoing[j].kind = "close"

\* A close under way stays until it is served.
LEMMA ClosingKept ==
  ASSUME RequestsOK, Closing, Quiet \/ Sends
  PROVE  Closing'
  <1>1. CASE Quiet
    BY <1>1 DEF Quiet, Closing
  <1>2. CASE Sends
    <2>1. PICK j \in 1..Len(outgoing) : outgoing[j].kind = "close"
      BY DEF Closing
    <2>2. j \in 1..Len(outgoing') /\ outgoing'[j].kind = "close"
      BY <1>2, <2>1, SendsFacts
    <2>3. QED
      BY <2>2 DEF Closing
  <1>3. QED
    BY <1>1, <1>2

\* A close under way is still there after a request that leaves the file open.
LEMMA ClosingServed ==
  ASSUME RequestsOK, UploadTypeOK, Closing, Serve, handle, handle'
  PROVE  Closing'
  <1>1. PICK j \in 1..Len(outgoing) : outgoing[j].kind = "close"
    BY DEF Closing
  <1>2. Oldest.kind # "close"
    BY ServeFacts DEF Refuses, Opens, Writes, ClosesIt, Removes, Renames, Answers
  <1>3. j # 1
    BY <1>1, <1>2 DEF Oldest
  <1>4. j - 1 \in 1..Len(outgoing') /\ outgoing'[j - 1].kind = "close"
    BY <1>1, <1>3, ServeFacts
  <1>5. QED
    BY <1>4 DEF Closing

\* The upload has its handle while blocks are sent, and no longer when it has
\* sent the close.
LEMMA HandleFlagStep ==
  ASSUME UploadTypeOK, CloseInv, Next
  PROVE  /\ pc' \in {"continue", "writing"} => RemoteFileHandle'
         /\ pc' \in {"set", "setting"} => ~RemoteFileHandle'
  <1> DEFINE Good == /\ pc' \in {"continue", "writing"} => RemoteFileHandle'
                     /\ pc' \in {"set", "setting"} => ~RemoteFileHandle'
  <1>0. /\ pc \in {"continue", "writing"} => RemoteFileHandle = TRUE
        /\ pc \in {"set", "setting"} => RemoteFileHandle = FALSE
    BY DEF CloseInv, UploadTypeOK
  <1>1. ASSUME \/ SendCall \/ Stores \/ DisposeResponse \/ HandleWritten \/ Serve
               \/ Continue \/ Written \/ SendProperties \/ SendClose
               \/ Interrupted \/ Disposed \/ Leave \/ Unwind \/ Unwound \/ GiveUp \/ Declined \/ PropertiesSent
        PROVE  Good
    BY <1>0, <1>1
    DEF SendCall, Stores, DisposeResponse, HandleWritten, Serve, Continue, Written, SendProperties, SendClose,
        Interrupted, Disposed, AfterDispose, Leave, Unwind, Unwound, GiveUp, Declined, Fails, PropertiesSent,
        requestVars
  <1>2. ASSUME Opened \/ CloseSent \/ HandleRefused \/ HandleThrows PROVE Good
    BY <1>2 DEF Opened, CloseSent, HandleRefused, HandleThrows, SendPacketThrows, AfterClose
  <1>3. ASSUME Drop \/ WrongNumber \/ Reopen PROVE Good
    BY <1>3 DEF Drop, WrongNumber, Lost, Reopen, FirstStep
  <1>4. ASSUME \/ Checked \/ Discarded \/ NotOpened \/ Erased \/ Undone \/ Removed \/ Renamed \/ Touched \/ KeptAlive
        PROVE  pc' \notin {"continue", "writing", "set", "setting"}
    BY <1>4 DEF Checked, Discarded, NotOpened, Erased, Undone, Removed, Renamed, Touched,
       KeptAlive,
       Returns,
       RetriesOrFails, Goes, Fails
  <1>5. ASSUME Closed \/ CloseRefused \/ PropertiesSet
        PROVE  pc' \notin {"continue", "writing", "set", "setting"}
    BY <1>5 DEF Closed, CloseRefused, PropertiesSet, Receives, RetriesOrFails, Goes, Fails,
       AfterTransfer, Finish, Resend
  <1>6. QED
    BY <1>1, <1>2, <1>3, <1>4, <1>5 DEF Next, Transfer

\* What ends the upload has the close behind it, or sends it.
LEMMA ClosedByThenStep ==
  ASSUME RequestsOK, UploadTypeOK, UploadInvariant, Shape, Next, handle', ClosedByThen'
  PROVE  Closing'
  <1> USE DEF UploadInvariant
  <1>0. ASSUME ClosedByThen, handle, Quiet \/ Sends PROVE Closing'
    BY <1>0, ClosingKept DEF CloseInv, Closes, Closing, Positions
  <1>1. ASSUME Serve PROVE Closing'
    <2>1. ClosedByThen
      BY <1>1 DEF ClosedByThen, Serve, requestVars
    <2>2. pc # "open"
      BY <2>1 DEF ClosedByThen
    <2>3. handle
      BY <1>1, <2>2, ServeFacts, OpenFacts, ServerTypesFacts
      DEF Refuses, Writes, ClosesIt, Removes, Renames, Answers, ServerTypes
    <2>4. Closing
      BY <2>1, <2>3 DEF CloseInv, Closes, Closing, Positions
    <2>5. QED
      BY <1>1, <2>3, <2>4, ClosingServed
  <1>2. ASSUME Cut PROVE FALSE
    BY <1>2 DEF Cut
  <1>3. ASSUME Quiet \/ Sends PROVE handle
    BY <1>3, ServerTypesFacts DEF Quiet, Sends, serverVars, ServerTypes
  <1>4. ASSUME SendClose PROVE Closing'
    BY <1>4, SendFacts, RemoteFileFacts, KindsAssumption DEF SendClose, Closing
  <1>5. ASSUME Disposed PROVE Closing'
    <2>1. CASE RemoteFileHandle
      BY <1>5, <2>1, SendFacts, RemoteFileFacts, KindsAssumption DEF Disposed, Closing
    <2>2. CASE ~RemoteFileHandle
      BY <1>0, <1>3, <1>5, <2>2 DEF Disposed, ClosedByThen, Quiet
    <2>3. QED
      BY <2>1, <2>2
  <1>6. ASSUME Quiet \/ Sends,
               \/ Continue \/ Written \/ CloseSent \/ SendProperties \/ PropertiesSent
               \/ HandleWritten \/ HandleRefused \/ HandleThrows \/ DisposeResponse \/ Interrupted
               \/ Closed \/ CloseRefused \/ Undone \/ Removed \/ Renamed \/ Touched \/ PropertiesSet
               \/ Leave \/ KeptAlive \/ SendCall \/ Stores \/ Unwind \/ Unwound \/ GiveUp
        PROVE  Closing'
    <2>1. CASE pc \in {"closing", "set", "setting", "close", "properties", "leave", "undo", "remove",
                       "rename", "touch", "idle"}
      BY <1>0, <1>3, <1>6, <2>1 DEF ClosedByThen
    <2>2. CASE Continue \/ Written \/ Interrupted
      BY <2>2 DEF Continue, Written, Interrupted, CloseInv, ClosedByThen, requestVars
    <2>3. CASE (HandleRefused \/ HandleThrows) /\ pc = "writing"
      BY <2>3 DEF HandleRefused, HandleThrows, SendPacketThrows, CloseInv, ClosedByThen
    <2>4. CASE HandleWritten \/ DisposeResponse \/ SendCall \/ Stores
      <3>1. UNCHANGED <<pc, RemoteFileHandle>>
        BY <2>4 DEF HandleWritten, DisposeResponse, SendCall, Stores, requestVars
      <3>2. ClosedByThen
        BY <3>1 DEF ClosedByThen
      <3>3. QED
        BY <1>0, <1>3, <1>6, <3>2
    <2>5. CASE Unwind \/ Unwound \/ GiveUp
      BY <2>5 DEF Unwind, Unwound, GiveUp, ClosedByThen
    <2>6. CASE Undone \/ Removed \/ Renamed \/ Touched \/ KeptAlive
      BY <2>1, <2>6 DEF Undone, Removed, Renamed, Touched, KeptAlive, Returns
    <2>7. CASE Closed \/ CloseRefused \/ PropertiesSet
      BY <2>1, <2>7 DEF Closed, CloseRefused, PropertiesSet, Receives
    <2>8. CASE CloseSent \/ SendProperties \/ PropertiesSent \/ Leave
      BY <2>1, <2>8 DEF CloseSent, SendProperties, PropertiesSent, Leave
    <2>9. CASE (HandleRefused \/ HandleThrows) /\ pc # "writing"
      BY <2>1, <2>9 DEF HandleRefused, HandleThrows, Handles, Sending
    <2>10. QED
      BY <1>6, <2>2, <2>3, <2>4, <2>5, <2>6, <2>7, <2>8, <2>9
  <1>7. ASSUME Quiet, Checked \/ Discarded \/ NotOpened \/ Erased \/ Opened \/ Declined PROVE Closing'
    <2>1. handle
      BY <1>3, <1>7
    <2>2. CASE Declined
      BY <2>1, <2>2 DEF Declined, EarlyInv, Early, NothingUnderWay
    <2>3. CASE Opened
      BY <2>3 DEF Opened, ClosedByThen
    <2>4. CASE Checked \/ Discarded \/ NotOpened \/ Erased
      <3>1. /\ Early /\ call # NULL
            /\ \E p \in Acceptable(call) : Accept(call, p) /\ (pc = "open" => Verdict(call, p) = "refused")
        BY <2>4 DEF Checked, Discarded, NotOpened, Erased, Returns, Early
      <3>2. ~handle
        BY <3>1, EarlyReceipt
      <3>3. QED
        BY <2>1, <3>2
    <2>5. QED
      BY <1>7, <2>2, <2>3, <2>4
  <1>8. ASSUME Drop \/ WrongNumber \/ Reopen PROVE FALSE
    BY <1>8 DEF Drop, WrongNumber, Lost, Reopen, FirstStep, ClosedByThen
  <1>9. Quiet \/ Sends \/ Serve
    BY <1>2 DEF Shape
  <1>10. ASSUME Quiet \/ Sends, Checked \/ Discarded \/ NotOpened \/ Erased \/ Opened \/ Declined PROVE Closing'
    <2>1. Quiet
      BY <1>10 DEF Checked, Discarded, NotOpened, Erased, Opened, Declined, Returns, Quiet,
         packetVars
    <2>2. QED
      BY <1>7, <1>10, <2>1
  <1>11. QED
    BY <1>1, <1>4, <1>5, <1>6, <1>8, <1>9, <1>10 DEF Next, Transfer

\* What displaces the file is behind the close while the file is open.
LEMMA DisplacesStep ==
  ASSUME RequestsOK, UploadTypeOK, UploadInvariant, Shape, handle',
         NEW k \in 1..Len(outgoing'), Displaces(outgoing'[k])
  PROVE  \E j \in 1..(k - 1) : outgoing'[j].kind = "close"
  <1> USE DEF UploadInvariant
  <1>0. /\ outgoing'[k].kind \in {"remove", "rename"}
        /\ \A i \in 1..Len(outgoing) : handle /\ Displaces(outgoing[i]) =>
             \E j \in 1..(i - 1) : outgoing[j].kind = "close"
    BY DEF CloseInv, Closes, Positions, Displaces
  <1>1. CASE Quiet
    <2>1. outgoing' = outgoing /\ handle
      BY <1>1, ServerTypesFacts DEF Quiet, serverVars, ServerTypes
    <2>2. k \in 1..Len(outgoing) /\ Displaces(outgoing[k])
      BY <2>1
    <2>3. QED
      BY <1>0, <2>1, <2>2
  <1>2. CASE Sends
    <2>0. handle
      BY <1>2, ServerTypesFacts DEF Sends, serverVars, ServerTypes
    <2>1. /\ Len(outgoing) \in Nat /\ Len(outgoing') = Len(outgoing) + 1
          /\ \A i \in 1..Len(outgoing) : outgoing'[i] = outgoing[i]
          /\ outgoing'[Len(outgoing) + 1].kind \in {"remove", "rename"} =>
               pc \in {"undo", "remove", "rename"}
      BY <1>2, <2>0, SendsFacts
    <2>2. CASE k \in 1..Len(outgoing)
      <3>1. Displaces(outgoing[k])
        BY <2>1, <2>2
      <3>2. PICK j \in 1..(k - 1) : outgoing[j].kind = "close"
        BY <1>0, <2>0, <2>2, <3>1
      <3>3. j \in 1..Len(outgoing)
        BY <2>1, <2>2, <3>2
      <3>4. QED
        BY <2>1, <3>2, <3>3
    <2>3. CASE k = Len(outgoing) + 1
      <3>1. ClosedByThen
        BY <1>0, <2>1, <2>3 DEF ClosedByThen
      <3>2. PICK j \in 1..Len(outgoing) : outgoing[j].kind = "close"
        BY <2>0, <3>1 DEF CloseInv, Closes, Positions
      <3>3. QED
        BY <2>1, <2>3, <3>2
    <2>4. QED
      BY <2>1, <2>2, <2>3
  <1>3. CASE Cut
    BY <1>3 DEF Cut
  <1>4. CASE Serve
    <2>1. /\ Len(outgoing) \in Nat \ {0} /\ Len(outgoing') = Len(outgoing) - 1
          /\ \A i \in 1..(Len(outgoing) - 1) : outgoing'[i] = outgoing[i + 1]
      BY <1>4, ServeFacts
    <2>2. CASE Opens
      <3>1. Len(outgoing) = 1
        BY <1>4, <2>2, OpenFacts
      <3>2. QED
        BY <2>1, <3>1
    <2>3. CASE ~Opens
      <3>1. handle /\ Oldest.kind # "close"
        BY <1>4, <2>3, ServeFacts, ServerTypesFacts
        DEF Refuses, Writes, ClosesIt, Removes, Renames, Answers, ServerTypes
      <3>2. k + 1 \in 1..Len(outgoing) /\ outgoing'[k] = outgoing[k + 1]
        BY <2>1
      <3>3. Displaces(outgoing[k + 1])
        BY <3>2
      <3>4. PICK j \in 1..k : outgoing[j].kind = "close"
        BY <1>0, <3>1, <3>2, <3>3
      <3>5. j # 1
        BY <3>1, <3>4 DEF Oldest
      <3>6. j - 1 \in 1..(k - 1) /\ outgoing'[j - 1].kind = "close"
        BY <2>1, <3>4, <3>5
      <3>7. QED
        BY <3>6
    <2>4. QED
      BY <2>2, <2>3
  <1>5. QED
    BY <1>1, <1>2, <1>3, <1>4 DEF Shape

\* Every step keeps CloseInv.
LEMMA CloseStep ==
  ASSUME RequestsOK, UploadTypeOK, UploadInvariant, Shape, Next
  PROVE  CloseInv'
  <1>1. UNCHANGED RemoteFile
    BY RemoteFileFacts DEF Shape
  <1>2. /\ pc' \in {"continue", "writing"} => RemoteFileHandle'
        /\ pc' \in {"set", "setting"} => ~RemoteFileHandle'
    BY HandleFlagStep DEF UploadInvariant
  <1>3. handle' /\ ClosedByThen' => \E j \in 1..Len(outgoing') : outgoing'[j].kind = "close"
    BY ClosedByThenStep DEF Closing
  <1>4. handle' => \A k \in 1..Len(outgoing') :
          \/ outgoing'[k].kind = "rename"
          \/ outgoing'[k].kind = "remove" /\ outgoing'[k].file = RemoteFile
          => \E j \in 1..(k - 1) : outgoing'[j].kind = "close"
    BY DisplacesStep DEF Displaces
  <1>5. QED
    BY <1>1, <1>2, <1>3, <1>4 DEF CloseInv, Closes, Displaces, Positions

----------------------------------------------------------------------------
(* The blocks under way                                                    *)

IsWrite(k) == outgoing[k].kind = "write"

\* WritesInv for one block under way.
LEMMA WritesFacts ==
  ASSUME WritesInv, ~holed, NEW k \in 1..Len(outgoing), IsWrite(k)
  PROVE  /\ handle /\ files[RemoteFile] = 1..(outgoing[1].block - 1)
         /\ outgoing[k].block = outgoing[1].block + k - 1
         /\ \A j \in 1..k : IsWrite(j)
  BY DEF WritesInv, IsWrite, Positions

\* One block after the ones that are there.
LEMMA NextBlock ==
  ASSUME NEW n \in Nat \ {0}
  PROVE  (1..(n - 1)) \union {n} = 1..n
  OBVIOUS

\* The block that is written is the next one of the file.
LEMMA WritesNext ==
  ASSUME RequestsOK, UploadTypeOK, UploadInvariant, Serve, Writes, ~holed
  PROVE  /\ Oldest.block \in Blocks /\ Oldest.block \in Nat \ {0}
         /\ files[RemoteFile] = 1..(Oldest.block - 1)
         /\ files' = [files EXCEPT ![RemoteFile] = 1..Oldest.block]
         /\ files'[RemoteFile] = 1..Oldest.block
  <1>1. 1 \in 1..Len(outgoing) /\ IsWrite(1)
    BY ServeFacts DEF Writes, Oldest, IsWrite
  <1>2. files[RemoteFile] = 1..(Oldest.block - 1)
    BY <1>1, WritesFacts DEF UploadInvariant, Oldest
  <1>3. Oldest.block \in Blocks /\ Oldest.block \in Nat \ {0}
    BY WriteFacts, BoundAssumption DEF UploadInvariant, Blocks
  <1>4. files[RemoteFile] \union {Oldest.block} = 1..Oldest.block
    BY <1>2, <1>3, NextBlock
  <1>5. files' = [files EXCEPT ![RemoteFile] = 1..Oldest.block] /\ RemoteFile \in DOMAIN files
    BY <1>4, WriteFacts, RemoteFileFacts DEF UploadInvariant, UploadTypeOK
  <1>6. QED
    BY <1>2, <1>3, <1>5

\* Every step keeps PartialIsPrefix.
LEMMA PrefixStep ==
  ASSUME RequestsOK, UploadTypeOK, UploadInvariant, Shape
  PROVE  PartialIsPrefix'
  <1>1. ASSUME UNCHANGED <<files, holed>> PROVE PartialIsPrefix'
    BY <1>1 DEF UploadInvariant, PartialIsPrefix
  <1>2. CASE Quiet \/ Sends \/ Cut
    BY <1>1, <1>2 DEF Quiet, Sends, Cut, serverVars
  <1>3. ASSUME Serve PROVE PartialIsPrefix'
    <2>1. CASE holed'
      BY <2>1 DEF PartialIsPrefix
    <2>2. CASE ~holed'
      <3>1. /\ ~holed /\ DOMAIN files = {"dest", "partial"} /\ DOMAIN files' = {"dest", "partial"}
            /\ \A f \in DOMAIN files : files[f] \notin {NoFile, Old} => files[f] = 1..Cardinality(files[f])
        <4>1. ~holed
          BY <1>3, <2>2, ServeFacts DEF Refuses
        <4>2. ServerTypes /\ ServerTypes'
          BY ServerTypesFacts, ServerTypesStep DEF UploadInvariant
        <4>3. QED
          BY <4>1, <4>2, FilesAssumption DEF UploadInvariant, PartialIsPrefix, ServerTypes
      <3>2. CASE UNCHANGED files
        BY <3>1, <3>2 DEF PartialIsPrefix
      <3>3. CASE Opens
        <4>1. {} = 1..Cardinality({})
          BY FS_EmptySet
        <4>2. /\ files' = [files EXCEPT ![RemoteFile] = IF ResumeTransfer /\ @ # NoFile THEN @ ELSE {}]
              /\ RemoteFile \in DOMAIN files
          BY <1>3, <3>3, OpenFacts DEF UploadInvariant
        <4>3. \A f \in DOMAIN files : files'[f] = files[f] \/ files'[f] = {}
          BY <4>2
        <4>4. QED
          BY <3>1, <4>1, <4>3 DEF PartialIsPrefix
      <3>4. CASE Writes
        <4>1. /\ files' = [files EXCEPT ![RemoteFile] = 1..Oldest.block]
              /\ Oldest.block \in Nat
          BY <1>3, <3>1, <3>4, WritesNext
        <4>2. Cardinality(1..Oldest.block) = Oldest.block
          BY <4>1, FirstBlocks
        <4>3. \A f \in DOMAIN files : files'[f] = files[f] \/ files'[f] = 1..Oldest.block
          BY <4>1
        <4>4. QED
          BY <3>1, <4>2, <4>3 DEF PartialIsPrefix
      <3>5. CASE Removes
        <4>1. \A f \in DOMAIN files : files'[f] = files[f] \/ files'[f] = NoFile
          BY <3>5 DEF Removes
        <4>2. QED
          BY <3>1, <4>1 DEF PartialIsPrefix
      <3>6. CASE Renames
        BY <3>1, <3>6 DEF PartialIsPrefix, Renames
      <3>7. QED
        BY <1>3, <3>2, <3>3, <3>4, <3>5, <3>6, ServeFacts DEF Refuses, ClosesIt, Answers
    <2>3. QED
      BY <2>1, <2>2
  <1>4. QED
    BY <1>2, <1>3 DEF Shape

\* Every step keeps WritesInv.
LEMMA WritesStep ==
  ASSUME RequestsOK, UploadTypeOK, UploadInvariant, Shape, ~holed',
         NEW k \in 1..Len(outgoing'), outgoing'[k].kind = "write"
  PROVE  /\ handle' /\ files'[RemoteFile] = 1..(outgoing'[1].block - 1)
         /\ outgoing'[k].block = outgoing'[1].block + k - 1
         /\ \A j \in 1..k : outgoing'[j].kind = "write"
  <1>0. WritesInv /\ TransferInv
    BY DEF UploadInvariant
  <1>1. CASE Quiet
    <2>1. UNCHANGED <<outgoing, files, holed>> /\ (handle => handle')
      BY <1>1 DEF Quiet, serverVars
    <2>2. ~holed /\ k \in 1..Len(outgoing) /\ IsWrite(k)
      BY <2>1 DEF IsWrite
    <2>3. QED
      BY <1>0, <2>1, <2>2, WritesFacts DEF IsWrite
  <1>2. CASE Sends
    <2>1. UNCHANGED <<files, holed>> /\ (handle => handle') /\ ~holed
      BY <1>2 DEF Sends, serverVars
    <2>2. /\ Len(outgoing) \in Nat /\ Len(outgoing') = Len(outgoing) + 1
          /\ \A i \in 1..Len(outgoing) : outgoing'[i] = outgoing[i]
          /\ outgoing'[Len(outgoing) + 1].kind = "write" =>
               pc = "continue" /\ outgoing'[Len(outgoing) + 1].block = FTransfered + 1
      BY <1>2, SendsFacts
    <2>3. CASE k \in 1..Len(outgoing)
      <3>1. IsWrite(k) /\ outgoing'[1] = outgoing[1] /\ outgoing'[k] = outgoing[k]
        BY <2>2, <2>3 DEF IsWrite
      <3>2. \A j \in 1..k : outgoing'[j] = outgoing[j]
        BY <2>2, <2>3
      <3>3. QED
        BY <1>0, <2>1, <2>3, <3>1, <3>2, WritesFacts DEF IsWrite
    <2>4. CASE k = Len(outgoing) + 1
      <3>1. pc = "continue" /\ outgoing'[k].block = FTransfered + 1 /\ FTransfered \in Nat
        BY <2>2, <2>4, BoundAssumption DEF UploadTypeOK
      <3>2. /\ handle /\ files[RemoteFile] = 1..(FTransfered - Len(outgoing))
            /\ \A i \in 1..Len(outgoing) :
                 outgoing[i].kind = "write" /\ outgoing[i].block = FTransfered - Len(outgoing) + i
        BY <1>0, <2>1, <3>1 DEF TransferInv, Positions
      <3>3. \A j \in 1..k : outgoing'[j].kind = "write"
        BY <2>2, <2>4, <3>2
      <3>4. outgoing'[1].block = FTransfered - Len(outgoing) + 1
        BY <2>2, <2>4, <3>1, <3>2
      <3>5. QED
        BY <2>1, <2>2, <2>4, <3>1, <3>2, <3>3, <3>4
    <2>5. QED
      BY <2>2, <2>3, <2>4
  <1>3. CASE Cut
    BY <1>3 DEF Cut
  <1>4. CASE Serve
    <2>1. /\ Len(outgoing) \in Nat \ {0} /\ Len(outgoing') = Len(outgoing) - 1
          /\ \A i \in 1..(Len(outgoing) - 1) : outgoing'[i] = outgoing[i + 1]
      BY <1>4, ServeFacts
    <2>0. ~holed
      BY <1>4, ServeFacts DEF Refuses
    <2>2. ~holed /\ k + 1 \in 1..Len(outgoing) /\ IsWrite(k + 1)
      BY <2>0, <2>1 DEF IsWrite
    <2>3. /\ outgoing[k + 1].block = outgoing[1].block + (k + 1) - 1
          /\ \A j \in 1..(k + 1) : IsWrite(j)
      BY <1>0, <2>2, WritesFacts
    <2>4. Writes
      <3>1. IsWrite(1)
        BY <2>2, <2>3
      <3>2. QED
        BY <1>4, <3>1, ServeFacts DEF Refuses, Opens, ClosesIt, Removes, Renames, Answers,
           IsWrite, Oldest
    <2>5. handle' /\ files'[RemoteFile] = 1..outgoing[1].block /\ outgoing[1].block \in Nat
      BY <1>4, <2>2, <2>4, WritesNext DEF Writes, Oldest
    <2>6. 2 \in 1..Len(outgoing) /\ IsWrite(2)
      BY <2>1, <2>2, <2>3
    <2>7. outgoing'[1].block = outgoing[1].block + 1
      <3>1. outgoing[2].block = outgoing[1].block + 2 - 1
        BY <1>0, <2>2, <2>6, WritesFacts
      <3>2. outgoing'[1] = outgoing[2]
        BY <2>1, <2>6
      <3>3. QED
        BY <2>5, <3>1, <3>2
    <2>8. ASSUME NEW j \in 1..k PROVE outgoing'[j].kind = "write"
      <3>1. j + 1 \in 1..(k + 1) /\ j \in 1..(Len(outgoing) - 1)
        BY <2>1, <2>2
      <3>2. QED
        BY <2>1, <2>3, <3>1 DEF IsWrite
    <2>9. outgoing'[k].block = outgoing'[1].block + k - 1
      <3>1. outgoing'[k] = outgoing[k + 1]
        BY <2>1, <2>2
      <3>2. QED
        BY <2>3, <2>5, <2>7, <3>1
    <2>10. files'[RemoteFile] = 1..(outgoing'[1].block - 1)
      BY <2>5, <2>7
    <2>11. QED
      BY <2>5, <2>8, <2>9, <2>10
  <1>5. QED
    BY <1>1, <1>2, <1>3, <1>4 DEF Shape

\* Between two blocks and while one is sent, the blocks under way are the last
\* of those that were read.
LEMMA TransferStep ==
  ASSUME RequestsOK, ResponsesOK, UploadTypeOK, UploadInvariant, Shape, Next,
         ~holed', pc' \in {"continue", "writing"}
  PROVE  /\ handle' /\ files'[RemoteFile] = 1..(FTransfered' - Len(outgoing'))
         /\ \A k \in 1..Len(outgoing') :
              outgoing'[k].kind = "write" /\ outgoing'[k].block = FTransfered' - Len(outgoing') + k
  <1>0. ASSUME pc \in {"continue", "writing"}, ~holed
        PROVE  /\ handle /\ files[RemoteFile] = 1..(FTransfered - Len(outgoing))
               /\ \A k \in 1..Len(outgoing) :
                    outgoing[k].kind = "write" /\ outgoing[k].block = FTransfered - Len(outgoing) + k
    BY <1>0 DEF UploadInvariant, TransferInv, Positions
  <1>1. FTransfered \in Nat /\ Len(outgoing) \in Nat
    BY BoundAssumption DEF UploadTypeOK, RequestsOK
  <1>2. CASE Opened
    <2>1. /\ pc = "open" /\ call # NULL /\ UNCHANGED <<outgoing, files, handle, holed, FTransfered>>
          /\ \E p \in Acceptable(call) : Verdict(call, p) = "ok" /\ Accept(call, p)
      BY <1>2 DEF Opened, serverVars
    <2>2. outgoing = <<>> /\ handle
      BY <2>1, EarlyReceipt DEF UploadInvariant, Early
    <2>3. files[RemoteFile] = 1..FTransfered
      BY <2>1, <2>2 DEF UploadInvariant, ResumeInv
    <2>4. Len(outgoing') = 0
      BY <2>1, <2>2
    <2>5. QED
      BY <1>1, <2>1, <2>2, <2>3, <2>4
  <1>3. CASE Continue
    <2>1. /\ pc = "continue" /\ FTransfered' = FTransfered + 1 /\ ~holed
          /\ UNCHANGED <<files, handle>>
      BY <1>3 DEF Continue, serverVars
    <2>2. /\ Len(outgoing') = Len(outgoing) + 1
          /\ \A k \in 1..Len(outgoing) : outgoing'[k] = outgoing[k]
          /\ outgoing'[Len(outgoing) + 1].kind = "write"
          /\ outgoing'[Len(outgoing) + 1].block = FTransfered + 1
      <3>1. "write" \in Kinds /\ RemoteFile \in Files /\ FTransfered + 1 \in Nat
        BY <1>1, KindsAssumption, RemoteFileFacts
      <3>2. QED
        BY <1>3, <3>1, SendFacts DEF Continue
    <2>3. FTransfered' - Len(outgoing') = FTransfered - Len(outgoing)
      BY <1>1, <2>1, <2>2
    <2>4. QED
      BY <1>0, <1>1, <2>1, <2>2, <2>3
  <1>4. CASE Written \/ HandleWritten \/ Stores
    <2>1. /\ pc \in {"continue", "writing"} /\ ~holed
          /\ UNCHANGED <<outgoing, files, handle, FTransfered>>
      BY <1>4 DEF Written, HandleWritten, Handles, Stores, StoreReserved, packetVars, serverVars
    <2>2. QED
      BY <1>0, <2>1
  <1>5. CASE Serve
    <2>1. pc \in {"continue", "writing"} /\ UNCHANGED FTransfered
      BY <1>5 DEF Serve
    <2>2. /\ Len(outgoing) \in Nat \ {0} /\ Len(outgoing') = Len(outgoing) - 1
          /\ \A i \in 1..(Len(outgoing) - 1) : outgoing'[i] = outgoing[i + 1]
      BY <1>5, ServeFacts
    <2>0. ~holed
      BY <1>5, ServeFacts DEF Refuses
    <2>3. /\ Oldest.kind = "write" /\ Oldest.block = FTransfered - Len(outgoing) + 1
          /\ \A k \in 1..Len(outgoing) :
               outgoing[k].kind = "write" /\ outgoing[k].block = FTransfered - Len(outgoing) + k
      BY <1>0, <2>0, <2>1, <2>2 DEF Oldest
    <2>4. Writes
      BY <1>5, <2>3, ServeFacts DEF Refuses, Opens, ClosesIt, Removes, Renames, Answers
    <2>5. handle' /\ files'[RemoteFile] = 1..Oldest.block
      BY <1>5, <2>0, <2>4, WritesNext DEF Writes
    <2>6. ASSUME NEW k \in 1..Len(outgoing')
          PROVE  /\ outgoing'[k].kind = "write"
                 /\ outgoing'[k].block = FTransfered - Len(outgoing) + (k + 1)
      <3>1. k + 1 \in 1..Len(outgoing) /\ outgoing'[k] = outgoing[k + 1]
        BY <2>2
      <3>2. QED
        BY <2>3, <3>1
    <2>7. FTransfered' - Len(outgoing') = FTransfered - Len(outgoing) + 1
      BY <1>1, <2>1, <2>2
    <2>8. QED
      BY <1>1, <2>3, <2>5, <2>6, <2>7
  <1>6. ASSUME \/ SendCall \/ DisposeResponse \/ SendProperties \/ SendClose \/ CloseSent \/ HandleRefused
               \/ HandleThrows
               \/ Interrupted \/ Disposed \/ Leave \/ Unwind \/ Unwound \/ GiveUp \/ Declined \/ PropertiesSent
        PROVE  FALSE
    BY <1>6, CallFacts
    DEF SendCall, DisposeResponse, SendProperties, SendClose, CloseSent, HandleRefused, HandleThrows, SendPacketThrows, AfterClose,
        Interrupted, Disposed, AfterDispose, Leave, Unwind, Unwound, GiveUp, Declined, Fails, PropertiesSent
  <1>7. ASSUME Drop \/ WrongNumber \/ Reopen PROVE FALSE
    BY <1>7 DEF Drop, WrongNumber, Lost, Reopen, FirstStep
  <1>8. ASSUME \/ Checked \/ Discarded \/ NotOpened \/ Erased \/ Undone \/ Removed \/ Renamed \/ Touched \/ KeptAlive
        PROVE  FALSE
    BY <1>8 DEF Checked, Discarded, NotOpened, Erased, Undone, Removed, Renamed, Touched,
       KeptAlive,
       Returns,
       RetriesOrFails, Goes, Fails
  <1>9. ASSUME Closed \/ CloseRefused \/ PropertiesSet PROVE FALSE
    BY <1>9 DEF Closed, CloseRefused, PropertiesSet, Receives, RetriesOrFails, Goes, Fails,
       AfterTransfer, Finish, Resend
  <1>10. QED
    BY <1>2, <1>3, <1>4, <1>5, <1>6, <1>7, <1>8, <1>9 DEF Next, Transfer

----------------------------------------------------------------------------
(* The theorems                                                            *)

\* The upload begins in the invariant ...
LEMMA InitIInv == Init => IInv
  <1> SUFFICES ASSUME Init PROVE IInv
    OBVIOUS
  <1>1. RequestsOK /\ ResponsesOK
    BY FreshOK DEF Init, PacketsInit
  <1>2. N \in Nat \ {0} /\ MaxRefusals \in Nat /\ MaxDrops \in Nat
    BY BoundAssumption
  <1>3. PICK left \in {NoFile} \union {1..k : k \in 0..N} :
          files = [dest |-> before, partial |-> IF DoResume THEN left ELSE NoFile]
    BY DEF Init
  <1>4. left = NoFile \/ \E n \in 0..N : left = 1..n
    BY <1>3
  <1>5. left \in Contents /\ left # Old /\ (left = NoFile \/ left = 1..Cardinality(left))
    <2>1. CASE left = NoFile
      BY <2>1, ContentsFacts
    <2>2. ASSUME NEW n \in 0..N, left = 1..n PROVE left \in Contents /\ left # Old /\ left = 1..Cardinality(left)
      <3>1. left \in SUBSET Blocks /\ Cardinality(left) = n
        BY <1>2, <2>2, FirstBlocks DEF Blocks
      <3>2. QED
        BY <2>2, <3>1, ContentsFacts
    <2>3. QED
      BY <1>4, <2>1, <2>2
  <1>6. before \in {NoFile, Old} /\ before \in Contents /\ NoFile # Old /\ NoFile \in Contents
    BY ContentsFacts DEF Init
  <1>7. files \in [Files -> Contents]
    BY <1>3, <1>5, <1>6, FilesAssumption
  <1>8. /\ files["partial"] # Old
        /\ \A f \in Files : files[f] \notin {NoFile, Old} => files[f] = 1..Cardinality(files[f])
    BY <1>3, <1>5, <1>6, FilesAssumption
  <1>9. UploadTypeOK
    <2>1. pc \in Places
      BY PlacesFacts DEF Init
    <2>2. FTransfered \in 0..N /\ refusals \in 0..MaxRefusals /\ drops \in 0..MaxDrops
      BY <1>2 DEF Init
    <2>3. FRequests \in Seq(Nat) /\ {call, CloseRequest, PropertiesRequest} \subseteq Nat
      BY DEF Init, NULL
    <2>4. QED
      BY <1>7, <2>1, <2>2, <2>3 DEF Init, UploadTypeOK
  <1>10. outgoing = <<>> /\ incoming = {} /\ ~handle /\ pc \in {"check", "open"} /\ call = NULL
    BY DEF Init, PacketsInit, FirstStep
  <1>11. EarlyInv /\ CloseInv /\ WritesInv /\ TransferInv
    <2>1. EarlyInv
      BY <1>10 DEF Init, PacketsInit, EarlyInv, Early, NothingUnderWay, Positions
    <2>2. CloseInv /\ WritesInv /\ TransferInv
      BY <1>10 DEF CloseInv, WritesInv, TransferInv, Positions
    <2>3. QED
      BY <2>1, <2>2
  <1>12. ResumeInv
    BY <1>10 DEF Init, FirstStep, ResumeInv
  <1>13. FileInv /\ PartialIsPrefix
    BY <1>7, <1>8, <1>10 DEF FileInv, PartialIsPrefix, Positions
  <1>14. QED
    BY <1>1, <1>9, <1>11, <1>12, <1>13 DEF IInv, UploadInvariant

\* ... no step leaves it ...
LEMMA NextIInv == IInv /\ Next => IInv'
  <1> SUFFICES ASSUME IInv, Next PROVE IInv'
    OBVIOUS
  <1>1. /\ RequestsOK /\ ResponsesOK /\ UploadTypeOK /\ UploadInvariant
        /\ EarlyInv /\ FileInv
    BY DEF IInv, UploadInvariant
  <1>2. Shape
    BY <1>1, StepShape
  <1>3. UNCHANGED RemoteFile
    BY <1>2, RemoteFileFacts DEF Shape
  <1>4. RequestsOK' /\ ResponsesOK' /\ UploadTypeOK'
    BY <1>1, <1>2, RequestsStep, ResponsesStep, UploadTypeStep
  <1>5. EarlyInv' /\ ResumeInv' /\ FileInv' /\ CloseInv' /\ PartialIsPrefix'
    BY <1>1, <1>2, EarlyStep, ResumeStep, FileStep, CloseStep, PrefixStep
  <1>6. WritesInv'
    BY <1>1, <1>2, <1>3, WritesStep DEF WritesInv, Positions
  <1>7. TransferInv'
    BY <1>1, <1>2, <1>3, TransferStep DEF TransferInv, Positions
  <1>8. QED
    BY <1>4, <1>5, <1>6, <1>7 DEF IInv, UploadInvariant

\* ... nor does a stutter.
LEMMA StutterIInv == IInv /\ UNCHANGED vars => IInv'
  <1> SUFFICES ASSUME IInv, UNCHANGED vars PROVE IInv'
    OBVIOUS
  <1> USE DEF vars, packetVars, choiceVars, attemptVars, requestVars, serverVars, flowVars
  <1>1. RequestsOK' /\ ResponsesOK'
    BY DEF IInv, RequestsOK, ResponsesOK, StoredInOwnPacket, IsReserved, Contains, Positions
  <1>2. UploadTypeOK'
    BY DEF IInv, UploadTypeOK
  <1>3. UNCHANGED RemoteFile
    BY RemoteFileFacts
  <1>4. UNCHANGED Operand
    BY <1>3 DEF Operand
  <1>5. EarlyInv'
    BY <1>4 DEF IInv, UploadInvariant, EarlyInv, Early, NothingUnderWay, RequestUnderWay,
       ResponseUnderWay, Positions
  <1>6. ResumeInv' /\ FileInv' /\ PartialIsPrefix'
    BY <1>3 DEF IInv, UploadInvariant, ResumeInv, FileInv, PartialIsPrefix, Positions
  <1>7. CloseInv'
    BY <1>3 DEF IInv, UploadInvariant, CloseInv, ClosedByThen, Closes, Displaces, Positions
  <1>8. WritesInv' /\ TransferInv'
    BY <1>3 DEF IInv, UploadInvariant, WritesInv, TransferInv, Positions
  <1>9. QED
    BY <1>1, <1>2, <1>5, <1>6, <1>7, <1>8 DEF IInv, UploadInvariant

\* The invariant the theorems below are read off from.
THEOREM Invariance == Spec => []IInv
  <1>1. IInv /\ [Next]_vars => IInv'
    BY NextIInv, StutterIInv
  <1>2. QED
    BY InitIInv, <1>1, PTL DEF Spec

\* All variables keep their types: no step of SFTPSource leaves its places, no
\* block outside the local file is sent or written, and the two lists of
\* reservations stay of one length.
THEOREM TypeCorrectness == Spec => []TypeOK
  <1>1. IInv => TypeOK
    BY Halves DEF IInv, TypeOK
  <1>2. QED
    BY Invariance, <1>1, PTL

\* Whatever order the responses come in and whichever packets are destroyed
\* meanwhile, by the exception of the handler or another one, ReceivePacket stores a response in the packet of its own request
\* only.
THEOREM ResponsesStayApart == Spec => []StoredInOwnPacket
  <1>1. IInv => StoredInOwnPacket
    BY Halves DEF IInv
  <1>2. QED
    BY Invariance, <1>1, PTL

\* As long as no block is refused and no file deleted that is resumed (holed),
\* what an upload of any length leaves on the server is a beginning of the local
\* file, wherever the connection is lost, the transfer interrupted or left by an
\* exception of the handler: resuming from the size of the partial file
\* (ResumeOffset in SFTPSource) continues where it stopped.
THEOREM ResumeSound == Spec => []PartialIsPrefix
  <1>1. IInv => PartialIsPrefix
    BY DEF IInv, UploadInvariant
  <1>2. QED
    BY Invariance, <1>1, PTL

\* The whole invariant: until the file is open one call at a time is under way,
\* blocks reach an open file only and, unless holed, in their order, and the file
\* is removed or renamed behind its close only.
THEOREM UploadSound == Spec => []UploadInvariant
  <1>1. IInv => UploadInvariant
    BY DEF IInv
  <1>2. QED
    BY Invariance, <1>1, PTL

----------------------------------------------------------------------------
(* What is still to be answered, and what the destination is waiting for   *)

\* SFTPCloseRemote and SFTPSource reserve these two responses only when
\* SendPacket has returned; until then they must not overtake.
InOrder == {"close", "setstat"} \cap Overtaking = {}

\* The transfer while the file is open, while it is being closed, and after.
Open == pc \in {"continue", "writing"} \/ (pc = "dispose" /\ RemoteFileHandle)
Ending == pc \in {"closing", "set", "setting", "close"} \/ (pc = "dispose" /\ ~RemoteFileHandle)
Settled == {"properties", "leave", "undo", "remove", "rename", "touch", "idle", "over"}

\* What has been sent and may not be reserved: until SendPacket has returned, and
\* for the close for good when it has thrown.
Loose(n) == (Ending /\ n = CloseRequest) \/ (pc = "setting" /\ n = PropertiesRequest)
InTurn(n) ==
  /\ \A p \in incoming : p.number = n => p.kind \notin Overtaking
  /\ \A k \in Positions(outgoing) : outgoing[k].number = n => outgoing[k].kind \notin Overtaking

\* Requests are served in the order of their numbers ...
OrderInv ==
  /\ \A p \in incoming, k \in Positions(outgoing) : p.number < outgoing[k].number
  /\ \A j, k \in Positions(outgoing) : j < k => outgoing[j].number < outgoing[k].number

\* ... every response still to come has somebody to take it, and one that is not
\* reserved comes behind those of the queue ...
DueInv ==
  /\ \A n \in Due : Noted(n) \/ n = call \/ Loose(n)
  /\ Distinct(FPacketNumbers)
  /\ call # NULL => pc \in DOMAIN Calls /\ call <= FMessageCounter /\ ~Noted(call)
  /\ \A n \in Nat : Loose(n) => InTurn(n) /\ \A m \in Elements(FRequests) : m < n
  /\ pc = "closing" => ~Noted(CloseRequest)
  /\ pc = "setting" => ~Noted(PropertiesRequest)

\* ... and the queue has the writes that are not confirmed.
Queued == {"continue", "writing", "closing", "set", "setting", "dispose"}
Confirmed(n) ==
  /\ \A k \in Positions(outgoing) : outgoing[k].number = n => outgoing[k].kind = "write"
  /\ \A p \in incoming : p.number = n => p.ok
  /\ \A s \in stored : s.packet = n => s.response.ok
QueueInv ==
  /\ FRequests # <<>> => pc \in Queued
  /\ Distinct(FRequests)
  /\ \A n \in Elements(FRequests) :
       /\ n \in 1..FMessageCounter /\ IsReserved(n) /\ (~holed => Confirmed(n))
       /\ n \in Due \/ \E s \in stored : s.packet = n

\* A request that is neither a block, nor a close, nor sets properties is the
\* call that is waited for.
CallInv ==
  \A k \in Positions(outgoing) :
    outgoing[k].kind \notin {"write", "close", "setstat"} \/ outgoing[k].number = call =>
      /\ outgoing[k].number = call /\ pc \in DOMAIN Calls
      /\ outgoing[k].kind = Calls[pc] /\ outgoing[k].file = Operand[pc]

\* There is one close, and nothing is left of it when its response was received:
\* the responses that may come before have their takers.
ShutInv ==
  /\ NumbersOK /\ OrderInv
  /\ call # NULL => pc \in DOMAIN Calls
  /\ FRequests # <<>> => pc \in Queued
  /\ \A n \in Elements(FRequests) : n \in 1..FMessageCounter
  /\ Ending => CloseRequest \in 1..FMessageCounter
  /\ pc = "setting" => PropertiesRequest \in 1..FMessageCounter
  /\ Open => \A n \in Due : Noted(n)
  /\ \A k \in Positions(outgoing) : Closes(k) =>
       /\ outgoing[k].number = CloseRequest /\ Ending
       /\ \A n \in Due : n < CloseRequest => Noted(n)
  /\ pc \in Settled => ~handle

\* How a transfer that ends without an error is told from one that does not.
EndInv ==
  /\ pc \in {"setting", "properties"} => PropertiesRequest \in 1..FMessageCounter
  /\ Preserve /\ ~DoResume /\ ((pc = "dispose" /\ ~error) \/ (pc = "close" /\ TransferFinished)) =>
       PropertiesRequest \in 1..FMessageCounter
  /\ pc = "close" => TransferFinished = ~error
  /\ pc \in {"set", "setting", "properties", "undo"} => ~DoResume
  /\ pc = "undo" => error
  /\ pc \in {"remove", "rename"} => DoResume
  /\ result = "done" => pc \in {"idle", "over"}
OrphanInv ==
  orphaned =>
    /\ ~DoResume /\ error /\ result # "done"
    /\ pc \in {"dispose", "close", "undo", "leave", "idle", "over", "unwind", "lost"}

\* When the close has been sent the last block is there or under way ...
Sent ==
  \/ pc \in {"closing", "set", "setting"}
  \/ pc = "dispose" /\ ~error
  \/ pc = "close" /\ TransferFinished
Complete ==
  \/ files[RemoteFile] = Blocks
  \/ \E k \in Positions(outgoing) : outgoing[k].kind = "write" /\ outgoing[k].block = N

\* ... and what follows it finds the file complete.
DestinationDone == pc = "touch" \/ (pc = "leave" /\ ~error) \/ result = "done"
CompleteInv ==
  /\ Sent => Complete
  /\ pc \in {"remove", "properties"} => files[RemoteFile] = Blocks
  /\ DestinationDone => files["dest"] = Blocks

\* The destination is removed for a complete partial file only, and such a file
\* is neither discarded nor opened afresh.
Present == files["dest"] \in {before, Blocks}
DestinationInv ==
  DoResume =>
    /\ Present \/ (files["dest"] = NoFile /\ files["partial"] = Blocks)
    /\ pc = "discard" => ~cpNoConfirmation
    /\ Early /\ ~cpNoConfirmation => files["dest"] = before
    /\ pc \in {"open", "erase"} /\ ~ResumeTransfer => Present
    /\ pc = "rename" =>
         /\ call = NULL \/ (\E k \in Positions(outgoing) : outgoing[k].number = call)
              => files["partial"] = Blocks
         /\ \A p \in incoming : p.number = call =>
              IF p.ok THEN files["dest"] = Blocks ELSE files["partial"] = Blocks

PendingInv == NumbersOK /\ OrderInv /\ DueInv /\ QueueInv /\ CallInv
OutcomeInv == CompleteInv /\ DestinationInv

CompletionInv ==
  /\ ShutInv /\ EndInv /\ OrphanInv
  /\ InOrder /\ ~orphaned => PendingInv /\ (~holed => OutcomeInv)

----------------------------------------------------------------------------
(* Whose response is received                                              *)

\* The next number is one that nobody knows yet.
LEMMA Fresh ==
  ASSUME RequestsOK, ResponsesOK, NumbersOK
  PROVE  /\ FMessageCounter \in Nat /\ NextNumber = FMessageCounter + 1 /\ NextNumber \in Nat \ {NULL}
         /\ \A n \in Due : n \in 1..FMessageCounter
         /\ \A n : Noted(n) => n \in 1..FMessageCounter
         /\ \A x : x # NULL /\ IsReserved(x) => Noted(x)
         /\ \A s \in stored : Noted(s.packet) /\ s.packet # NULL /\ s.packet \notin Due
  <1>1. FMessageCounter \in Nat /\ NextNumber = FMessageCounter + 1 /\ NextNumber \in Nat \ {NULL}
    BY DEF RequestsOK, NextNumber, NULL
  <1>2. \A n \in Due : n \in 1..FMessageCounter
    BY DEF NumbersOK
  <1>3. \A n : Noted(n) => n \in 1..FMessageCounter
    BY DEF Noted, Contains, NumbersOK
  <1>4. ASSUME NEW x, x # NULL, IsReserved(x) PROVE Noted(x)
    <2>1. PICK k \in Positions(FPacketReservations) : FPacketReservations[k] = x
      BY <1>4 DEF IsReserved, Contains
    <2>2. FPacketNumbers[k] = x /\ k \in Positions(FPacketNumbers)
      BY <1>4, <2>1 DEF ResponsesOK, StoredInOwnPacket, Positions
    <2>3. QED
      BY <2>2 DEF Noted, Contains
  <1>5. \A s \in stored : s.packet # NULL /\ IsReserved(s.packet) /\ s.packet \notin Due
    BY DEF ResponsesOK, StoredInOwnPacket, NumbersOK
  <1>6. QED
    BY <1>1, <1>2, <1>3, <1>4, <1>5

\* The confirmed part of the queue.
LEMMA QueueFacts ==
  ASSUME UploadTypeOK, QueueInv
  PROVE  /\ Len(FRequests) \in Nat /\ FRequests \in Seq(Nat)
         /\ FRequests # <<>> =>
              /\ Head(FRequests) \in Elements(FRequests)
              /\ \A n : n \in Elements(Tail(FRequests)) <=> n \in Elements(FRequests) /\ n # Head(FRequests)
              /\ Distinct(Tail(FRequests))
  <1>1. FRequests \in Seq(Nat)
    BY DEF UploadTypeOK
  <1>2. \A s, x : x \in Elements(s) <=> Contains(s, x)
    BY DEF Elements, Contains
  <1>3. ASSUME FRequests # <<>>
        PROVE  /\ Head(FRequests) \in Elements(FRequests)
               /\ \A n : n \in Elements(Tail(FRequests)) <=> n \in Elements(FRequests) /\ n # Head(FRequests)
               /\ Distinct(Tail(FRequests))
    <2>1. Len(FRequests) \in Nat \ {0} /\ Head(FRequests) = FRequests[1]
      BY <1>1, <1>3, TailFacts
    <2>2. 1 \in Positions(FRequests)
      BY <2>1 DEF Positions
    <2>3. /\ \A x : Contains(Tail(FRequests), x) <=> Contains(FRequests, x) /\ x # FRequests[1]
          /\ Distinct(Tail(FRequests))
      BY <1>1, <2>1, TailElements DEF QueueInv
    <2>4. Contains(FRequests, FRequests[1])
      BY <2>2 DEF Contains
    <2>5. QED
      BY <1>2, <2>1, <2>3, <2>4
  <1>4. QED
    BY <1>1, <1>3

\* Whoever waits for a response receives his own, also while the response to the
\* close or to the properties is not reserved: it does not overtake.
LEMMA OwnReceipt ==
  ASSUME RequestsOK, ResponsesOK, NumbersOK, OrderInv, DueInv, QueueInv,
         NEW packet \in Nat \ {NULL}, NEW p \in Acceptable(packet),
         call \in {NULL, packet},
         \A n : Loose(n) => n = packet \/ packet \in Elements(FRequests)
  PROVE  p.number = packet
  <1>0. NULL \notin Due /\ \A n \in Due : n \in Nat
    BY Fresh DEF NULL
  <1>1. CASE Stored(packet) # {}
    <2>1. PICK s \in stored : s.packet = packet /\ p = s.response
      BY <1>1 DEF Acceptable, Stored
    <2>2. QED
      BY <2>1 DEF ResponsesOK, StoredInOwnPacket
  <1>2. CASE Stored(packet) = {}
    <2>1. p \in Arriving /\ p \in incoming /\ ReservedFor(packet, p) = {}
      BY <1>2 DEF Acceptable, Arriving
    <2>2. p.number \in Due /\ p.number \in Nat
      BY <1>0, <2>1 DEF Due
    <2>3. CASE Noted(p.number)
      <3>1. PICK k \in Positions(FPacketNumbers) : FPacketNumbers[k] = p.number
        BY <2>3 DEF Noted, Contains
      <3>2. IsReserved(packet) /\ FPacketNumbers[Reservation(packet)] = p.number
        BY <2>1, <3>1 DEF ReservedFor
      <3>3. /\ Reservation(packet) \in Positions(FPacketReservations)
            /\ FPacketReservations[Reservation(packet)] = packet
        BY <3>2, IndexOfFacts DEF IsReserved, Reservation
      <3>4. FPacketNumbers[Reservation(packet)] = packet
        BY <3>3 DEF ResponsesOK, StoredInOwnPacket
      <3>5. QED
        BY <3>2, <3>4
    <2>4. CASE p.number = call
      BY <1>0, <2>2, <2>4
    <2>5. CASE Loose(p.number) /\ p.number # packet
      <3>1. packet \in Elements(FRequests)
        BY <2>5
      <3>2. packet < p.number
        BY <2>2, <2>5, <3>1 DEF DueInv
      <3>3. packet \in Due
        BY <1>2, <3>1 DEF QueueInv, Stored
      <3>4. \A q \in incoming : p.number <= q.number
        <4>1. p.kind \notin Overtaking
          BY <2>1, <2>2, <2>5 DEF DueInv, InTurn
        <4>2. QED
          BY <2>1, <4>1 DEF Arriving
      <3>5. ASSUME NEW k \in Positions(outgoing), outgoing[k].number = packet PROVE FALSE
        <4>1. p.number < packet
          BY <2>1, <3>5 DEF OrderInv
        <4>2. QED
          BY <2>2, <3>2, <4>1
      <3>6. ASSUME NEW q \in incoming, q.number = packet PROVE FALSE
        <4>1. p.number <= packet
          BY <3>4, <3>6
        <4>2. QED
          BY <2>2, <3>2, <4>1
      <3>7. QED
        BY <3>3, <3>5, <3>6 DEF Due
    <2>6. QED
      BY <2>2, <2>3, <2>4, <2>5 DEF DueInv
  <1>3. QED
    BY <1>1, <1>2

\* What a step does to the responses: nothing, ...
Settling ==  \* the place, from one where a request is sent that is not reserved
  /\ pc' \in {"closing", "setting"} => pc' = pc /\ UNCHANGED <<CloseRequest, PropertiesRequest>>
  /\ \A n : Loose(n)' => Loose(n)
Rests ==
  /\ UNCHANGED <<packetVars, FRequests, call>> /\ call = NULL
  /\ Settling /\ \A n : Loose(n) => Loose(n)'
  /\ FRequests # <<>> => pc' \in Queued

\* ... receiving the one that is waited for, ...
Takes(packet) ==
  /\ packet \in Nat \ {NULL}
  /\ \E p \in Acceptable(packet) : p.number = packet /\ Accept(packet, p)
  /\ UNCHANGED <<FMessageCounter, outgoing>>
TakesCall ==
  /\ Takes(call) /\ call' = NULL
  /\ FRequests = <<>> /\ FRequests' = FRequests
  /\ Settling /\ \A n : ~Loose(n)
TakesOwn ==
  /\ \/ pc = "close" /\ Takes(CloseRequest) /\ \A n : Loose(n) => n = CloseRequest
     \/ pc = "properties" /\ Takes(PropertiesRequest) /\ \A n : ~Loose(n)
  /\ UNCHANGED <<call, FRequests>> /\ call = NULL /\ FRequests = <<>>
  /\ Settling
LeavesQueue ==
  /\ call = NULL /\ call' = NULL /\ FRequests # <<>> /\ FRequests' = Tail(FRequests) /\ pc' \in Queued
  /\ Settling /\ \A n : Loose(n) => Loose(n)'
TakesWrite == Takes(Head(FRequests)) /\ LeavesQueue

\* ... destroying a packet, losing the connection, ...
Throws ==
  /\ UnreserveResponse(Head(FRequests)) /\ LeavesQueue
  /\ UNCHANGED <<FMessageCounter, outgoing, incoming>>
Unreserves ==
  /\ \E packet : UnreserveResponse(packet)
  /\ UNCHANGED <<FMessageCounter, outgoing, incoming, call, FRequests>>
  /\ call = NULL /\ FRequests = <<>> /\ pc \in {"leave", "unwind"} /\ pc' \in {"idle", "unwind"}
Loses ==
  /\ outgoing' = <<>> /\ incoming' = {} /\ FRequests' = <<>> /\ call' = NULL
  /\ UNCHANGED <<FMessageCounter, FPacketReservations, FPacketNumbers, stored>>
  /\ pc' \in {"over", "unwind"}

\* ... sending the close when the transfer was interrupted, or one of the
\* actions that stand for themselves.
SendsClose ==
  /\ pc = "dispose" /\ RemoteFileHandle /\ pc' = "close" /\ call = NULL /\ FRequests = <<>>
  /\ UNCHANGED <<incoming, stored, call, FRequests>>
  /\ SendPacket("close", RemoteFile, 0) /\ ReserveResponse(NextNumber) /\ CloseRequest' = NextNumber

\* The place outside of the queue has no requests of it.
LEMMA OutsideQueue ==
  ASSUME QueueInv, DueInv
  PROVE  /\ pc \notin Queued => FRequests = <<>>
         /\ pc \notin DOMAIN Calls => call = NULL
  BY DEF QueueInv, DueInv

\* The queue waits for the response to its oldest request, and receives it ...
LEMMA OwnBlock ==
  ASSUME RequestsOK, ResponsesOK, UploadTypeOK, NumbersOK, OrderInv, DueInv, QueueInv,
         pc \in Sending \union {"dispose"}, FRequests # <<>>
  PROVE  /\ Awaited = Head(FRequests) /\ Awaited \in Nat \ {NULL} /\ Awaited \in Elements(FRequests)
         /\ call = NULL
         /\ \A p \in Acceptable(Awaited) : p.number = Awaited
  <1>1. Awaited = Head(FRequests)
    <2>1. pc \notin {"close", "properties"} /\ pc \notin DOMAIN Calls
      BY CallFacts DEF Sending
    <2>2. QED
      BY <2>1, ZenonT(30) DEF Awaited
  <1>2. Head(FRequests) \in Elements(FRequests)
    BY QueueFacts
  <1>3. Head(FRequests) \in Nat \ {NULL}
    BY <1>2, Fresh DEF QueueInv, NULL
  <1>4. call = NULL
    BY CallFacts, OutsideQueue DEF Sending
  <1>5. \A p \in Acceptable(Awaited) : p.number = Awaited
    BY <1>1, <1>2, <1>3, <1>4, OwnReceipt
  <1>6. QED
    BY <1>1, <1>2, <1>3, <1>4, <1>5

\* ... which is no refusal as long as the server has not refused a block.
LEMMA NeverRefused ==
  ASSUME RequestsOK, ResponsesOK, UploadTypeOK, NumbersOK, OrderInv, DueInv, QueueInv, ~holed,
         pc \in Sending \union {"dispose"}, FRequests # <<>>, NEW p \in Acceptable(Awaited)
  PROVE  p.ok
  <1>1. Awaited \in Elements(FRequests) /\ p.number = Awaited
    BY OwnBlock
  <1>2. Confirmed(Awaited)
    BY <1>1 DEF QueueInv
  <1>3. p \in incoming \/ \E s \in stored : s.packet = Awaited /\ p = s.response
    BY DEF Acceptable, Arriving, Stored
  <1>4. QED
    BY <1>1, <1>2, <1>3 DEF Confirmed

\* Where nothing is loose.
LEMMA NothingLoose ==
  /\ pc \in DOMAIN Calls \union {"continue", "writing", "properties", "leave", "unwind", "lost", "over"} => \A n : ~Loose(n)
  /\ \A n : Loose(n) /\ pc = "close" => n = CloseRequest
  BY CallFacts DEF Loose, Ending

\* What an exception from the receive handler does to the close that is not
\* reserved yet: nothing.
LEMMA ThrownPlace ==
  ASSUME CloseInv, pc \in Sending, SendPacketThrows, UNCHANGED <<CloseRequest, PropertiesRequest>>, ~orphaned'
  PROVE  pc' \in Queued /\ Settling /\ \A n : Loose(n) => Loose(n)'
  <1>1. pc = "writing" => RemoteFileHandle
    BY DEF CloseInv
  <1>2. CASE pc = "writing"
    <2>1. pc' = "dispose" /\ RemoteFileHandle'
      BY <1>1, <1>2 DEF SendPacketThrows
    <2>2. ~Ending /\ ~Ending' /\ pc' # "setting"
      BY <1>2, <2>1 DEF Ending
    <2>3. (\A n : ~Loose(n)) /\ \A n : ~Loose(n)'
      BY <1>2, <2>2 DEF Loose
    <2>4. QED
      BY <2>1, <2>3 DEF Settling, Queued
  <1>3. CASE pc = "closing"
    <2>1. pc' \in {"set", "dispose"} /\ ~RemoteFileHandle'
      BY <1>3 DEF SendPacketThrows, AfterClose
    <2>2. Ending /\ Ending'
      BY <1>3, <2>1 DEF Ending
    <2>3. \A n : Loose(n)' <=> Loose(n)
      BY <1>3, <2>1, <2>2 DEF Loose
    <2>4. QED
      BY <2>1, <2>3 DEF Settling, Queued
  <1>4. pc # "setting"
    BY DEF SendPacketThrows
  <1>5. QED
    BY <1>2, <1>3, <1>4 DEF Sending

\* Every step is one of these.
LEMMA PacketShape ==
  ASSUME RequestsOK, ResponsesOK, UploadTypeOK, EarlyInv, CloseInv, ShutInv, PendingInv, EndInv, Next,
         ~orphaned'
  PROVE  \/ Rests \/ TakesCall \/ TakesOwn \/ TakesWrite \/ Throws \/ Unreserves \/ Loses \/ SendsClose
         \/ SendCall \/ Continue \/ SendClose \/ SendProperties \/ CloseSent \/ PropertiesSent
         \/ Stores \/ Serve \/ Reopen
  <1> USE DEF PendingInv
  <1>0. /\ pc \notin Queued => FRequests = <<>>
        /\ pc \notin DOMAIN Calls => call = NULL
    BY OutsideQueue
  <1>1. ASSUME Returns(pc, "ok") \/ Returns(pc, "refused") \/ Opened, pc \in DOMAIN Calls
        PROVE  Takes(call) /\ call' = NULL /\ FRequests' = FRequests
    <2>1. /\ call # NULL /\ call' = NULL /\ \E p \in Acceptable(call) : Accept(call, p)
          /\ UNCHANGED <<FMessageCounter, outgoing, FRequests>>
      BY <1>1 DEF Returns, Opened
    <2>2. call \in Nat \ {NULL} /\ \A n : ~Loose(n)
      BY <1>1, <2>1, NothingLoose DEF UploadTypeOK
    <2>3. \A p \in Acceptable(call) : p.number = call
      BY <2>2, OwnReceipt
    <2>4. QED
      BY <2>1, <2>2, <2>3 DEF Takes
  <1>2. ASSUME \/ Checked \/ Discarded \/ NotOpened \/ Erased \/ Undone \/ Removed \/ Renamed \/ Touched \/ KeptAlive \/ Opened
        PROVE  TakesCall
    <2>1. pc \in DOMAIN Calls /\ (Returns(pc, "ok") \/ Returns(pc, "refused") \/ Opened)
      BY <1>2, CallFacts DEF Checked, Discarded, NotOpened, Erased, Undone, Removed, Renamed,
         Touched,
         KeptAlive, Opened, Returns
    <2>2. pc' \in DOMAIN Calls \union {"continue", "leave", "over"}
      BY <1>2, <2>1, CallFacts DEF Checked, Discarded, NotOpened, Erased, Undone, Removed,
         Renamed, Touched, KeptAlive,
         Opened, Returns,
         RetriesOrFails, Goes, Fails
    <2>3. pc \notin Queued
      BY <2>1, CallFacts DEF Queued
    <2>4. \A n : ~Loose(n)
      BY <2>1, NothingLoose
    <2>5. ~Ending' /\ pc' \notin {"closing", "setting"}
      BY <2>2, CallFacts DEF Ending
    <2>6. \A n : ~Loose(n)'
      BY <2>5 DEF Loose
    <2>7. QED
      BY <1>0, <1>1, <2>1, <2>3, <2>4, <2>5, <2>6 DEF TakesCall, Settling
  <1>3. ASSUME Closed \/ CloseRefused \/ PropertiesSet PROVE TakesOwn
    <2> DEFINE packet == IF pc = "close" THEN CloseRequest ELSE PropertiesRequest
    <2>1. /\ pc \in {"close", "properties"}
          /\ \E p \in Acceptable(packet) : Accept(packet, p)
          /\ UNCHANGED <<FMessageCounter, outgoing, call, FRequests, CloseRequest>>
          /\ pc' \in {"remove", "rename", "properties", "leave", "undo", "touch"} \/ (pc = "close" /\ pc' = "close")
      BY <1>3 DEF Closed, CloseRefused, PropertiesSet, Receives, RetriesOrFails, Goes, Fails,
         AfterTransfer, requestVars,
         Finish, Resend
    <2>2. call = NULL /\ FRequests = <<>>
      BY <1>0, <2>1, CallFacts DEF Queued
    <2>3. packet \in Nat \ {NULL}
      BY <2>1, Fresh DEF ShutInv, EndInv, Ending, NULL
    <2>4. \A n : Loose(n) => pc = "close" /\ n = CloseRequest
      BY <2>1, NothingLoose
    <2>5. \A n : Loose(n)' => Loose(n)
      BY <2>1 DEF Loose, Ending
    <2>6. \A n : Loose(n) => n = packet
      BY <2>4
    <2> HIDE DEF packet
    <2>7. \A p \in Acceptable(packet) : p.number = packet
      BY <2>2, <2>3, <2>6, OwnReceipt
    <2>8. Takes(packet)
      BY <2>1, <2>3, <2>7 DEF Takes
    <2>9. Settling
      BY <2>1, <2>5 DEF Settling
    <2>10. QED
      BY <2>1, <2>2, <2>4, <2>8, <2>9 DEF TakesOwn, packet
  <1>4. ASSUME HandleWritten \/ HandleRefused \/ DisposeResponse \/ HandleThrows PROVE TakesWrite \/ Throws
    <2>1. /\ pc \in Sending \union {"dispose"} /\ FRequests # <<>> /\ FRequests' = Tail(FRequests)
          /\ UNCHANGED <<FMessageCounter, outgoing, call, CloseRequest, PropertiesRequest>>
      BY <1>4 DEF HandleWritten, HandleRefused, HandleThrows, Handles, DisposeResponse,
         requestVars
    <2>2. /\ Awaited = Head(FRequests) /\ Awaited \in Nat \ {NULL} /\ call = NULL
          /\ \A q \in Acceptable(Awaited) : q.number = Awaited
      BY <2>1, OwnBlock
    <2>3. pc' \in Queued /\ Settling /\ \A n : Loose(n) => Loose(n)'
      <3>1. CASE HandleWritten \/ DisposeResponse
        <4>1. UNCHANGED <<pc, RemoteFileHandle>> /\ pc \in Queued
          BY <2>1, <3>1 DEF HandleWritten, DisposeResponse, requestVars, Sending, Queued
        <4>2. \A n : Loose(n)' <=> Loose(n)
          BY <2>1, <4>1 DEF Loose, Ending
        <4>3. QED
          BY <2>1, <4>1, <4>2 DEF Settling
      <3>2. CASE HandleRefused \/ HandleThrows
        <4>1. pc \in Sending /\ SendPacketThrows
          BY <3>2 DEF HandleRefused, HandleThrows, Handles
        <4>2. QED
          BY <2>1, <4>1, ThrownPlace
      <3>3. QED
        BY <1>4, <3>1, <3>2
    <2>4. LeavesQueue
      BY <2>1, <2>2, <2>3 DEF LeavesQueue
    <2>5. CASE HandleThrows
      BY <2>2, <2>4, <2>5 DEF HandleThrows, Throws
    <2>6. CASE ~HandleThrows
      <3>1. PICK p \in Acceptable(Awaited) : Accept(Awaited, p)
        BY <1>4, <2>6 DEF HandleWritten, HandleRefused, Handles, DisposeResponse
      <3>2. QED
        BY <2>1, <2>2, <2>4, <3>1 DEF TakesWrite, Takes
    <2>7. QED
      BY <2>5, <2>6
  <1>5. ASSUME Drop \/ WrongNumber PROVE Loses
    BY <1>5 DEF Drop, WrongNumber, Lost, Loses, reservationVars
  <1>6. ASSUME Declined \/ Written \/ Interrupted \/ Unwound \/ GiveUp PROVE Rests
    <2>1. call = NULL
      BY <1>0, <1>6, CallFacts DEF Declined, Written, Interrupted, Unwound, GiveUp
    <2>2. /\ UNCHANGED <<packetVars, FRequests, call, RemoteFileHandle>>
          /\ pc \in {"open", "writing", "continue", "unwind", "lost"}
          /\ pc' \in {"leave", "continue", "dispose", "lost", "over"}
          /\ pc' = "dispose" => pc = "continue"
      BY <1>6 DEF Declined, Fails, Written, Interrupted, Unwound, GiveUp, requestVars
    <2>3. pc \in Queued => pc' \in Queued
      BY <1>6 DEF Declined, Fails, Written, Interrupted, Unwound, GiveUp, Queued
    <2>4. ~Ending /\ ~Ending' /\ pc # "setting" /\ pc' \notin {"closing", "setting"}
      BY <2>2 DEF Ending, CloseInv
    <2>5. (\A n : ~Loose(n)) /\ \A n : ~Loose(n)'
      BY <2>4 DEF Loose
    <2>6. QED
      BY <1>0, <2>1, <2>2, <2>3, <2>4, <2>5 DEF Rests, Settling
  <1>7. ASSUME Leave \/ Unwind PROVE Rests \/ Unreserves
    <2>1. /\ pc \in {"leave", "unwind"} /\ pc' \in {"idle", "unwind"}
          /\ UNCHANGED <<FMessageCounter, outgoing, incoming, call, FRequests>>
          /\ (\E packet : UnreserveResponse(packet)) \/ UNCHANGED <<FPacketReservations, FPacketNumbers, stored>>
      BY <1>7 DEF Leave, Unwind, requestVars, reservationVars
    <2>2. call = NULL /\ FRequests = <<>>
      BY <1>0, <2>1, CallFacts DEF Queued
    <2>3. (\A n : ~Loose(n)) /\ (\A n : ~Loose(n)') /\ pc' \notin {"closing", "setting"}
      BY <2>1 DEF Loose, Ending
    <2>4. QED
      BY <2>1, <2>2, <2>3 DEF Rests, Settling, Unreserves, packetVars
  <1>8. ASSUME Disposed PROVE Rests \/ SendsClose
    <2>1. /\ pc = "dispose" /\ pc' = "close" /\ FRequests = <<>> /\ call = NULL
          /\ UNCHANGED <<incoming, stored, call, FRequests>>
      BY <1>0, <1>8, CallFacts DEF Disposed, AfterDispose
    <2>2. CASE RemoteFileHandle
      BY <1>8, <2>1, <2>2 DEF Disposed, SendsClose
    <2>3. CASE ~RemoteFileHandle
      <3>1. UNCHANGED <<packetVars, FRequests, call, CloseRequest>>
        BY <1>8, <2>1, <2>3 DEF Disposed, packetVars, reservationVars
      <3>2. \A n : Loose(n)' <=> Loose(n)
        BY <2>1, <2>3, <3>1 DEF Loose, Ending
      <3>3. QED
        BY <2>1, <3>1, <3>2 DEF Rests, Settling
    <2>4. QED
      BY <2>2, <2>3
  <1>9. QED
    BY <1>2, <1>3, <1>4, <1>5, <1>6, <1>7, <1>8 DEF Next, Transfer

----------------------------------------------------------------------------
(* Every step keeps the responses in order                                 *)

\* A request sent comes behind the others.
LEMMA SentLast ==
  ASSUME RequestsOK, ResponsesOK, NumbersOK, OrderInv,
         NEW kind \in Kinds, NEW file \in Files, NEW block \in Nat,
         SendPacket(kind, file, block), UNCHANGED <<incoming, stored>>,
         FPacketNumbers' \in {FPacketNumbers, Append(FPacketNumbers, NextNumber)}
  PROVE  /\ NumbersOK' /\ OrderInv' /\ Due' = Due \union {NextNumber} /\ FMessageCounter' = NextNumber
         /\ \A k \in Positions(outgoing') :
              \/ k \in Positions(outgoing) /\ outgoing'[k] = outgoing[k]
              \/ /\ outgoing'[k].number = NextNumber /\ outgoing'[k].kind = kind
                 /\ outgoing'[k].file = file /\ outgoing'[k].block = block
  <1>1. FMessageCounter \in Nat /\ NextNumber = FMessageCounter + 1 /\ \A n \in Due : n \in 1..FMessageCounter
    BY Fresh
  <1>2. [number |-> NextNumber, kind |-> kind, file |-> file, block |-> block] \in Request
    BY <1>1 DEF Request
  <1>3. NumbersOK' /\ Due' = Due \union {NextNumber}
    BY <1>2, SendNumbers
  <1> DEFINE n == Len(outgoing)
  <1>4. /\ n \in Nat /\ Len(outgoing') = n + 1
        /\ \A k \in 1..n : outgoing'[k] = outgoing[k]
        /\ outgoing'[n + 1].number = NextNumber /\ outgoing'[n + 1].kind = kind
        /\ outgoing'[n + 1].file = file /\ outgoing'[n + 1].block = block
    BY SendFacts
  <1>5. Positions(outgoing) = 1..n /\ Positions(outgoing') = 1..(n + 1)
    BY <1>4 DEF Positions
  <1> HIDE DEF n
  <1>6. \A k \in 1..(n + 1) : k \in 1..n \/ k = n + 1
    BY <1>4
  <1>7. /\ \A k \in 1..n : outgoing[k].number \in Due
        /\ \A p \in incoming : p.number \in Due
    BY <1>5 DEF Due
  <1>8. ASSUME NEW p \in incoming, NEW k \in 1..(n + 1) PROVE p.number < outgoing'[k].number
    <2>1. p.number < NextNumber
      BY <1>1, <1>7
    <2>2. k \in 1..n => p.number < outgoing[k].number
      BY <1>5 DEF OrderInv
    <2>3. QED
      BY <1>4, <1>6, <2>1, <2>2
  <1>9. ASSUME NEW j \in 1..(n + 1), NEW k \in 1..(n + 1), j < k PROVE outgoing'[j].number < outgoing'[k].number
    <2>1. j \in 1..n
      BY <1>4, <1>9
    <2>2. outgoing'[j] = outgoing[j] /\ outgoing[j].number < NextNumber
      BY <1>1, <1>4, <1>7, <2>1
    <2>3. k \in 1..n => outgoing[j].number < outgoing[k].number
      BY <1>5, <1>9, <2>1 DEF OrderInv
    <2>4. QED
      BY <1>4, <1>6, <2>2, <2>3
  <1>10. OrderInv'
    BY <1>5, <1>8, <1>9 DEF OrderInv
  <1>11. FMessageCounter' = NextNumber
    BY DEF SendPacket
  <1>12. QED
    BY <1>3, <1>4, <1>5, <1>6, <1>10, <1>11

\* The queue is not concerned by what others send or receive.
LEMMA QueueKept ==
  ASSUME QueueInv, ~holed' => ~holed,
         FMessageCounter \in Nat, FMessageCounter' \in Nat, FMessageCounter' >= FMessageCounter,
         Distinct(FRequests'), Elements(FRequests)' \subseteq Elements(FRequests),
         FRequests' # <<>> => pc' \in Queued,
         \A k \in Positions(outgoing') :
           \/ \E j \in Positions(outgoing) : outgoing'[k] = outgoing[j]
           \/ outgoing'[k].number = NextNumber,
         \A n \in 1..FMessageCounter : n # NextNumber,
         incoming' \subseteq incoming,
         \A n \in Elements(FRequests)' :
           /\ IsReserved(n)'
           /\ n \in Due' \/ \E s \in stored' : s.packet = n
           /\ ~holed => \A s \in stored' : s.packet = n => s \in stored \/ s.response.ok
  PROVE  QueueInv'
  <1>1. ASSUME NEW n \in Elements(FRequests)'
        PROVE  n \in 1..FMessageCounter' /\ (~holed' => Confirmed(n)')
    <2>1. n \in 1..FMessageCounter /\ (~holed => Confirmed(n))
      BY <1>1 DEF QueueInv
    <2>2. n \in 1..FMessageCounter'
      BY <2>1
    <2>3. ASSUME ~holed' PROVE Confirmed(n)'
      <3>1. ~holed /\ Confirmed(n)
        BY <2>1, <2>3
      <3>2. \A k \in Positions(outgoing') : outgoing'[k].number = n => outgoing'[k].kind = "write"
        BY <2>1, <3>1 DEF Confirmed
      <3>3. \A p \in incoming' : p.number = n => p.ok
        BY <3>1 DEF Confirmed
      <3>4. \A s \in stored' : s.packet = n => s.response.ok
        BY <1>1, <3>1 DEF Confirmed
      <3>5. QED
        BY <3>2, <3>3, <3>4 DEF Confirmed
    <2>4. QED
      BY <2>2, <2>3
  <1>2. QED
    BY <1>1 DEF QueueInv

\* Nor are the others by what brings no new request.
LEMMA DueKept ==
  ASSUME DueInv, Settling, UNCHANGED FMessageCounter,
         call' # NULL => call' = call /\ pc' = pc,
         \A n \in Due' : n \in Due /\ (n = call => n = call') /\ (Noted(n) => Noted(n)'),
         Distinct(FPacketNumbers'),
         \A n : Noted(n)' => Noted(n) \/ (pc' \notin {"closing", "setting"} /\ call' = NULL),
         \A n \in Due' : Loose(n) => Loose(n)' \/ Noted(n)',
         \A n \in Elements(FRequests)' : n \in Elements(FRequests),
         \A p \in incoming' : \/ p \in incoming
                              \/ \E k \in Positions(outgoing) : /\ outgoing[k].number = p.number
                                                                /\ outgoing[k].kind = p.kind,
         \A k \in Positions(outgoing') : \E j \in Positions(outgoing) : outgoing'[k] = outgoing[j]
  PROVE  DueInv'
  <1>1. \A n \in Due' : Noted(n)' \/ n = call' \/ Loose(n)'
    BY DEF DueInv
  <1>2. call' # NULL => pc' \in DOMAIN Calls /\ call' <= FMessageCounter' /\ ~Contains(FPacketNumbers', call')
    BY DEF DueInv, Noted
  <1>3. ASSUME NEW n \in Nat, Loose(n)' PROVE InTurn(n)' /\ \A m \in Elements(FRequests)' : m < n
    <2>1. Loose(n)
      BY <1>3 DEF Settling
    <2>2. InTurn(n) /\ \A m \in Elements(FRequests)' : m < n
      BY <2>1 DEF DueInv
    <2>3. \A p \in incoming' : p.number = n => p.kind \notin Overtaking
      BY <2>2 DEF InTurn
    <2>4. \A k \in Positions(outgoing') : outgoing'[k].number = n => outgoing'[k].kind \notin Overtaking
      BY <2>2 DEF InTurn
    <2>5. QED
      BY <2>2, <2>3, <2>4 DEF InTurn
  <1>4. /\ pc' = "closing" => ~Contains(FPacketNumbers', CloseRequest')
        /\ pc' = "setting" => ~Contains(FPacketNumbers', PropertiesRequest')
    BY DEF DueInv, Settling, Noted
  <1>5. Calls' = Calls
    BY DEF Calls
  <1>6. QED
    BY <1>1, <1>2, <1>3, <1>4, <1>5 DEF DueInv, Noted

\* What receiving does to the others' numbers.
LEMMA TakesFacts ==
  ASSUME ResponsesOK, NumbersOK, OrderInv, DueInv, NEW packet, Takes(packet)
  PROVE  /\ NumbersOK' /\ OrderInv' /\ Distinct(FPacketNumbers')
         /\ Due' = Due \ {packet}
         /\ \A n \in Due' : Noted(n) => Noted(n)'
         /\ \A n : Noted(n)' => Noted(n)
         /\ \A x : IsReserved(x) /\ x # packet => IsReserved(x)'
         /\ incoming' \subseteq incoming /\ stored' \subseteq stored
         /\ \A s \in stored : s.packet # packet => s \in stored'
         /\ UNCHANGED <<FMessageCounter, outgoing>>
  <1>1. PICK p \in Acceptable(packet) : p.number = packet /\ Accept(packet, p)
    BY DEF Takes
  <1>2. /\ NumbersOK' /\ Due' \subseteq Due \ {packet}
        /\ \A n \in Due' : Noted(n) => Noted(n)'
        /\ \A x : IsReserved(x) /\ x # packet => IsReserved(x)'
    BY <1>1, AcceptNumbers DEF Takes
  <1>3. /\ incoming' = incoming \ {p} /\ stored' = stored \ Stored(packet)
        /\ UNCHANGED <<FMessageCounter, outgoing>>
    BY <1>1 DEF Takes, Accept
  <1>4. \A s \in stored : s.packet # packet => s \in stored'
    BY <1>3 DEF Stored
  <1>5. \A n \in Due : n # packet => n \in Due'
    BY <1>1, <1>3 DEF Due
  <1>6. OrderInv'
    BY <1>3 DEF OrderInv
  <1>7. Distinct(FPacketNumbers') /\ \A n : Noted(n)' => Noted(n)
    <2>1. CASE IsReserved(packet)
      <3>1. Reservation(packet) \in Positions(FPacketReservations)
        BY <2>1, IndexOfFacts DEF IsReserved, Reservation
      <3>2. /\ Reservation(packet) \in Positions(FPacketNumbers) /\ FPacketNumbers \in Seq(Nat)
            /\ FPacketNumbers' = DeleteAt(FPacketNumbers, Reservation(packet))
        BY <1>1, <2>1, <3>1 DEF ResponsesOK, Accept, RemoveReservation, Positions
      <3>3. QED
        BY <3>2, DeleteAtElements DEF DueInv, Noted
    <2>2. CASE ~IsReserved(packet)
      BY <1>1, <2>2 DEF Accept, reservationVars, DueInv, Noted
    <2>3. QED
      BY <2>1, <2>2
  <1>8. QED
    BY <1>2, <1>3, <1>4, <1>5, <1>6, <1>7

\* Receiving one's response leaves all that is said of the others.
LEMMA TakesStep ==
  ASSUME RequestsOK, ResponsesOK, UploadTypeOK, PendingInv, ~holed' => ~holed,
         TakesCall \/ TakesOwn \/ TakesWrite
  PROVE  PendingInv'
  <1> USE DEF PendingInv
  <1> DEFINE packet == IF TakesCall THEN call ELSE IF TakesWrite THEN Head(FRequests)
                       ELSE IF pc = "close" THEN CloseRequest ELSE PropertiesRequest
  <1>1. Takes(packet)
    BY DEF TakesCall, TakesOwn, TakesWrite
  <1>2. /\ call' = NULL
        /\ call \in {NULL, packet}
        /\ TakesWrite \/ (FRequests = <<>> /\ FRequests' = FRequests)
        /\ TakesWrite => packet = Head(FRequests) /\ call = NULL
        /\ Settling
        /\ \A n : Loose(n) => n = packet \/ Loose(n)'
    BY CallFacts DEF TakesCall, TakesOwn, TakesWrite, LeavesQueue
  <1> HIDE DEF packet
  <1>3. /\ NumbersOK' /\ OrderInv' /\ Distinct(FPacketNumbers')
        /\ Due' = Due \ {packet}
        /\ \A n \in Due' : Noted(n) => Noted(n)'
        /\ \A n : Noted(n)' => Noted(n)
        /\ \A x : IsReserved(x) /\ x # packet => IsReserved(x)'
        /\ incoming' \subseteq incoming /\ stored' \subseteq stored
        /\ \A s \in stored : s.packet # packet => s \in stored'
        /\ UNCHANGED <<FMessageCounter, outgoing>>
    BY <1>1, TakesFacts
  <1>4. FMessageCounter \in Nat /\ NextNumber = FMessageCounter + 1 /\ NULL \notin Due
    BY Fresh DEF NULL
  <1>5. /\ Distinct(FRequests') /\ (FRequests' # <<>> => pc' \in Queued)
        /\ \A n \in Elements(FRequests)' : n \in Elements(FRequests) /\ n # packet
    <2>1. CASE TakesWrite
      <3>1. /\ FRequests' = Tail(FRequests) /\ packet = Head(FRequests) /\ pc' \in Queued
            /\ FRequests # <<>>
        BY <1>2, <2>1 DEF TakesWrite, LeavesQueue
      <3>2. QED
        BY <3>1, QueueFacts
    <2>2. CASE FRequests = <<>> /\ FRequests' = FRequests
      BY <2>2 DEF Elements, Positions, QueueInv
    <2>3. QED
      BY <1>2, <2>1, <2>2
  <1>6. DueInv'
    <2>1. \A n \in Due' : n \in Due /\ (n = call => n = call') /\ (Noted(n) => Noted(n)')
      BY <1>2, <1>3, <1>4
    <2>2. \A n \in Due' : Loose(n) => Loose(n)' \/ Noted(n)'
      BY <1>2, <1>3
    <2>3. \A k \in Positions(outgoing') : \E j \in Positions(outgoing) : outgoing'[k] = outgoing[j]
      BY <1>3
    <2>4. QED
      BY <1>2, <1>3, <1>5, <2>1, <2>2, <2>3, DueKept
  <1>7. QueueInv'
    <2>2. ASSUME NEW n \in Elements(FRequests)'
          PROVE  /\ IsReserved(n)'
                 /\ n \in Due' \/ \E s \in stored' : s.packet = n
                 /\ \A s \in stored' : s.packet = n => s \in stored \/ s.response.ok
      BY <1>3, <1>5, <2>2 DEF QueueInv
    <2>3. /\ \A n \in 1..FMessageCounter : n # NextNumber
          /\ FMessageCounter' \in Nat /\ FMessageCounter' >= FMessageCounter
      BY <1>3, <1>4
    <2>4. \A k \in Positions(outgoing') : \E j \in Positions(outgoing) : outgoing'[k] = outgoing[j]
      BY <1>3
    <2>5. QED
      BY <1>3, <1>4, <1>5, <2>2, <2>3, <2>4, QueueKept
  <1>8. CallInv'
    <2>1. \A k \in Positions(outgoing) : outgoing[k].number \in Due \ {packet} /\ outgoing[k].number # NULL
      <3>1. \A k \in Positions(outgoing) : outgoing[k].number \in Due'
        BY <1>3 DEF Due
      <3>2. QED
        BY <1>3, <1>4, <3>1
    <2>2. \A k \in Positions(outgoing) : outgoing[k].number # call
      BY <1>2, <2>1
    <2>3. QED
      BY <1>2, <1>3, <2>1, <2>2 DEF CallInv
  <1>9. QED
    BY <1>3, <1>6, <1>7, <1>8

\* Nothing is said of a call where none is made.
LEMMA NoCall ==
  ASSUME CallInv, call = NULL, call' = NULL,
         \A k \in Positions(outgoing) : outgoing[k].number # NULL,
         \A k \in Positions(outgoing') :
           \/ \E j \in Positions(outgoing) : outgoing'[k] = outgoing[j]
           \/ outgoing'[k].number # NULL /\ outgoing'[k].kind \in {"write", "close", "setstat"}
  PROVE  CallInv'
  BY DEF CallInv

\* No request has the number of nothing.
LEMMA Numbered ==
  ASSUME RequestsOK, ResponsesOK, NumbersOK
  PROVE  /\ \A k \in Positions(outgoing) : outgoing[k].number \in Due /\ outgoing[k].number # NULL
         /\ \A p \in incoming : p.number \in Due
         /\ NULL \notin Due
  <1>1. /\ \A k \in Positions(outgoing) : outgoing[k].number \in Due
        /\ \A p \in incoming : p.number \in Due
    BY DEF Due
  <1>2. QED
    BY <1>1, Fresh DEF NULL

\* Steps that have nothing to do with requests and responses.
LEMMA RestsStep ==
  ASSUME RequestsOK, ResponsesOK, UploadTypeOK, PendingInv, ~holed' => ~holed, Rests
  PROVE  PendingInv'
  <1> USE DEF PendingInv
  <1>1. /\ UNCHANGED <<FMessageCounter, outgoing, incoming, FPacketReservations, FPacketNumbers, stored>>
        /\ UNCHANGED FRequests /\ call = NULL /\ call' = NULL
        /\ Settling /\ \A n : Loose(n) => Loose(n)'
        /\ FRequests # <<>> => pc' \in Queued
    BY DEF Rests, packetVars
  <1>2. NumbersOK' /\ OrderInv' /\ Due' = Due /\ \A n : Noted(n)' <=> Noted(n)
    BY <1>1 DEF NumbersOK, OrderInv, Due, Positions, Noted
  <1>3. Elements(FRequests)' = Elements(FRequests)
    BY <1>1 DEF Elements
  <1>4. DueInv'
    <2>1. \A k \in Positions(outgoing') : \E j \in Positions(outgoing) : outgoing'[k] = outgoing[j]
      BY <1>1
    <2>2. Distinct(FPacketNumbers')
      BY <1>1 DEF DueInv
    <2>3. QED
      BY <1>1, <1>2, <1>3, <2>1, <2>2, DueKept
  <1>5. FMessageCounter \in Nat /\ \A n \in 1..FMessageCounter : n # NextNumber
    BY Fresh
  <1>6. QueueInv'
    <2>1. Distinct(FRequests')
      BY <1>1 DEF QueueInv
    <2>2. \A n \in Elements(FRequests)' :
            /\ IsReserved(n)'
            /\ n \in Due' \/ \E s \in stored' : s.packet = n
            /\ \A s \in stored' : s.packet = n => s \in stored \/ s.response.ok
      BY <1>1, <1>2, <1>3 DEF QueueInv, IsReserved
    <2>3. QED
      BY <1>1, <1>3, <1>5, <2>1, <2>2, QueueKept
  <1>7. CallInv'
    BY <1>1, NoCall, Numbered
  <1>8. QED
    BY <1>2, <1>4, <1>6, <1>7

\* A connection that is lost has no more responses to give ...
LEMMA LosesStep ==
  ASSUME RequestsOK, ResponsesOK, UploadTypeOK, PendingInv, Loses
  PROVE  PendingInv'
  <1> USE DEF PendingInv, Loses
  <1>1. Positions(outgoing') = {} /\ Positions(FRequests') = {} /\ incoming' = {}
    BY DEF Positions
  <1>2. Due' = {}
    BY <1>1 DEF Due
  <1>3. NumbersOK'
    BY <1>1, <1>2 DEF NumbersOK
  <1>4. OrderInv' /\ CallInv'
    BY <1>1 DEF OrderInv, CallInv
  <1>5. DueInv'
    <2>1. \A n : ~Loose(n)'
      BY DEF Loose, Ending
    <2>2. QED
      BY <1>2, <2>1 DEF DueInv
  <1>6. QueueInv'
    BY <1>1 DEF QueueInv, Elements, Distinct
  <1>7. QED
    BY <1>3, <1>4, <1>5, <1>6

\* ... and one that is opened again has none yet, whatever was left of the last.
LEMMA ReopenStep ==
  ASSUME ShutInv, Reopen
  PROVE  PendingInv'
  <1> USE DEF PendingInv
  <1>1. /\ FMessageCounter' = 0 /\ outgoing' = <<>> /\ incoming' = {}
        /\ FPacketReservations' = <<>> /\ FPacketNumbers' = <<>> /\ stored' = {}
        /\ pc = "lost" /\ pc' \in {"check", "open"} /\ UNCHANGED <<FRequests, call>>
    BY DEF Reopen, ResetConnection, FirstStep
  <1>2. FRequests' = <<>> /\ call' = NULL
    BY <1>1, CallFacts DEF Queued, ShutInv
  <1>3. Positions(outgoing') = {} /\ Positions(FRequests') = {} /\ Positions(FPacketNumbers') = {}
    BY <1>1, <1>2 DEF Positions
  <1>4. Due' = {}
    BY <1>1, <1>3 DEF Due
  <1>5. NumbersOK'
    BY <1>1, <1>3, <1>4 DEF NumbersOK
  <1>6. OrderInv' /\ CallInv'
    BY <1>1, <1>3 DEF OrderInv, CallInv
  <1>7. DueInv'
    <2>1. \A n : ~Loose(n)'
      BY <1>1 DEF Loose, Ending
    <2>2. QED
      BY <1>1, <1>2, <1>3, <1>4, <2>1 DEF DueInv, Distinct
  <1>8. QueueInv'
    BY <1>2, <1>3 DEF QueueInv, Elements, Distinct
  <1>9. QED
    BY <1>5, <1>6, <1>7, <1>8

\* A packet that is destroyed leaves the number of a response that is to come ...
LEMMA UnreservedNumbers ==
  ASSUME RequestsOK, ResponsesOK, NumbersOK, OrderInv, NEW packet, UnreserveResponse(packet),
         UNCHANGED <<FMessageCounter, outgoing, incoming>>
  PROVE  /\ NumbersOK' /\ OrderInv' /\ Due' = Due
         /\ \A n \in Due : Noted(n) => Contains(FPacketNumbers', n)
         /\ \A n : Contains(FPacketNumbers', n) => Noted(n)
         /\ \A x : IsReserved(x) /\ x # packet => IsReserved(x)'
         /\ Distinct(FPacketNumbers) => Distinct(FPacketNumbers')
  <1>1. /\ \A n \in Due : Noted(n) => Contains(FPacketNumbers', n)
        /\ \A k \in Positions(FPacketNumbers') :
             \E j \in Positions(FPacketNumbers) : FPacketNumbers'[k] = FPacketNumbers[j]
        /\ \A x : IsReserved(x) /\ x # packet => IsReserved(x)'
        /\ Distinct(FPacketNumbers) => Distinct(FPacketNumbers')
    <2>0. IsReserved(packet) =>
            /\ Reservation(packet) \in Positions(FPacketReservations)
            /\ FPacketReservations[Reservation(packet)] = packet
      BY IndexOfFacts DEF IsReserved, Reservation
    <2>1. CASE IsReserved(packet) /\ Stored(packet) # {}
      <3>1. RemoveReservation(Reservation(packet))
        BY <2>1 DEF UnreserveResponse
      <3>2. PICK s \in stored : s.packet = packet
        BY <2>1 DEF Stored
      <3>3. packet # NULL /\ packet \notin Due
        BY <3>2, Fresh
      <3>4. /\ Reservation(packet) \in Positions(FPacketReservations)
            /\ FPacketReservations[Reservation(packet)] = packet
        BY <2>0, <2>1
      <3>5. FPacketNumbers[Reservation(packet)] = packet
        BY <3>3, <3>4 DEF ResponsesOK, StoredInOwnPacket
      <3>6. /\ \A j \in Positions(FPacketNumbers') : \E i \in Positions(FPacketNumbers) :
                 FPacketNumbers'[j] = FPacketNumbers[i]
            /\ \A n : Noted(n) /\ n # FPacketNumbers[Reservation(packet)] => Noted(n)'
            /\ \A x : IsReserved(x) /\ x # packet => IsReserved(x)'
        BY <3>1, <3>4, RemovalNumbers
      <3>7. /\ Reservation(packet) \in Positions(FPacketNumbers) /\ FPacketNumbers \in Seq(Nat)
            /\ FPacketNumbers' = DeleteAt(FPacketNumbers, Reservation(packet))
        BY <3>1, <3>4 DEF ResponsesOK, RemoveReservation, Positions
      <3>8. Distinct(FPacketNumbers) => Distinct(FPacketNumbers')
        BY <3>7, DeleteAtElements
      <3>9. QED
        BY <3>3, <3>5, <3>6, <3>8 DEF Noted
    <2>2. CASE ~(IsReserved(packet) /\ Stored(packet) # {})
      <3>1. FPacketNumbers' = FPacketNumbers
        BY <2>2 DEF UnreserveResponse, reservationVars
      <3>2. ASSUME NEW x, IsReserved(x), x # packet PROVE IsReserved(x)'
        <4>1. CASE IsReserved(packet)
          <5>1. FPacketReservations' = [FPacketReservations EXCEPT ![Reservation(packet)] = NULL]
            BY <2>2, <4>1 DEF UnreserveResponse
          <5>2. FPacketReservations \in Seq(Nat)
            BY DEF ResponsesOK
          <5>3. PICK j \in Positions(FPacketReservations) : FPacketReservations[j] = x
            BY <3>2 DEF IsReserved, Contains
          <5>4. j # Reservation(packet)
            BY <2>0, <3>2, <4>1, <5>3
          <5>5. j \in Positions(FPacketReservations') /\ FPacketReservations'[j] = x
            BY <5>1, <5>2, <5>3, <5>4 DEF Positions
          <5>6. QED
            BY <5>5 DEF IsReserved, Contains
        <4>2. CASE ~IsReserved(packet)
          BY <3>2, <4>2 DEF UnreserveResponse, reservationVars, IsReserved
        <4>3. QED
          BY <4>1, <4>2
      <3>3. QED
        BY <3>1, <3>2 DEF Noted
    <2>3. QED
      BY <2>1, <2>2
  <1>2. stored' \subseteq stored
    BY DEF UnreserveResponse
  <1>3. NumbersOK'
    BY <1>1, <1>2, FewerNumbers
  <1>4. OrderInv' /\ Due' = Due
    BY DEF OrderInv, Due
  <1>5. \A n : Contains(FPacketNumbers', n) => Noted(n)
    BY <1>1 DEF Noted, Contains
  <1>6. QED
    BY <1>1, <1>3, <1>4, <1>5

\* ... and nothing else changes, ...
LEMMA UnreservesStep ==
  ASSUME RequestsOK, ResponsesOK, UploadTypeOK, PendingInv, Unreserves
  PROVE  PendingInv'
  <1> USE DEF PendingInv
  <1>1. PICK packet : UnreserveResponse(packet)
    BY DEF Unreserves
  <1>2. /\ UNCHANGED <<FMessageCounter, outgoing, incoming>>
        /\ call = NULL /\ call' = NULL /\ FRequests' = <<>>
        /\ pc' \notin {"closing", "setting"} /\ Elements(FRequests)' = {}
        /\ \A n : ~Loose(n) /\ ~Loose(n)'
    BY DEF Unreserves, Loose, Ending, Elements, Positions
  <1>3. /\ NumbersOK' /\ OrderInv' /\ Due' = Due
        /\ \A n \in Due : Noted(n) => Noted(n)'
        /\ Distinct(FPacketNumbers')
    BY <1>1, <1>2, UnreservedNumbers DEF DueInv, Noted
  <1>4. DueInv'
    <2>1. \A n \in Due' : n \in Due /\ (n = call => n = call') /\ (Noted(n) => Noted(n)')
      BY <1>2, <1>3
    <2>2. \A k \in Positions(outgoing') : \E j \in Positions(outgoing) : outgoing'[k] = outgoing[j]
      BY <1>2
    <2>3. QED
      BY <1>2, <1>3, <2>1, <2>2, DueKept DEF Settling
  <1>5. QueueInv'
    BY <1>2 DEF QueueInv, Elements, Distinct, Positions
  <1>6. CallInv'
    BY <1>2, NoCall, Numbered
  <1>7. QED
    BY <1>3, <1>4, <1>5, <1>6

\* ... also when it is one of the queue.
LEMMA ThrowsStep ==
  ASSUME RequestsOK, ResponsesOK, UploadTypeOK, PendingInv, ~holed' => ~holed, Throws
  PROVE  PendingInv'
  <1> USE DEF PendingInv
  <1> DEFINE packet == Head(FRequests)
  <1>1. /\ UnreserveResponse(packet) /\ UNCHANGED <<FMessageCounter, outgoing, incoming>>
        /\ call = NULL /\ call' = NULL /\ pc' \in Queued
        /\ FRequests # <<>> /\ FRequests' = Tail(FRequests)
        /\ Settling /\ \A n : Loose(n) => Loose(n)'
    BY DEF Throws, LeavesQueue
  <1>2. /\ Distinct(FRequests')
        /\ \A n \in Elements(FRequests)' : n \in Elements(FRequests) /\ n # packet
    BY <1>1, QueueFacts
  <1> HIDE DEF packet
  <1>3. /\ NumbersOK' /\ OrderInv' /\ Due' = Due
        /\ \A n \in Due : Noted(n) => Noted(n)'
        /\ \A n : Noted(n)' => Noted(n)
        /\ \A x : IsReserved(x) /\ x # packet => IsReserved(x)'
        /\ Distinct(FPacketNumbers')
    BY <1>1, UnreservedNumbers DEF DueInv, Noted
  <1>4. \A k \in Positions(outgoing') : \E j \in Positions(outgoing) : outgoing'[k] = outgoing[j]
    BY <1>1
  <1>5. DueInv'
    <2>1. \A n \in Due' : n \in Due /\ (n = call => n = call') /\ (Noted(n) => Noted(n)')
      BY <1>1, <1>3
    <2>2. QED
      BY <1>1, <1>2, <1>3, <1>4, <2>1, DueKept
  <1>6. QueueInv'
    <2>1. stored' \subseteq stored /\ \A s \in stored : s.packet # packet => s \in stored'
      BY <1>1 DEF UnreserveResponse, Stored
    <2>2. ASSUME NEW n \in Elements(FRequests)'
          PROVE  /\ IsReserved(n)'
                 /\ n \in Due' \/ \E s \in stored' : s.packet = n
                 /\ \A s \in stored' : s.packet = n => s \in stored \/ s.response.ok
      BY <1>2, <1>3, <2>1, <2>2 DEF QueueInv
    <2>3. FMessageCounter \in Nat /\ \A n \in 1..FMessageCounter : n # NextNumber
      BY Fresh
    <2>4. QED
      BY <1>1, <1>2, <1>4, <2>2, <2>3, QueueKept
  <1>7. CallInv'
    BY <1>1, NoCall, Numbered
  <1>8. QED
    BY <1>3, <1>5, <1>6, <1>7

\* A call is waited for by whoever has sent it.
LEMMA SendCallStep ==
  ASSUME RequestsOK, ResponsesOK, UploadTypeOK, PendingInv, SendCall
  PROVE  PendingInv'
  <1> USE DEF PendingInv
  <1>1. /\ pc \in DOMAIN Calls /\ call = NULL /\ call' = NextNumber /\ pc' = pc
        /\ SendPacket(Calls[pc], Operand[pc], 0)
        /\ UNCHANGED <<incoming, stored, FPacketReservations, FPacketNumbers, FRequests>>
        /\ choiceVars' = choiceVars
    BY DEF SendCall, reservationVars
  <1>2. Calls[pc] \in Kinds /\ Operand[pc] \in Files /\ 0 \in Nat
    BY <1>1, CalledKind
  <1>3. /\ NumbersOK' /\ OrderInv' /\ Due' = Due \union {NextNumber} /\ FMessageCounter' = NextNumber
        /\ \A k \in Positions(outgoing') :
             \/ k \in Positions(outgoing) /\ outgoing'[k] = outgoing[k]
             \/ /\ outgoing'[k].number = NextNumber /\ outgoing'[k].kind = Calls[pc]
                /\ outgoing'[k].file = Operand[pc]
    BY <1>1, <1>2, SentLast
  <1>4. /\ FMessageCounter \in Nat /\ NextNumber = FMessageCounter + 1 /\ NextNumber # NULL
        /\ \A n : Noted(n) => n \in 1..FMessageCounter
    BY Fresh
  <1>5. pc \notin {"closing", "setting"} /\ FRequests = <<>>
    BY <1>1, CallFacts, OutsideQueue DEF Queued
  <1>6. (\A n : ~Loose(n)) /\ \A n : ~Loose(n)'
    <2>1. \A n : ~Loose(n)
      BY <1>1, NothingLoose
    <2>2. ~Ending' /\ pc' # "setting"
      BY <1>1, CallFacts DEF Ending
    <2>3. QED
      BY <2>1, <2>2 DEF Loose
  <1>7. ~Contains(FPacketNumbers, NextNumber)
    BY <1>4 DEF Noted
  <1>8. DueInv'
    <2>1. \A n \in Due' : Noted(n)' \/ n = call'
      BY <1>1, <1>3, <1>6, Numbered DEF DueInv, Noted
    <2>2. call' <= FMessageCounter' /\ ~Contains(FPacketNumbers', call')
      BY <1>1, <1>3, <1>4, <1>7
    <2>3. Distinct(FPacketNumbers')
      BY <1>1 DEF DueInv
    <2>4. pc' \in DOMAIN Calls'
      BY <1>1 DEF Calls
    <2>5. QED
      BY <1>1, <1>5, <1>6, <2>1, <2>2, <2>3, <2>4 DEF DueInv, Noted
  <1>9. QueueInv'
    BY <1>1, <1>5 DEF QueueInv, Elements, Distinct, Positions
  <1>10. CallInv'
    <2>1. \A k \in Positions(outgoing) : outgoing[k].kind \in {"write", "close", "setstat"}
      BY <1>1, Numbered DEF CallInv
    <2>2. \A k \in Positions(outgoing) : outgoing[k].number # NextNumber
      BY <1>4, Numbered, Fresh
    <2>3. Operand' = Operand
      BY <1>1, RemoteFileFacts DEF Operand
    <2>4. Calls' = Calls
      BY DEF Calls
    <2>5. QED
      BY <1>1, <1>3, <2>1, <2>2, <2>3, <2>4 DEF CallInv
  <1>11. QED
    BY <1>3, <1>8, <1>9, <1>10

\* A block joins the queue with its reservation.
LEMMA ContinueStep ==
  ASSUME RequestsOK, ResponsesOK, UploadTypeOK, PendingInv, Continue
  PROVE  PendingInv'
  <1> USE DEF PendingInv
  <1>1. /\ pc = "continue" /\ pc' = "writing" /\ UNCHANGED <<incoming, stored, call, holed>>
        /\ SendPacket("write", RemoteFile, FTransfered + 1)
        /\ FPacketReservations' = Append(FPacketReservations, NextNumber)
        /\ FPacketNumbers' = Append(FPacketNumbers, NextNumber)
        /\ FRequests' = Append(FRequests, NextNumber)
    BY DEF Continue, ReserveResponse, serverVars
  <1>2. "write" \in Kinds /\ RemoteFile \in Files /\ FTransfered + 1 \in Nat
    BY RemoteFileFacts, KindsAssumption DEF UploadTypeOK
  <1>3. /\ NumbersOK' /\ OrderInv' /\ Due' = Due \union {NextNumber} /\ FMessageCounter' = NextNumber
        /\ \A k \in Positions(outgoing') :
             \/ k \in Positions(outgoing) /\ outgoing'[k] = outgoing[k]
             \/ outgoing'[k].number = NextNumber /\ outgoing'[k].kind = "write"
    BY <1>1, <1>2, SentLast
  <1>4. /\ FMessageCounter \in Nat /\ NextNumber = FMessageCounter + 1 /\ NextNumber \in Nat \ {NULL}
        /\ \A n : Noted(n) => n \in 1..FMessageCounter
    BY Fresh
  <1>5. call = NULL
    BY <1>1, CallFacts, OutsideQueue
  <1>6. ~Contains(FPacketNumbers, NextNumber)
    BY <1>4 DEF Noted
  <1>7. /\ \A x : Contains(FPacketNumbers', x) <=> Contains(FPacketNumbers, x) \/ x = NextNumber
        /\ Distinct(FPacketNumbers')
        /\ \A x : Contains(FPacketReservations', x) <=> Contains(FPacketReservations, x) \/ x = NextNumber
    BY <1>1, <1>4, <1>6, AppendElements DEF ResponsesOK, DueInv
  <1>8. DueInv'
    <2>1. (\A n : ~Loose(n)) /\ \A n : ~Loose(n)'
      BY <1>1 DEF Loose, Ending
    <2>2. \A n \in Due' : Noted(n)'
      BY <1>3, <1>5, <1>7, <2>1, Numbered DEF DueInv, Noted
    <2>3. QED
      BY <1>1, <1>5, <1>7, <2>1, <2>2 DEF DueInv
  <1>9. QueueInv'
    <2>1. FRequests \in Seq(Nat) /\ Distinct(FRequests) /\ ~Contains(FRequests, NextNumber)
      <3>1. FRequests \in Seq(Nat) /\ Distinct(FRequests)
        BY DEF UploadTypeOK, QueueInv
      <3>2. ~Contains(FRequests, NextNumber)
        BY <1>4 DEF QueueInv, Contains, Elements
      <3>3. QED
        BY <3>1, <3>2
    <2>2. /\ \A x : Contains(FRequests', x) <=> Contains(FRequests, x) \/ x = NextNumber
          /\ Distinct(FRequests')
      BY <1>1, <1>4, <2>1, AppendElements
    <2>3. \A s, x : x \in Elements(s) <=> Contains(s, x)
      BY DEF Elements, Contains
    <2>4. ASSUME NEW n \in Elements(FRequests'), n # NextNumber
          PROVE  /\ n \in 1..FMessageCounter' /\ IsReserved(n)' /\ (~holed' => Confirmed(n)')
                 /\ n \in Due' \/ \E s \in stored' : s.packet = n
      <3>1. n \in Elements(FRequests)
        BY <2>2, <2>3, <2>4
      <3>2. /\ n \in 1..FMessageCounter /\ IsReserved(n) /\ (~holed => Confirmed(n))
            /\ n \in Due \/ \E s \in stored : s.packet = n
        BY <3>1 DEF QueueInv
      <3>3. n \in 1..FMessageCounter' /\ IsReserved(n)'
        BY <1>3, <1>4, <1>7, <3>2 DEF IsReserved
      <3>4. Confirmed(n) =>
              \A k \in Positions(outgoing') : outgoing'[k].number = n => outgoing'[k].kind = "write"
        BY <1>3, <2>4 DEF Confirmed
      <3>5. ~holed' => Confirmed(n)'
        BY <1>1, <3>2, <3>4 DEF Confirmed
      <3>6. QED
        BY <1>1, <1>3, <3>2, <3>3, <3>5
    <2>5. /\ NextNumber \in 1..FMessageCounter' /\ Contains(FPacketReservations', NextNumber)
          /\ NextNumber \in Due'
      BY <1>3, <1>4, <1>7
    <2>6. /\ \A k \in Positions(outgoing') : outgoing'[k].number = NextNumber => outgoing'[k].kind = "write"
          /\ \A p \in incoming' : p.number # NextNumber
          /\ \A s \in stored' : s.packet # NextNumber
      <3>1. NextNumber \notin Due
        BY <1>4, Fresh
      <3>2. \A k \in Positions(outgoing) : outgoing[k].number # NextNumber
        BY <3>1, Numbered
      <3>3. \A p \in incoming' : p.number # NextNumber
        BY <1>1, <3>1, Numbered
      <3>4. \A s \in stored' : s.packet # NextNumber
        BY <1>1, <1>4, Fresh
      <3>5. QED
        BY <1>3, <3>2, <3>3, <3>4
    <2>7. ASSUME NEW n \in Elements(FRequests'), n = NextNumber
          PROVE  /\ n \in 1..FMessageCounter' /\ IsReserved(n)' /\ Confirmed(n)'
                 /\ n \in Due' \/ \E s \in stored' : s.packet = n
      BY <2>5, <2>6, <2>7 DEF IsReserved, Confirmed
    <2>8. QED
      BY <1>1, <2>2, <2>4, <2>7 DEF QueueInv, Queued
  <1>10. CallInv'
    BY <1>1, <1>3, <1>4, <1>5, NoCall, Numbered
  <1>11. QED
    BY <1>3, <1>8, <1>9, <1>10

\* A close, or properties, sent from within the queue comes last, and nothing
\* overtakes.
LEMMA UnreservedStep ==
  ASSUME InOrder, RequestsOK, ResponsesOK, UploadTypeOK, CloseInv, ShutInv, PendingInv,
         SendClose \/ SendProperties
  PROVE  PendingInv'
  <1> USE DEF PendingInv
  <1> DEFINE kind == IF SendClose THEN "close" ELSE "setstat"
             file == IF SendClose THEN RemoteFile ELSE "dest"
  <1>1. /\ pc \in {"continue", "set"} /\ pc' \in {"closing", "setting"}
        /\ UNCHANGED <<incoming, stored, call, FRequests, FPacketReservations, FPacketNumbers, holed>>
        /\ SendPacket(kind, file, 0)
        /\ pc' = "closing" => CloseRequest' = NextNumber
        /\ pc' = "setting" => PropertiesRequest' = NextNumber
    BY DEF SendClose, SendProperties, reservationVars, serverVars
  <1>2. kind \in Kinds /\ file \in Files /\ 0 \in Nat /\ kind \in {"close", "setstat"}
    BY RemoteFileFacts, KindsAssumption, FilesAssumption
  <1> HIDE DEF kind, file
  <1>3. /\ NumbersOK' /\ OrderInv' /\ Due' = Due \union {NextNumber} /\ FMessageCounter' = NextNumber
        /\ \A k \in Positions(outgoing') :
             \/ k \in Positions(outgoing) /\ outgoing'[k] = outgoing[k]
             \/ outgoing'[k].number = NextNumber /\ outgoing'[k].kind = kind
    BY <1>1, <1>2, SentLast
  <1>4. /\ FMessageCounter \in Nat /\ NextNumber = FMessageCounter + 1 /\ NextNumber # NULL
        /\ NextNumber \notin Due
        /\ \A n : Noted(n) => n \in 1..FMessageCounter
    BY Fresh
  <1>5. call = NULL
    BY <1>1, CallFacts, OutsideQueue
  <1>6. DueInv'
    <2>0. PICK next : next = NextNumber
      OBVIOUS
    <2>1. /\ \A n : Loose(n)' => Loose(n) \/ n = next
          /\ \A n : Loose(n) => Loose(n)'
          /\ Loose(next)'
      <3>1. CASE SendClose
        <4>1. pc = "continue" /\ pc' = "closing" /\ CloseRequest' = NextNumber
          BY <3>1 DEF SendClose
        <4>2. QED
          BY <2>0, <4>1 DEF Loose, Ending
      <3>2. CASE SendProperties
        <4>1. /\ pc = "set" /\ pc' = "setting" /\ PropertiesRequest' = NextNumber
              /\ UNCHANGED <<CloseRequest, RemoteFileHandle>>
          BY <3>2 DEF SendProperties
        <4>2. QED
          BY <2>0, <4>1 DEF Loose, Ending
      <3>3. QED
        BY <3>1, <3>2
    <2>2. \A n \in Due' : Noted(n)' \/ Loose(n)'
      BY <1>1, <1>3, <1>5, <2>0, <2>1, Numbered DEF DueInv, Noted
    <2>3. ~Contains(FPacketNumbers', NextNumber) /\ Distinct(FPacketNumbers')
      BY <1>1, <1>4 DEF Noted, DueInv
    <2>4. \A p \in incoming' : p.number # NextNumber
      BY <1>1, <1>4, Numbered
    <2>5. \A k \in Positions(outgoing') : outgoing'[k].number = NextNumber => outgoing'[k].kind \notin Overtaking
      BY <1>2, <1>3, <1>4, Numbered DEF InOrder
    <2>6. InTurn(next)'
      BY <2>0, <2>4, <2>5 DEF InTurn
    <2>7. Elements(FRequests)' = Elements(FRequests) /\ \A m \in Elements(FRequests) : m < next
      <3>1. Elements(FRequests)' = Elements(FRequests)
        BY <1>1 DEF Elements
      <3>2. \A m \in Elements(FRequests) : m \in 1..FMessageCounter
        BY DEF QueueInv
      <3>3. \A m \in Elements(FRequests) : m < next
        BY <1>4, <2>0, <3>2
      <3>4. QED
        BY <3>1, <3>3
    <2>8. ASSUME NEW n \in Nat, Loose(n), n # next PROVE InTurn(n)'
      BY <1>1, <1>3, <2>0, <2>8 DEF DueInv, InTurn
    <2>9. \A n \in Nat : Loose(n)' => InTurn(n)' /\ \A m \in Elements(FRequests)' : m < n
      BY <2>1, <2>6, <2>7, <2>8 DEF DueInv
    <2>10. QED
      BY <1>1, <1>5, <2>0, <2>1, <2>2, <2>3, <2>9 DEF DueInv, Noted
  <1>7. QueueInv'
    <2>1. Distinct(FRequests') /\ Elements(FRequests)' = Elements(FRequests)
      BY <1>1 DEF QueueInv, Elements
    <2>2. \A n \in Elements(FRequests)' :
            /\ IsReserved(n)'
            /\ n \in Due' \/ \E s \in stored' : s.packet = n
            /\ \A s \in stored' : s.packet = n => s \in stored \/ s.response.ok
      BY <1>1, <1>3, <2>1 DEF QueueInv, IsReserved
    <2>3. /\ \A k \in Positions(outgoing') :
               \/ \E j \in Positions(outgoing) : outgoing'[k] = outgoing[j]
               \/ outgoing'[k].number = NextNumber
          /\ \A n \in 1..FMessageCounter : n # NextNumber
          /\ FMessageCounter' \in Nat /\ FMessageCounter' >= FMessageCounter
          /\ pc' \in Queued
      BY <1>1, <1>3, <1>4 DEF Queued
    <2>4. QED
      BY <1>1, <1>4, <2>1, <2>2, <2>3, QueueKept
  <1>8. CallInv'
    <2>1. \A k \in Positions(outgoing') :
            \/ \E j \in Positions(outgoing) : outgoing'[k] = outgoing[j]
            \/ outgoing'[k].number # NULL /\ outgoing'[k].kind \in {"write", "close", "setstat"}
      BY <1>2, <1>3, <1>4
    <2>2. QED
      BY <1>1, <1>5, <2>1, NoCall, Numbered
  <1>9. QED
    BY <1>3, <1>6, <1>7, <1>8

\* When SendPacket has returned, the response is reserved after all.
LEMMA ReservedStep ==
  ASSUME RequestsOK, ResponsesOK, UploadTypeOK, CloseInv, ShutInv, PendingInv, CloseSent \/ PropertiesSent
  PROVE  PendingInv'
  <1> USE DEF PendingInv
  <1> DEFINE n0 == IF pc = "closing" THEN CloseRequest ELSE PropertiesRequest
  <1>1. /\ pc \in {"closing", "setting"} /\ pc' \in {"set", "dispose"}
        /\ UNCHANGED <<FMessageCounter, outgoing, incoming, stored, call, FRequests, holed, CloseRequest>>
        /\ ~RemoteFileHandle'
        /\ FPacketReservations' = Append(FPacketReservations, n0)
        /\ FPacketNumbers' = Append(FPacketNumbers, n0)
    BY DEF CloseSent, PropertiesSent, ReserveResponse, requestVars, serverVars, AfterClose,
       CloseInv
  <1>2. /\ n0 \in 1..FMessageCounter /\ ~Noted(n0)
        /\ \A n : Loose(n) => n = n0 \/ Loose(n)'
        /\ \A n : Loose(n)' => Loose(n)
    BY <1>1 DEF DueInv, ShutInv, Loose, Ending, CloseInv
  <1> HIDE DEF n0
  <1>3. FMessageCounter \in Nat /\ n0 \in Nat
    BY <1>2, Fresh
  <1>4. call = NULL
    BY <1>1, CallFacts, OutsideQueue
  <1>5. /\ \A x : Contains(FPacketNumbers', x) <=> Contains(FPacketNumbers, x) \/ x = n0
        /\ Distinct(FPacketNumbers')
        /\ \A x : Contains(FPacketReservations', x) <=> Contains(FPacketReservations, x) \/ x = n0
    BY <1>1, <1>2, <1>3, AppendElements DEF ResponsesOK, DueInv, Noted
  <1>6. Due' = Due
    BY <1>1 DEF Due
  <1>7. NumbersOK'
    <2>1. \A k \in Positions(FPacketNumbers') : Contains(FPacketNumbers', FPacketNumbers'[k])
      BY DEF Contains
    <2>2. \A k \in Positions(FPacketNumbers') : FPacketNumbers'[k] \in 1..FMessageCounter
      BY <1>2, <1>3, <1>5, <2>1, Fresh DEF Noted
    <2>3. QED
      BY <1>1, <1>6, <2>2 DEF NumbersOK
  <1>8. OrderInv'
    BY <1>1 DEF OrderInv
  <1>9. DueInv'
    <2>1. \A n \in Due' : n \in Due /\ (n = call => n = call') /\ (Noted(n) => Noted(n)')
      BY <1>1, <1>5, <1>6 DEF Noted
    <2>2. \A n \in Due' : Loose(n) => Loose(n)' \/ Noted(n)'
      BY <1>2, <1>5 DEF Noted
    <2>3. Elements(FRequests)' = Elements(FRequests)
      BY <1>1 DEF Elements
    <2>4. pc' \notin {"closing", "setting"} /\ Settling
      BY <1>1, <1>2 DEF Settling
    <2>5. \A k \in Positions(outgoing') : \E j \in Positions(outgoing) : outgoing'[k] = outgoing[j]
      BY <1>1
    <2>6. QED
      BY <1>1, <1>4, <1>5, <2>1, <2>2, <2>3, <2>4, <2>5, DueKept
  <1>10. QueueInv'
    <2>1. Distinct(FRequests') /\ Elements(FRequests)' = Elements(FRequests)
      BY <1>1 DEF QueueInv, Elements
    <2>2. \A n \in Elements(FRequests)' :
            /\ IsReserved(n)'
            /\ n \in Due' \/ \E s \in stored' : s.packet = n
            /\ \A s \in stored' : s.packet = n => s \in stored \/ s.response.ok
      BY <1>1, <1>5, <1>6, <2>1 DEF QueueInv, IsReserved
    <2>3. \A n \in 1..FMessageCounter : n # NextNumber
      BY Fresh
    <2>4. pc' \in Queued
      BY <1>1 DEF Queued
    <2>5. QED
      BY <1>1, <1>3, <2>1, <2>2, <2>3, <2>4, QueueKept
  <1>11. CallInv'
    BY <1>1, <1>4, NoCall, Numbered
  <1>12. QED
    BY <1>7, <1>8, <1>9, <1>10, <1>11

\* The close of an interrupted transfer is reserved as it is sent.
LEMMA SendsCloseStep ==
  ASSUME InOrder, RequestsOK, ResponsesOK, UploadTypeOK, PendingInv, SendsClose
  PROVE  PendingInv'
  <1> USE DEF PendingInv
  <1>1. /\ pc = "dispose" /\ pc' = "close" /\ call = NULL /\ FRequests = <<>>
        /\ UNCHANGED <<incoming, stored, call, FRequests>>
        /\ SendPacket("close", RemoteFile, 0)
        /\ FPacketReservations' = Append(FPacketReservations, NextNumber)
        /\ FPacketNumbers' = Append(FPacketNumbers, NextNumber)
    BY DEF SendsClose, ReserveResponse
  <1>2. "close" \in Kinds /\ RemoteFile \in Files /\ 0 \in Nat
    BY RemoteFileFacts, KindsAssumption
  <1>3. /\ NumbersOK' /\ OrderInv' /\ Due' = Due \union {NextNumber}
        /\ \A k \in Positions(outgoing') :
             \/ k \in Positions(outgoing) /\ outgoing'[k] = outgoing[k]
             \/ outgoing'[k].number = NextNumber /\ outgoing'[k].kind = "close"
    BY <1>1, <1>2, SentLast
  <1>4. NextNumber \in Nat \ {NULL} /\ ~Contains(FPacketNumbers, NextNumber)
    BY Fresh DEF Noted
  <1>5. /\ \A x : Contains(FPacketNumbers', x) <=> Contains(FPacketNumbers, x) \/ x = NextNumber
        /\ Distinct(FPacketNumbers')
    BY <1>1, <1>4, AppendElements DEF ResponsesOK, DueInv
  <1>6. DueInv'
    <2>1. (\A n : ~Loose(n)) /\ \A n : Loose(n)' => n = NextNumber
      BY <1>1 DEF Loose, Ending, SendsClose
    <2>2. \A n \in Due' : Noted(n)'
      BY <1>1, <1>3, <1>5, <2>1, Numbered DEF DueInv, Noted
    <2>3. \A q \in incoming' : q.number # NextNumber
      BY <1>1, Numbered, Fresh
    <2>4. \A k \in Positions(outgoing) : outgoing[k].number # NextNumber
      BY Numbered, Fresh
    <2>5. "close" \notin Overtaking
      BY DEF InOrder
    <2>6. \A n : Loose(n)' => InTurn(n)'
      BY <1>3, <2>1, <2>3, <2>4, <2>5 DEF InTurn
    <2>7. Elements(FRequests)' = {}
      BY <1>1 DEF Elements, Positions
    <2>8. QED
      BY <1>1, <1>5, <2>2, <2>6, <2>7 DEF DueInv
  <1>7. QueueInv'
    BY <1>1 DEF QueueInv, Elements, Distinct, Positions
  <1>8. CallInv'
    BY <1>1, <1>3, <1>4, NoCall, Numbered
  <1>9. QED
    BY <1>3, <1>6, <1>7, <1>8

\* A response that is put aside is the one its packet waits for.
LEMMA StoresStep ==
  ASSUME RequestsOK, ResponsesOK, UploadTypeOK, PendingInv, Stores
  PROVE  PendingInv'
  <1> USE DEF PendingInv
  <1>0. PICK p \in Arriving : \E k \in ReservedFor(Awaited, p) :
          /\ incoming' = incoming \ {p}
          /\ IF FPacketReservations[k] # NULL
               THEN /\ stored' = stored \union {[packet |-> FPacketReservations[k], response |-> p]}
                    /\ UNCHANGED <<FPacketReservations, FPacketNumbers>>
               ELSE RemoveReservation(k) /\ UNCHANGED stored
    BY DEF Stores, StoreReserved, reservationVars
  <1>1. PICK k \in ReservedFor(Awaited, p) :
          /\ incoming' = incoming \ {p}
          /\ IF FPacketReservations[k] # NULL
               THEN /\ stored' = stored \union {[packet |-> FPacketReservations[k], response |-> p]}
                    /\ UNCHANGED <<FPacketReservations, FPacketNumbers>>
               ELSE RemoveReservation(k) /\ UNCHANGED stored
    BY <1>0
  <1>2. /\ UNCHANGED <<FMessageCounter, outgoing, pc, call, FRequests, CloseRequest, PropertiesRequest>>
        /\ StoreReserved(Awaited) /\ UNCHANGED <<DoResume, RemoteFileHandle, holed>>
    BY DEF Stores, StoreReserved, requestVars, choiceVars, serverVars
  <1>3. /\ p \in incoming /\ k \in Positions(FPacketNumbers) /\ FPacketNumbers[k] = p.number
        /\ k \in Positions(FPacketReservations)
        /\ FPacketReservations[k] \in {NULL, p.number}
    BY DEF Arriving, ReservedFor, ResponsesOK, StoredInOwnPacket, Positions
  <1>4. /\ NumbersOK' /\ Due' \subseteq Due
        /\ \A n \in Due' : Noted(n) => Noted(n)'
        /\ \A x \in Nat \ {NULL} : IsReserved(x) <=> IsReserved(x)'
    BY <1>2, StoreNumbers
  <1>5. OrderInv'
    BY <1>1, <1>2 DEF OrderInv
  <1>6. Distinct(FPacketNumbers') /\ \A n : Contains(FPacketNumbers', n) => Contains(FPacketNumbers, n)
    <2>1. CASE FPacketReservations[k] # NULL
      BY <1>1, <2>1 DEF DueInv
    <2>2. CASE FPacketReservations[k] = NULL
      <3>1. FPacketNumbers \in Seq(Nat) /\ FPacketNumbers' = DeleteAt(FPacketNumbers, k)
        BY <1>1, <2>2 DEF RemoveReservation, ResponsesOK
      <3>2. QED
        BY <1>3, <3>1, DeleteAtElements DEF DueInv
    <2>3. QED
      BY <2>1, <2>2
  <1>7. Settling /\ \A n : Loose(n) => Loose(n)'
    <2>1. \A n : Loose(n)' <=> Loose(n)
      BY <1>2 DEF Loose, Ending
    <2>2. QED
      BY <1>2, <2>1 DEF Settling
  <1>8. DueInv'
    <2>1. \A n \in Due' : n \in Due /\ (n = call => n = call') /\ (Noted(n) => Noted(n)')
      BY <1>2, <1>4
    <2>2. Elements(FRequests)' = Elements(FRequests)
      BY <1>2 DEF Elements
    <2>3. \A j \in Positions(outgoing') : \E i \in Positions(outgoing) : outgoing'[j] = outgoing[i]
      BY <1>2
    <2>4. (\A n : Noted(n)' => Noted(n)) /\ incoming' \subseteq incoming
      BY <1>1, <1>6 DEF Noted
    <2>5. QED
      BY <1>2, <1>6, <1>7, <2>1, <2>2, <2>3, <2>4, DueKept
  <1>9. QueueInv'
    <2>1. Distinct(FRequests') /\ Elements(FRequests)' = Elements(FRequests) /\ (FRequests' # <<>> => pc' \in Queued)
      BY <1>2 DEF QueueInv, Elements
    <2>2. ASSUME NEW n \in Elements(FRequests)'
          PROVE  /\ IsReserved(n)'
                 /\ n \in Due' \/ \E s \in stored' : s.packet = n
                 /\ ~holed => \A s \in stored' : s.packet = n => s \in stored \/ s.response.ok
      <3>1. /\ n \in 1..FMessageCounter /\ IsReserved(n) /\ (~holed => Confirmed(n))
            /\ n \in Due \/ \E s \in stored : s.packet = n
        BY <2>1, <2>2 DEF QueueInv
      <3>2. n \in Nat \ {NULL} /\ IsReserved(n)'
        BY <1>4, <3>1, Fresh DEF NULL
      <3>3. stored \subseteq stored'
        BY <1>1
      <3>4. CASE n = p.number
        <4>1. PICK j \in Positions(FPacketReservations) : FPacketReservations[j] = n
          BY <3>1 DEF IsReserved, Contains
        <4>2. j \in Positions(FPacketNumbers) /\ FPacketNumbers[j] = n
          BY <3>2, <4>1 DEF ResponsesOK, StoredInOwnPacket, Positions
        <4>3. j = k
          BY <1>3, <3>4, <4>2 DEF DueInv, Distinct
        <4>4. stored' = stored \union {[packet |-> n, response |-> p]}
          BY <1>1, <3>2, <4>1, <4>3
        <4>5. ~holed => p.ok
          BY <1>3, <3>1, <3>4 DEF Confirmed
        <4>6. \A s \in stored' : s \in stored \/ s = [packet |-> n, response |-> p]
          BY <4>4
        <4>7. \E s \in stored' : s.packet = n
          <5>1. [packet |-> n, response |-> p] \in stored'
            BY <4>4
          <5>2. [packet |-> n, response |-> p].packet = n
            OBVIOUS
          <5>3. QED
            BY <5>1, <5>2
        <4>8. ~holed => \A s \in stored' : s.packet = n => s \in stored \/ s.response.ok
          BY <4>5, <4>6
        <4>9. QED
          BY <3>2, <4>7, <4>8
      <3>5. CASE n # p.number
        <4>1. n \in Due => n \in Due'
          BY <1>1, <1>2, <3>5 DEF Due
        <4>2. \A s \in stored' : s.packet = n => s \in stored
          BY <1>1, <1>3, <3>5
        <4>3. QED
          BY <3>1, <3>2, <3>3, <4>1, <4>2
      <3>6. QED
        BY <3>4, <3>5
    <2>3. \A n \in 1..FMessageCounter : n # NextNumber
      BY Fresh
    <2>4. FMessageCounter \in Nat /\ incoming' \subseteq incoming
      BY <1>1, Fresh
    <2>5. \A j \in Positions(outgoing') : \E i \in Positions(outgoing) : outgoing'[j] = outgoing[i]
      BY <1>2
    <2>6. FMessageCounter' \in Nat /\ FMessageCounter' >= FMessageCounter
      BY <1>2, <2>4
    <2>7. QED
      BY <1>2, <2>1, <2>2, <2>3, <2>4, <2>5, <2>6, QueueKept
  <1>10. CallInv'
    BY <1>2 DEF CallInv, Calls, Operand, RemoteFile
  <1>11. QED
    BY <1>4, <1>5, <1>8, <1>9, <1>10

\* The server serves the oldest request: its response follows the others ...
LEMMA ServedNumbers ==
  ASSUME RequestsOK, ResponsesOK, NumbersOK, OrderInv, Serve
  PROVE  /\ NumbersOK' /\ OrderInv' /\ Due' = Due /\ 1 \in Positions(outgoing)
         /\ \A k \in Positions(outgoing') : k + 1 \in Positions(outgoing) /\ outgoing'[k] = outgoing[k + 1]
         /\ UNCHANGED <<FMessageCounter, FPacketReservations, FPacketNumbers, stored, pc, FRequests, call>>
         /\ UNCHANGED <<CloseRequest, PropertiesRequest, RemoteFileHandle, DoResume>>
         /\ \A q \in incoming' : q \notin incoming =>
              /\ q.number = outgoing[1].number /\ q.kind = outgoing[1].kind
              /\ ~holed' /\ q.kind = "write" => q.ok
  <1> DEFINE oldest == Head(outgoing)
  <1>1. /\ outgoing # <<>> /\ outgoing' = Tail(outgoing)
        /\ UNCHANGED <<FMessageCounter, FPacketReservations, FPacketNumbers, stored, pc, FRequests, call>>
        /\ UNCHANGED <<CloseRequest, PropertiesRequest, RemoteFileHandle, DoResume>>
    BY DEF Serve, requestVars, choiceVars
  <1>2. PICK ok \in BOOLEAN :
          /\ incoming' = incoming \union {[number |-> oldest.number, kind |-> oldest.kind, ok |-> ok]}
          /\ ~holed' /\ oldest.kind = "write" => ok
    BY DEF Serve
  <1>3. /\ Len(outgoing) \in Nat \ {0} /\ oldest = outgoing[1] /\ Len(outgoing') = Len(outgoing) - 1
        /\ \A k \in 1..(Len(outgoing) - 1) : outgoing'[k] = outgoing[k + 1]
    BY <1>1, TailFacts DEF RequestsOK
  <1> DEFINE n == Len(outgoing)
             p == [number |-> oldest.number, kind |-> oldest.kind, ok |-> ok]
  <1>4. /\ Positions(outgoing) = 1..n /\ Positions(outgoing') = 1..(n - 1) /\ 1 \in 1..n
        /\ \A k \in 1..(n - 1) : k + 1 \in 1..n /\ k + 1 > 1
    BY <1>3 DEF Positions
  <1>5. /\ incoming' = incoming \union {p} /\ p.number = oldest.number /\ p.kind = oldest.kind /\ p.ok = ok
        /\ p.number = Head(outgoing).number
    BY <1>2
  <1> HIDE DEF p, n, oldest
  <1>6. NumbersOK' /\ Due' = Due
    BY <1>1, <1>5, ServeNumbers DEF reservationVars
  <1>7. OrderInv'
    <2>1. ASSUME NEW q \in incoming', NEW k \in 1..(n - 1) PROVE q.number < outgoing'[k].number
      <3>1. outgoing'[k] = outgoing[k + 1] /\ k + 1 \in 1..n /\ 1 < k + 1
        BY <1>3, <1>4, <2>1 DEF n
      <3>2. CASE q \in incoming
        BY <1>4, <3>1, <3>2 DEF OrderInv
      <3>3. CASE q = p
        BY <1>3, <1>4, <1>5, <3>1, <3>3 DEF OrderInv
      <3>4. QED
        BY <1>5, <3>2, <3>3
    <2>2. ASSUME NEW j \in 1..(n - 1), NEW k \in 1..(n - 1), j < k PROVE outgoing'[j].number < outgoing'[k].number
      <3>1. /\ outgoing'[j] = outgoing[j + 1] /\ outgoing'[k] = outgoing[k + 1]
            /\ j + 1 \in 1..n /\ k + 1 \in 1..n /\ j + 1 < k + 1
        BY <1>3, <1>4, <2>2 DEF n
      <3>2. QED
        BY <1>4, <3>1 DEF OrderInv
    <2>3. QED
      BY <1>4, <2>1, <2>2 DEF OrderInv
  <1>8. \A q \in incoming' : q \notin incoming =>
          /\ q.number = outgoing[1].number /\ q.kind = outgoing[1].kind
          /\ ~holed' /\ q.kind = "write" => q.ok
    BY <1>2, <1>3, <1>5
  <1>9. QED
    BY <1>1, <1>3, <1>4, <1>6, <1>7, <1>8 DEF n

\* ... and is no refusal of a block as long as there was none.
LEMMA ServeStep ==
  ASSUME RequestsOK, ResponsesOK, UploadTypeOK, PendingInv, Serve
  PROVE  PendingInv'
  <1> USE DEF PendingInv
  <1>1. /\ UNCHANGED <<FMessageCounter, FPacketReservations, FPacketNumbers, stored, pc, FRequests, call>>
        /\ UNCHANGED <<CloseRequest, PropertiesRequest, RemoteFileHandle, DoResume>>
        /\ ~holed' => ~holed
    BY ServedNumbers DEF Serve
  <1>2. NumbersOK' /\ OrderInv' /\ Due' = Due
    BY ServedNumbers
  <1>3. Settling /\ \A n : Loose(n) => Loose(n)'
    <2>1. \A n : Loose(n)' <=> Loose(n)
      BY <1>1 DEF Loose, Ending
    <2>2. QED
      BY <1>1, <2>1 DEF Settling
  <1>4. \A k \in Positions(outgoing') : \E j \in Positions(outgoing) : outgoing'[k] = outgoing[j]
    BY ServedNumbers
  <1>5. \A q \in incoming' : q \notin incoming =>
           /\ \E k \in Positions(outgoing) : outgoing[k].number = q.number /\ outgoing[k].kind = q.kind
           /\ ~holed' /\ q.kind = "write" => q.ok
    BY ServedNumbers
  <1>6. DueInv'
    <2>1. \A n \in Due' : n \in Due /\ (n = call => n = call') /\ (Noted(n) => Noted(n)')
      BY <1>1, <1>2 DEF Noted
    <2>2. Elements(FRequests)' = Elements(FRequests)
      BY <1>1 DEF Elements
    <2>3. (\A n : Noted(n)' => Noted(n)) /\ Distinct(FPacketNumbers')
      BY <1>1 DEF Noted, DueInv
    <2>4. QED
      BY <1>1, <1>3, <1>4, <1>5, <2>1, <2>2, <2>3, DueKept
  <1>7. QueueInv'
    <2>1. ASSUME NEW m \in Elements(FRequests)'
          PROVE  /\ m \in 1..FMessageCounter' /\ IsReserved(m)' /\ (~holed' => Confirmed(m)')
                 /\ m \in Due' \/ \E s \in stored' : s.packet = m
      <3>1. /\ m \in 1..FMessageCounter /\ IsReserved(m) /\ (~holed => Confirmed(m))
            /\ m \in Due \/ \E s \in stored : s.packet = m
        BY <1>1, <2>1 DEF QueueInv, Elements
      <3>2. ASSUME ~holed' PROVE Confirmed(m)'
        <4>1. Confirmed(m)
          BY <1>1, <3>1, <3>2
        <4>2. \A k \in Positions(outgoing') : outgoing'[k].number = m => outgoing'[k].kind = "write"
          BY <1>4, <4>1 DEF Confirmed
        <4>3. \A q \in incoming' : q.number = m => q.ok
          BY <1>5, <3>2, <4>1 DEF Confirmed
        <4>4. QED
          BY <1>1, <4>1, <4>2, <4>3 DEF Confirmed
      <3>3. QED
        BY <1>1, <1>2, <3>1, <3>2 DEF IsReserved
    <2>2. QED
      BY <1>1, <2>1 DEF QueueInv, Elements
  <1>8. CallInv'
    <2>1. Calls' = Calls /\ Operand' = Operand
      BY <1>1 DEF Calls, Operand, RemoteFile
    <2>2. UNCHANGED <<pc, call>>
      BY <1>1
    <2>3. QED
      BY <1>4, <2>1, <2>2 DEF CallInv
  <1>9. QED
    BY <1>2, <1>6, <1>7, <1>8

\* Every step keeps all of it, but an exception that leaves the properties
\* request unreserved.
LEMMA PendingStep ==
  ASSUME InOrder, RequestsOK, ResponsesOK, UploadTypeOK, EarlyInv, CloseInv, ShutInv, PendingInv,
         EndInv, Next, ~holed' => ~holed, ~orphaned'
  PROVE  PendingInv'
  BY PacketShape, RestsStep, TakesStep, ThrowsStep, UnreservesStep, LosesStep, SendsCloseStep,
     SendCallStep,
     ContinueStep, UnreservedStep, ReservedStep, StoresStep, ServeStep, ReopenStep

----------------------------------------------------------------------------
(* The close comes to an end, whatever is refused                          *)

\* Whatever response is received, no number is used twice.
LEMMA AcceptedNumbers ==
  ASSUME ResponsesOK, NumbersOK, OrderInv, NEW packet, NEW p \in Acceptable(packet),
         Accept(packet, p), UNCHANGED <<FMessageCounter, outgoing>>
  PROVE  NumbersOK' /\ OrderInv' /\ Due' \subseteq Due
  <1>1. incoming' = incoming \ {p} /\ stored' \subseteq stored
    BY DEF Accept
  <1>2. \A k \in Positions(FPacketNumbers') : \E j \in Positions(FPacketNumbers) : FPacketNumbers'[k] = FPacketNumbers[j]
    <2>1. CASE IsReserved(packet)
      <3>1. Reservation(packet) \in Positions(FPacketReservations) /\ RemoveReservation(Reservation(packet))
        BY <2>1, IndexOfFacts DEF IsReserved, Reservation, Accept
      <3>2. QED
        BY <3>1, RemovalNumbers
    <2>2. CASE ~IsReserved(packet)
      BY <2>2 DEF Accept, reservationVars
    <2>3. QED
      BY <2>1, <2>2
  <1>3. NumbersOK' /\ Due' \subseteq Due
    BY <1>1, <1>2, FewerNumbers
  <1>4. OrderInv'
    BY <1>1 DEF OrderInv
  <1>5. QED
    BY <1>3, <1>4

\* While the close is on its way to the server, everybody receives his own.
LEMMA BeforeClose ==
  ASSUME RequestsOK, ResponsesOK, ShutInv, NEW k \in Positions(outgoing), Closes(k),
         NEW packet \in Nat \ {NULL}, NEW p \in Acceptable(packet)
  PROVE  p.number = packet
  <1> USE DEF ShutInv
  <1>1. CASE Stored(packet) # {}
    <2>1. PICK s \in stored : s.packet = packet /\ p = s.response
      BY <1>1 DEF Acceptable, Stored
    <2>2. QED
      BY <2>1 DEF ResponsesOK, StoredInOwnPacket
  <1>2. CASE Stored(packet) = {}
    <2>1. p \in incoming /\ ReservedFor(packet, p) = {}
      BY <1>2 DEF Acceptable, Arriving
    <2>2. p.number < CloseRequest
      BY <2>1 DEF OrderInv
    <2>3. Noted(p.number)
      BY <2>1, <2>2, Numbered
    <2>4. PICK j \in Positions(FPacketNumbers) : FPacketNumbers[j] = p.number
      BY <2>3 DEF Noted, Contains
    <2>5. IsReserved(packet) /\ FPacketNumbers[Reservation(packet)] = p.number
      BY <2>1, <2>4 DEF ReservedFor
    <2>6. /\ Reservation(packet) \in Positions(FPacketReservations)
          /\ FPacketReservations[Reservation(packet)] = packet
      BY <2>5, IndexOfFacts DEF IsReserved, Reservation
    <2>7. FPacketNumbers[Reservation(packet)] = packet
      BY <2>6 DEF ResponsesOK, StoredInOwnPacket
    <2>8. QED
      BY <2>5, <2>7
  <1>3. QED
    BY <1>1, <1>2

\* The close has been served when its response is received.
LEMMA CloseServed ==
  ASSUME RequestsOK, ResponsesOK, ShutInv, pc = "close", NEW p \in Acceptable(CloseRequest)
  PROVE  \A k \in Positions(outgoing) : ~Closes(k)
  <1> SUFFICES ASSUME NEW k \in Positions(outgoing), Closes(k) PROVE FALSE
    OBVIOUS
  <1>1. /\ outgoing[k].number = CloseRequest /\ CloseRequest \in 1..FMessageCounter
        /\ NumbersOK
    BY DEF ShutInv, Ending
  <1>2. CloseRequest \in Nat \ {NULL} /\ CloseRequest \in Due
    BY <1>1, Fresh, Numbered DEF NULL
  <1>3. p.number = CloseRequest
    BY <1>2, BeforeClose
  <1>4. CASE p \in incoming
    BY <1>1, <1>3, <1>4 DEF NumbersOK
  <1>5. CASE \E s \in stored : s.packet = CloseRequest
    BY <1>1, <1>2, <1>5 DEF NumbersOK
  <1>6. QED
    BY <1>4, <1>5 DEF Acceptable, Arriving, Stored

\* What most steps leave: the requests under way, and the takers of the
\* responses as long as it matters.
Shut == ~Open /\ \A k \in Positions(outgoing) : ~Closes(k)
Leaves ==
  /\ UNCHANGED <<FMessageCounter, outgoing, handle>>
  /\ NumbersOK' /\ OrderInv' /\ Due' \subseteq Due
  /\ Shut \/ \A n \in Due' : Noted(n) => Noted(n)'

LEMMA Receipt ==
  ASSUME RequestsOK, ResponsesOK, ShutInv, NEW packet \in Nat, NEW p \in Acceptable(packet),
         Accept(packet, p), UNCHANGED <<FMessageCounter, outgoing, handle>>,
         packet # NULL \/ Shut
  PROVE  Leaves
  <1>1. NumbersOK /\ OrderInv
    BY DEF ShutInv
  <1>2. NumbersOK' /\ OrderInv' /\ Due' \subseteq Due
    BY <1>1, AcceptedNumbers
  <1>3. ASSUME ~Shut PROVE \A n \in Due' : Noted(n) => Noted(n)'
    <2>1. packet \in Nat \ {NULL}
      BY <1>3
    <2>2. p.number = packet
      <3>1. CASE Open
        <4>1. \A n \in Due : Noted(n)
          BY <3>1 DEF ShutInv
        <4>2. QED
          BY <2>1, <4>1, OwnResponse
      <3>2. CASE ~Open
        <4>1. PICK k \in Positions(outgoing) : Closes(k)
          BY <1>3, <3>2 DEF Shut
        <4>2. QED
          BY <2>1, <4>1, BeforeClose
      <3>3. QED
        BY <3>1, <3>2
    <2>3. QED
      BY <1>1, <2>1, <2>2, AcceptNumbers
  <1>4. QED
    BY <1>2, <1>3 DEF Leaves

\* The actions that send, and the ones that leave the requests alone.
LEMMA LeavesShape ==
  ASSUME RequestsOK, ResponsesOK, UploadTypeOK, ShutInv, CloseInv, Next
  PROVE  \/ Leaves \/ SendCall \/ Continue \/ SendClose \/ SendProperties \/ SendsClose
         \/ (Loses /\ handle' = FALSE) \/ Serve \/ Reopen
  <1>1. NumbersOK /\ OrderInv
    BY DEF ShutInv
  <1>2. pc \in DOMAIN Calls \union {"properties", "leave", "unwind", "lost", "over"} => Shut
    BY CallFacts DEF Shut, ShutInv, Open, Ending
  <1>3. ASSUME UNCHANGED <<packetVars, handle>> PROVE Leaves
    BY <1>1, <1>3 DEF packetVars, Leaves, NumbersOK, OrderInv, Due, Noted, Positions
  <1>4. ASSUME \/ Checked \/ Discarded \/ NotOpened \/ Erased \/ Undone \/ Removed \/ Renamed \/ Touched \/ KeptAlive \/ Opened
        PROVE  Leaves
    <2>1. /\ pc \in DOMAIN Calls /\ \E p \in Acceptable(call) : Accept(call, p)
          /\ UNCHANGED <<FMessageCounter, outgoing, handle>>
      BY <1>4, CallFacts DEF Checked, Discarded, NotOpened, Erased, Undone, Removed, Renamed,
         Touched,
         KeptAlive,
         Opened, Returns, serverVars
    <2>2. call \in Nat
      BY DEF UploadTypeOK
    <2>3. QED
      BY <1>2, <2>1, <2>2, Receipt
  <1>5. ASSUME Closed \/ CloseRefused PROVE Leaves
    <2>1. /\ pc = "close" /\ \E p \in Acceptable(CloseRequest) : Accept(CloseRequest, p)
          /\ UNCHANGED <<FMessageCounter, outgoing, handle>>
      BY <1>5 DEF Closed, CloseRefused, Receives, serverVars
    <2>2. CloseRequest \in Nat
      BY DEF UploadTypeOK
    <2>3. Shut
      BY <2>1, CloseServed DEF Shut, Open
    <2>4. QED
      BY <2>1, <2>2, <2>3, Receipt
  <1>6. ASSUME PropertiesSet PROVE Leaves
    <2>1. /\ pc = "properties" /\ \E p \in Acceptable(PropertiesRequest) : Accept(PropertiesRequest, p)
          /\ UNCHANGED <<FMessageCounter, outgoing, handle>>
      BY <1>6 DEF PropertiesSet, Receives, serverVars
    <2>2. PropertiesRequest \in Nat
      BY DEF UploadTypeOK
    <2>3. QED
      BY <1>2, <2>1, <2>2, Receipt
  <1>7. ASSUME HandleWritten \/ HandleRefused \/ DisposeResponse PROVE Leaves
    <2>1. /\ pc \in Sending \union {"dispose"} /\ FRequests # <<>>
          /\ \E p \in Acceptable(Awaited) : Accept(Awaited, p)
          /\ UNCHANGED <<FMessageCounter, outgoing, handle>>
      BY <1>7 DEF HandleWritten, HandleRefused, SendPacketThrows, Handles, DisposeResponse,
         serverVars
    <2>2. Awaited = Head(FRequests)
      <3>1. pc \notin {"close", "properties"} /\ pc \notin DOMAIN Calls
        BY <2>1, CallFacts DEF Sending
      <3>2. QED
        BY <2>1, <3>1, ZenonT(30) DEF Awaited
    <2>3. Head(FRequests) \in Nat \ {NULL}
      <3>1. FRequests \in Seq(Nat)
        BY DEF UploadTypeOK
      <3>2. Len(FRequests) \in Nat \ {0} /\ Head(FRequests) = FRequests[1]
        BY <2>1, <3>1, TailFacts
      <3>3. Head(FRequests) \in Elements(FRequests)
        BY <3>2 DEF Elements, Positions
      <3>4. QED
        BY <1>1, <3>3, Fresh DEF ShutInv, NULL
    <2>4. QED
      BY <2>1, <2>2, <2>3, Receipt
  <1>8. ASSUME Drop \/ WrongNumber PROVE Loses /\ handle' = FALSE
    BY <1>8 DEF Drop, WrongNumber, Lost, Loses, reservationVars
  <1>9. ASSUME Declined \/ Written \/ Interrupted \/ Unwound \/ GiveUp PROVE Leaves
    BY <1>3, <1>9 DEF Declined, Written, Interrupted, Unwound, GiveUp, serverVars
  <1>10. ASSUME Leave \/ Unwind \/ HandleThrows PROVE Leaves
    <2>1. /\ UNCHANGED <<FMessageCounter, outgoing, incoming, handle>>
          /\ (\E packet : UnreserveResponse(packet)) \/ UNCHANGED <<FPacketReservations, FPacketNumbers, stored>>
      BY <1>10 DEF Leave, Unwind, HandleThrows, reservationVars, serverVars
    <2>2. CASE UNCHANGED <<FPacketReservations, FPacketNumbers, stored>>
      BY <1>3, <2>1, <2>2 DEF packetVars
    <2>3. CASE \E packet : UnreserveResponse(packet)
      <3>1. /\ NumbersOK' /\ OrderInv' /\ Due' = Due
            /\ \A n \in Due : Noted(n) => Contains(FPacketNumbers', n)
        BY <1>1, <2>1, <2>3, UnreservedNumbers
      <3>2. QED
        BY <2>1, <3>1 DEF Leaves, Noted
    <2>4. QED
      BY <2>1, <2>2, <2>3
  <1>11. ASSUME CloseSent \/ PropertiesSent PROVE Leaves
    <2> DEFINE packet == IF pc = "closing" THEN CloseRequest ELSE PropertiesRequest
    <2>1. /\ UNCHANGED <<FMessageCounter, outgoing, incoming, stored, handle>>
          /\ FPacketNumbers' = Append(FPacketNumbers, packet)
      BY <1>11 DEF CloseSent, PropertiesSent, ReserveResponse, serverVars
    <2>2. packet \in 1..FMessageCounter
      BY <1>11 DEF CloseSent, PropertiesSent, ShutInv, Ending
    <2> HIDE DEF packet
    <2>3. FPacketNumbers \in Seq(Nat) /\ packet \in Nat
      BY <1>1, <2>2, Fresh DEF ResponsesOK
    <2>4. \A x : Contains(FPacketNumbers', x) <=> Contains(FPacketNumbers, x) \/ x = packet
      BY <2>1, <2>3, AppendElements
    <2>5. \A k \in Positions(FPacketNumbers') : Contains(FPacketNumbers', FPacketNumbers'[k])
      BY DEF Contains
    <2>6. \A k \in Positions(FPacketNumbers') : FPacketNumbers'[k] \in 1..FMessageCounter
      BY <1>1, <2>2, <2>4, <2>5, Fresh DEF Noted
    <2>7. Due' = Due
      BY <2>1 DEF Due
    <2>8. NumbersOK' /\ OrderInv'
      BY <1>1, <2>1, <2>6, <2>7 DEF NumbersOK, OrderInv
    <2>9. QED
      BY <2>1, <2>4, <2>7, <2>8 DEF Leaves, Noted
  <1>12. ASSUME Stores PROVE Leaves
    <2>1. StoreReserved(Awaited) /\ UNCHANGED <<FMessageCounter, outgoing, handle>>
      BY <1>12 DEF Stores, StoreReserved, serverVars
    <2>2. /\ NumbersOK' /\ Due' \subseteq Due
          /\ \A n \in Due' : Noted(n) => Noted(n)'
      BY <1>1, <2>1, StoreNumbers
    <2>3. incoming' \subseteq incoming
      BY <2>1 DEF StoreReserved
    <2>4. OrderInv'
      BY <1>1, <2>1, <2>3 DEF OrderInv
    <2>5. QED
      BY <2>1, <2>2, <2>4 DEF Leaves
  <1>13. ASSUME Disposed PROVE Leaves \/ SendsClose
    <2>1. /\ pc = "dispose" /\ pc' = "close" /\ FRequests = <<>> /\ call = NULL
          /\ UNCHANGED <<incoming, stored, call, FRequests, handle>>
      BY <1>13, CallFacts DEF Disposed, AfterDispose, serverVars, ShutInv
    <2>2. CASE RemoteFileHandle
      BY <1>13, <2>1, <2>2 DEF Disposed, SendsClose
    <2>3. CASE ~RemoteFileHandle
      BY <1>3, <1>13, <2>1, <2>3 DEF Disposed, packetVars, reservationVars
    <2>4. QED
      BY <2>2, <2>3
  <1>14. QED
    BY <1>4, <1>5, <1>6, <1>7, <1>8, <1>9, <1>10, <1>11, <1>12, <1>13 DEF Next, Transfer

\* Sending is the same whatever is sent.
AnySend == SendCall \/ Continue \/ SendClose \/ SendProperties \/ SendsClose

LEMMA AnySendNumbers ==
  ASSUME RequestsOK, ResponsesOK, UploadTypeOK, NumbersOK, OrderInv, AnySend
  PROVE  /\ NumbersOK' /\ OrderInv' /\ Due' = Due \union {NextNumber} /\ FMessageCounter' = NextNumber
         /\ incoming' = incoming
         /\ \A k \in Positions(outgoing') :
              \/ k \in Positions(outgoing) /\ outgoing'[k] = outgoing[k]
              \/ /\ outgoing'[k].number = NextNumber
                 /\ outgoing'[k].kind = "close" => SendClose \/ SendsClose
         /\ \A n : Noted(n) => Contains(FPacketNumbers', n)
         /\ Continue => Contains(FPacketNumbers', NextNumber)
  <1>1. /\ FMessageCounter \in Nat /\ NextNumber \in Nat \ {NULL}
        /\ FPacketNumbers \in Seq(Nat)
    BY Fresh DEF ResponsesOK
  <1>2. ASSUME FPacketNumbers' \in {FPacketNumbers, Append(FPacketNumbers, NextNumber)}
        PROVE  \A n : Noted(n) => Contains(FPacketNumbers', n)
    <2>1. \A x : Contains(Append(FPacketNumbers, NextNumber), x) <=> Contains(FPacketNumbers, x) \/ x = NextNumber
      BY <1>1, AppendElements
    <2>2. CASE FPacketNumbers' = FPacketNumbers
      BY <2>2 DEF Noted
    <2>3. CASE FPacketNumbers' = Append(FPacketNumbers, NextNumber)
      BY <2>1, <2>3 DEF Noted
    <2>4. QED
      BY <1>2, <2>2, <2>3
  <1>3. /\ RemoteFile \in Files /\ "dest" \in Files /\ {"write", "close", "setstat"} \subseteq Kinds
        /\ 0 \in Nat /\ FTransfered + 1 \in Nat
    BY RemoteFileFacts, FilesAssumption, KindsAssumption DEF UploadTypeOK
  <1>4. CASE SendCall
    <2>1. /\ SendPacket(Calls[pc], Operand[pc], 0) /\ UNCHANGED <<incoming, stored, FPacketNumbers>>
          /\ Calls[pc] \in Kinds /\ Operand[pc] \in Files /\ Calls[pc] # "close"
      BY <1>4, CalledKind DEF SendCall, reservationVars
    <2>2. ~Continue
      BY <1>4, CallFacts DEF SendCall, Continue
    <2>3. QED
      BY <1>2, <1>3, <2>1, <2>2, SentLast
  <1>5. CASE Continue
    <2>1. /\ SendPacket("write", RemoteFile, FTransfered + 1) /\ UNCHANGED <<incoming, stored>>
          /\ FPacketNumbers' = Append(FPacketNumbers, NextNumber)
      BY <1>5 DEF Continue, ReserveResponse
    <2>2. Contains(FPacketNumbers', NextNumber)
      BY <1>1, <2>1, AppendElements
    <2>3. QED
      BY <1>2, <1>3, <2>1, <2>2, SentLast
  <1>6. CASE SendClose \/ SendsClose
    <2>1. /\ SendPacket("close", RemoteFile, 0) /\ UNCHANGED <<incoming, stored>>
          /\ FPacketNumbers' \in {FPacketNumbers, Append(FPacketNumbers, NextNumber)}
      BY <1>6 DEF SendClose, SendsClose, ReserveResponse, reservationVars
    <2>2. ~Continue
      BY <1>6 DEF SendClose, SendsClose, Continue
    <2>3. QED
      BY <1>2, <1>3, <1>6, <2>1, <2>2, SentLast
  <1>7. CASE SendProperties
    <2>1. SendPacket("setstat", "dest", 0) /\ UNCHANGED <<incoming, stored, FPacketNumbers>>
      BY <1>7 DEF SendProperties, reservationVars
    <2>2. ~Continue
      BY <1>7 DEF SendProperties, Continue
    <2>3. QED
      BY <1>2, <1>3, <2>1, <2>2, SentLast
  <1>8. QED
    BY <1>4, <1>5, <1>6, <1>7 DEF AnySend

\* A lost connection, and one opened again, have nothing under way.
LEMMA NothingDue ==
  ASSUME ResponsesOK, NumbersOK, Loses \/ Reopen
  PROVE  NumbersOK' /\ OrderInv' /\ Due' = {} /\ Positions(outgoing') = {}
  <1>1. Positions(outgoing') = {} /\ incoming' = {}
    BY DEF Positions, Loses, Reopen, ResetConnection
  <1>2. Due' = {}
    BY <1>1 DEF Due
  <1>3. OrderInv'
    BY <1>1 DEF OrderInv
  <1>4. CASE Loses
    <2>1. UNCHANGED <<FMessageCounter, FPacketNumbers, stored>>
      BY <1>4 DEF Loses
    <2>2. \A k \in Positions(FPacketNumbers') : FPacketNumbers'[k] \in 1..FMessageCounter'
      BY <2>1 DEF NumbersOK, Positions
    <2>3. NumbersOK'
      BY <1>1, <1>2, <2>2 DEF NumbersOK
    <2>4. QED
      BY <1>1, <1>2, <1>3, <2>3
  <1>5. CASE Reopen
    <2>1. Positions(FPacketNumbers') = {} /\ stored' = {}
      BY <1>5 DEF Reopen, ResetConnection, Positions
    <2>2. QED
      BY <1>1, <1>2, <1>3, <2>1 DEF NumbersOK
  <1>6. QED
    BY <1>1, <1>2, <1>3, <1>4, <1>5

\* Where a call may be waited for, and where the queue is not empty.
LEMMA PlacesKept ==
  ASSUME UploadTypeOK, ShutInv, Next
  PROVE  /\ call' # NULL => pc' \in DOMAIN Calls
         /\ FRequests' # <<>> => pc' \in Queued
         /\ \A n \in Elements(FRequests') : n \in Elements(FRequests) \/ (Continue /\ n = NextNumber)
  <1>0. /\ call # NULL => pc \in DOMAIN Calls
        /\ FRequests # <<>> => pc \in Queued
        /\ FRequests \in Seq(Nat)
    BY DEF ShutInv, UploadTypeOK
  <1>1. CASE \/ Checked \/ Discarded \/ NotOpened \/ Erased \/ Undone \/ Removed \/ Renamed \/ Touched \/ KeptAlive \/ Opened
    <2>1. call' = NULL /\ FRequests' = FRequests /\ pc \in DOMAIN Calls
      BY <1>1, CallFacts DEF Checked, Discarded, NotOpened, Erased, Undone, Removed, Renamed,
         Touched,
         KeptAlive,
         Opened, Returns
    <2>2. FRequests' = <<>>
      BY <1>0, <2>1, CallFacts DEF Queued
    <2>3. QED
      BY <2>1, <2>2
  <1>2. CASE SendCall
    <2>1. pc' = pc /\ FRequests' = FRequests /\ pc \in DOMAIN Calls
      BY <1>2 DEF SendCall
    <2>2. QED
      BY <1>0, <2>1 DEF Elements
  <1>3. CASE Closed \/ CloseRefused \/ PropertiesSet \/ Leave \/ Unwind \/ Unwound \/ Reopen \/ GiveUp
             \/ Declined
    <2>1. /\ pc \in {"close", "properties", "leave", "unwind", "lost", "open"}
          /\ call' = call /\ FRequests' = FRequests /\ (Declined => call = NULL)
          /\ ~Declined => pc \notin DOMAIN Calls
      BY <1>3, CallFacts DEF Closed, CloseRefused, PropertiesSet, Leave, Unwind, Unwound, Reopen,
         GiveUp, Declined,
         Receives, requestVars
    <2>2. call' = NULL /\ FRequests' = <<>>
      BY <1>0, <2>1, CallFacts DEF Queued
    <2>3. QED
      BY <2>1, <2>2
  <1>4. CASE Written \/ Interrupted \/ SendClose \/ CloseSent \/ SendProperties \/ PropertiesSent \/ Disposed
    <2>1. /\ pc \in Queued /\ call' = call /\ FRequests' = FRequests
          /\ pc' \in Queued \/ (pc' = "close" /\ FRequests = <<>>)
      BY <1>4 DEF Written, Interrupted, SendClose, CloseSent, SendProperties, PropertiesSent,
         Disposed, AfterClose,
         AfterDispose, Queued, requestVars
    <2>2. call' = NULL
      BY <1>0, <2>1, CallFacts DEF Queued
    <2>3. QED
      BY <2>1, <2>2 DEF Elements
  <1>5. CASE Continue
    <2>1. pc = "continue" /\ pc' = "writing" /\ call' = call /\ FRequests' = Append(FRequests, NextNumber)
      BY <1>5 DEF Continue
    <2>2. call' = NULL /\ pc' \in Queued
      BY <1>0, <2>1, CallFacts DEF Queued
    <2>3. /\ Len(FRequests) \in Nat /\ Len(FRequests') = Len(FRequests) + 1
          /\ FRequests'[Len(FRequests) + 1] = NextNumber
          /\ \A k \in 1..Len(FRequests) : FRequests'[k] = FRequests[k]
      BY <1>0, <2>1
    <2>4. \A k \in 1..(Len(FRequests) + 1) : k \in 1..Len(FRequests) \/ k = Len(FRequests) + 1
      BY <2>3
    <2>5. \A n \in Elements(FRequests') : n \in Elements(FRequests) \/ n = NextNumber
      BY <2>3, <2>4 DEF Elements, Positions
    <2>6. QED
      BY <1>5, <2>2, <2>5
  <1>6. CASE HandleWritten \/ HandleRefused \/ HandleThrows \/ DisposeResponse
    <2>1. /\ pc \in Sending \union {"dispose"} /\ FRequests # <<>> /\ FRequests' = Tail(FRequests)
          /\ call' = call /\ pc' \in Queued
      BY <1>6 DEF HandleWritten, HandleRefused, HandleThrows, SendPacketThrows, Handles,
         DisposeResponse,
         AfterClose, Queued,
         Sending
    <2>2. call' = NULL
      BY <1>0, <2>1, CallFacts DEF Sending
    <2>3. /\ Len(FRequests) \in Nat \ {0} /\ Len(FRequests') = Len(FRequests) - 1
          /\ \A k \in 1..(Len(FRequests) - 1) : FRequests'[k] = FRequests[k + 1]
      BY <1>0, <2>1, TailFacts
    <2>4. \A k \in 1..(Len(FRequests) - 1) : k + 1 \in 1..Len(FRequests)
      BY <2>3
    <2>5. \A n \in Elements(FRequests') : n \in Elements(FRequests)
      BY <2>3, <2>4 DEF Elements, Positions
    <2>6. QED
      BY <2>1, <2>2, <2>5
  <1>7. CASE Stores \/ Serve
    <2>1. UNCHANGED <<pc, call, FRequests>>
      BY <1>7 DEF Stores, Serve
    <2>2. QED
      BY <1>0, <2>1 DEF Elements
  <1>8. CASE Drop \/ WrongNumber
    <2>1. call' = NULL /\ FRequests' = <<>>
      BY <1>8 DEF Drop, WrongNumber, Lost
    <2>2. QED
      BY <2>1 DEF Elements, Positions
  <1>9. QED
    BY <1>1, <1>2, <1>3, <1>4, <1>5, <1>6, <1>7, <1>8 DEF Next, Transfer

\* How the transfer goes from open to closed.
LEMMA EndingStep ==
  ASSUME RequestsOK, ResponsesOK, UploadTypeOK, CloseInv, ShutInv, Next
  PROVE  /\ Open' => Open \/ Opened
         /\ Ending' => (Ending /\ CloseRequest' = CloseRequest)
                       \/ ((SendClose \/ SendsClose) /\ CloseRequest' = NextNumber)
         /\ (\E k \in Positions(outgoing) : Closes(k)) =>
              (Ending' /\ CloseRequest' = CloseRequest) \/ outgoing' = <<>>
         /\ pc' = "setting" => IF SendProperties THEN PropertiesRequest' = NextNumber
                               ELSE pc = "setting" /\ PropertiesRequest' = PropertiesRequest
  <1> DEFINE Goal ==
         /\ Open' => Open \/ Opened
         /\ Ending' => (Ending /\ CloseRequest' = CloseRequest)
                       \/ ((SendClose \/ SendsClose) /\ CloseRequest' = NextNumber)
         /\ Ending => (Ending' /\ CloseRequest' = CloseRequest) \/ outgoing' = <<>>
                      \/ \A k \in Positions(outgoing) : ~Closes(k)
         /\ pc' = "setting" => IF SendProperties THEN PropertiesRequest' = NextNumber
                               ELSE pc = "setting" /\ PropertiesRequest' = PropertiesRequest
  <1> SUFFICES Goal
    BY DEF ShutInv
  <1>0. /\ pc \in {"continue", "writing"} => RemoteFileHandle
        /\ pc \in {"set", "setting"} => ~RemoteFileHandle
    BY DEF CloseInv
  <1>1. CASE \/ Checked \/ Discarded \/ NotOpened \/ Erased \/ Undone \/ Removed \/ Renamed \/ Touched \/ KeptAlive
             \/ SendCall
    <2>1. pc \in DOMAIN Calls /\ pc' \in DOMAIN Calls \union {"leave", "over"}
      BY <1>1, CallFacts DEF Checked, Discarded, NotOpened, Erased, Undone, Removed, Renamed,
         Touched,
         KeptAlive,
         SendCall, Returns, RetriesOrFails, Goes, Fails
    <2>2. ~Open' /\ ~Ending /\ ~Ending' /\ pc' # "setting"
      BY <2>1, CallFacts DEF Open, Ending
    <2>3. QED
      BY <2>2
  <1>2. CASE Declined \/ Opened \/ PropertiesSet \/ Leave \/ Unwind \/ Unwound \/ Reopen \/ GiveUp
    <2>1. /\ pc \in {"open", "properties", "leave", "unwind", "lost"}
          /\ pc' \in {"leave", "continue", "touch", "idle", "unwind", "lost", "check", "open", "over"}
          /\ pc' = "continue" => Opened
      BY <1>2 DEF Declined, Opened, PropertiesSet, Leave, Unwind, Unwound, Reopen, GiveUp, Fails,
         Goes, Receives,
         Resend, FirstStep
    <2>2. ~Ending /\ ~Ending' /\ pc' # "setting" /\ (Open' => Opened)
      BY <2>1 DEF Open, Ending
    <2>3. QED
      BY <2>2
  <1>3. CASE Continue \/ Written \/ Interrupted
    <2>1. /\ pc \in {"continue", "writing"} /\ pc' \in {"continue", "writing", "dispose"}
          /\ UNCHANGED RemoteFileHandle
      BY <1>3 DEF Continue, Written, Interrupted, requestVars
    <2>2. Open /\ ~Ending /\ ~Ending' /\ pc' # "setting"
      BY <1>0, <2>1 DEF Open, Ending
    <2>3. QED
      BY <2>2
  <1>4. CASE SendClose
    <2>1. pc = "continue" /\ pc' = "closing" /\ CloseRequest' = NextNumber
      BY <1>4 DEF SendClose
    <2>2. ~Open' /\ ~Ending /\ pc' # "setting"
      BY <2>1 DEF Open, Ending
    <2>3. QED
      BY <1>4, <2>1, <2>2
  <1>5. CASE CloseSent \/ SendProperties \/ PropertiesSent
    <2>1. /\ pc \in {"closing", "set", "setting"} /\ pc' \in {"set", "setting", "dispose"}
          /\ ~RemoteFileHandle' /\ CloseRequest' = CloseRequest
          /\ pc' = "setting" => SendProperties /\ PropertiesRequest' = NextNumber
      BY <1>0, <1>5 DEF CloseSent, SendProperties, PropertiesSent, AfterClose, requestVars
    <2>2. Ending /\ Ending' /\ ~Open'
      BY <2>1 DEF Open, Ending
    <2>3. QED
      BY <2>1, <2>2
  <1>6. CASE HandleWritten \/ DisposeResponse \/ Stores \/ Serve
    <2>1. UNCHANGED <<pc, RemoteFileHandle, CloseRequest, PropertiesRequest>>
      BY <1>6 DEF HandleWritten, Handles, DisposeResponse, Stores, Serve, requestVars
    <2>2. (Open' <=> Open) /\ (Ending' <=> Ending)
      BY <2>1 DEF Open, Ending
    <2>3. ~SendProperties \/ pc' # "setting"
      BY <2>1 DEF SendProperties
    <2>4. QED
      BY <2>1, <2>2, <2>3
  <1>7. CASE HandleRefused \/ HandleThrows
    <2>1. /\ pc \in Sending /\ UNCHANGED <<CloseRequest, PropertiesRequest>> /\ pc' \in {"set", "dispose"}
          /\ IF pc = "closing" THEN ~RemoteFileHandle' ELSE pc' = "dispose" /\ UNCHANGED RemoteFileHandle
      BY <1>7 DEF HandleRefused, HandleThrows, SendPacketThrows, Handles, AfterClose
    <2>2. CASE pc = "writing"
      <3>1. Open /\ ~Ending /\ ~Ending'
        BY <1>0, <2>1, <2>2 DEF Open, Ending
      <3>2. QED
        BY <2>1, <3>1
    <2>3. CASE pc \in {"closing", "setting"}
      <3>1. Ending /\ Ending' /\ ~Open'
        BY <1>0, <2>1, <2>3 DEF Open, Ending
      <3>2. QED
        BY <2>1, <3>1
    <2>4. QED
      BY <2>1, <2>2, <2>3 DEF Sending
  <1>8. CASE Disposed
    <2>1. /\ pc = "dispose" /\ pc' = "close" /\ call = NULL
          /\ FRequests = <<>> /\ UNCHANGED <<incoming, stored, call, FRequests>>
      BY <1>8, CallFacts DEF Disposed, AfterDispose, ShutInv
    <2>2. CASE RemoteFileHandle
      <3>1. SendsClose /\ CloseRequest' = NextNumber /\ ~Ending /\ ~Open'
        BY <1>8, <2>1, <2>2 DEF Disposed, SendsClose, Open, Ending
      <3>2. QED
        BY <2>1, <3>1
    <2>3. CASE ~RemoteFileHandle
      <3>1. CloseRequest' = CloseRequest /\ Ending /\ Ending' /\ ~Open'
        BY <1>8, <2>1, <2>3 DEF Disposed, Open, Ending
      <3>2. QED
        BY <2>1, <3>1
    <2>4. QED
      BY <2>2, <2>3
  <1>9. CASE Closed \/ CloseRefused
    <2>1. /\ pc = "close" /\ UNCHANGED CloseRequest
          /\ pc' \in {"close", "remove", "rename", "properties", "leave", "undo"}
          /\ \E p : p \in Acceptable(CloseRequest)
      BY <1>9 DEF Closed, CloseRefused, Receives, Goes, Fails, RetriesOrFails, AfterTransfer,
         Finish, requestVars
    <2>2. \A k \in Positions(outgoing) : ~Closes(k)
      BY <2>1, CloseServed
    <2>3. Ending /\ ~Open' /\ pc' # "setting"
      BY <2>1 DEF Open, Ending
    <2>4. QED
      BY <2>1, <2>2, <2>3
  <1>10. CASE Drop \/ WrongNumber
    <2>1. pc' \in {"over", "unwind"} /\ outgoing' = <<>>
      BY <1>10 DEF Drop, WrongNumber, Lost
    <2>2. ~Open' /\ ~Ending' /\ pc' # "setting"
      BY <2>1 DEF Open, Ending
    <2>3. QED
      BY <2>1, <2>2
  <1> HIDE DEF Goal
  <1>11. QED
    BY <1>1, <1>2, <1>3, <1>4, <1>5, <1>6, <1>7, <1>8, <1>9, <1>10 DEF Next, Transfer

\* A file is open no longer when its close was answered, or when it was never
\* opened.
LEMMA SettledStep ==
  ASSUME RequestsOK, ResponsesOK, UploadTypeOK, EarlyInv, CloseInv, ShutInv, Next, pc' \in Settled
  PROVE  ~handle'
  <1>1. CASE Serve
    <2>1. pc \in Settled /\ ~handle /\ pc # "open"
      BY <1>1 DEF Serve, ShutInv, Settled
    <2>2. Head(outgoing).kind # "open"
      <3>1. Head(outgoing) = outgoing[1] /\ 1 \in Positions(outgoing)
        BY <1>1, TailFacts DEF Serve, RequestsOK, Positions
      <3>2. QED
        BY <2>1, <3>1 DEF EarlyInv
    <2>3. QED
      BY <1>1, <2>1, <2>2 DEF Serve
  <1>2. CASE Drop \/ WrongNumber
    BY <1>2 DEF Drop, WrongNumber, Lost
  <1>3. CASE ~Serve /\ ~Drop /\ ~WrongNumber /\ pc \in Settled
    <2>1. handle' = handle
      BY <1>3 DEF Next, Transfer, SendCall, Checked, Discarded, Opened, NotOpened, Erased,
         Declined,
         Continue, Written,
         SendClose, CloseSent, SendProperties, PropertiesSent, Stores, HandleWritten, HandleRefused, HandleThrows, SendPacketThrows, Handles,
         DisposeResponse, Disposed, Closed, CloseRefused, Undone, Removed, Renamed, Touched, PropertiesSet,
         Leave, KeptAlive, Unwind, Unwound, Reopen, GiveUp, Interrupted, Returns, Receives, serverVars
    <2>2. QED
      BY <1>3, <2>1 DEF ShutInv
  <1>4. CASE Closed \/ CloseRefused
    <2>1. pc = "close" /\ handle' = handle /\ \E p : p \in Acceptable(CloseRequest)
      BY <1>4 DEF Closed, CloseRefused, Receives, serverVars
    <2>2. handle => \E k \in Positions(outgoing) : Closes(k)
      BY <2>1 DEF CloseInv, ClosedByThen
    <2>3. QED
      BY <2>1, <2>2, CloseServed
  <1>5. CASE Checked \/ Discarded \/ NotOpened \/ Erased
    <2>1. /\ Early /\ call # NULL /\ handle' = handle
          /\ \E p \in Acceptable(call) : Accept(call, p) /\ (pc = "open" => ~p.ok)
      BY <1>5 DEF Checked, Discarded, NotOpened, Erased, Returns, Early, serverVars, Verdict
    <2>2. QED
      BY <2>1, EarlyReceipt
  <1>6. CASE Declined \/ GiveUp
    <2>1. NothingUnderWay /\ handle' = handle
      BY <1>6 DEF Declined, GiveUp, EarlyInv, Early, serverVars
    <2>2. QED
      BY <2>1 DEF NothingUnderWay
  <1>7. ASSUME pc \notin Settled
        PROVE  ~(Undone \/ Removed \/ Renamed \/ Touched \/ PropertiesSet \/ Leave \/ KeptAlive)
    BY <1>7 DEF Settled, Undone, Removed, Renamed, Touched, PropertiesSet, Leave, KeptAlive,
       Returns, Receives
  <1>8. ASSUME SendCall \/ Opened \/ Continue \/ Written \/ SendClose \/ CloseSent \/ SendProperties \/ PropertiesSent
               \/ Stores \/ HandleWritten \/ HandleRefused \/ HandleThrows \/ DisposeResponse \/ Disposed \/ Interrupted
               \/ Unwind \/ Unwound \/ Reopen
        PROVE  pc' \in {pc, "continue", "writing", "closing", "set", "setting", "dispose", "close", "unwind", "lost",
                 "check", "open"}
    BY <1>8 DEF SendCall, Opened, Continue, Written, SendClose, CloseSent, SendProperties,
       PropertiesSent, Stores,
       HandleWritten, HandleRefused, HandleThrows, SendPacketThrows, Handles, DisposeResponse, Disposed, Interrupted, Unwind, Unwound, Reopen,
       AfterClose, AfterDispose, FirstStep
  <1>9. ASSUME pc \notin Settled
        PROVE  ~(SendCall \/ Opened \/ Continue \/ Written \/ SendClose \/ CloseSent \/ SendProperties \/ PropertiesSent
               \/ Stores \/ HandleWritten \/ HandleRefused \/ HandleThrows \/ DisposeResponse \/ Disposed \/ Interrupted
               \/ Unwind \/ Unwound \/ Reopen)
    BY <1>8, <1>9 DEF Settled
  <1>10. QED
    BY <1>1, <1>2, <1>3, <1>4, <1>5, <1>6, <1>7, <1>9 DEF Next, Transfer

\* Numbers stay unique, and grow on one connection.
LEMMA NumbersStep ==
  ASSUME RequestsOK, ResponsesOK, UploadTypeOK, CloseInv, ShutInv, Next
  PROVE  /\ NumbersOK' /\ OrderInv'
         /\ (FMessageCounter' \in Nat /\ FMessageCounter' >= FMessageCounter) \/ Reopen
  <1>0. NumbersOK /\ OrderInv /\ FMessageCounter \in Nat /\ NextNumber = FMessageCounter + 1
    BY Fresh DEF ShutInv
  <1>1. CASE Leaves
    BY <1>0, <1>1 DEF Leaves
  <1>2. CASE AnySend
    BY <1>0, <1>2, AnySendNumbers
  <1>3. CASE Loses
    BY <1>0, <1>3, NothingDue DEF Loses
  <1>4. CASE Reopen
    BY <1>0, <1>4, NothingDue
  <1>5. CASE Serve
    BY <1>0, <1>5, ServedNumbers
  <1>6. QED
    BY <1>1, <1>2, <1>3, <1>4, <1>5, LeavesShape DEF AnySend

\* Every step keeps what is said of the close, whatever was refused.
LEMMA ShutStep ==
  ASSUME RequestsOK, ResponsesOK, UploadTypeOK, EarlyInv, CloseInv, ShutInv, Next
  PROVE  ShutInv'
  <1>0. /\ NumbersOK /\ OrderInv /\ FMessageCounter \in Nat /\ NextNumber = FMessageCounter + 1
        /\ \A n \in Due : n \in 1..FMessageCounter
    BY Fresh DEF ShutInv
  <1>1. /\ NumbersOK' /\ OrderInv'
        /\ (FMessageCounter' \in Nat /\ FMessageCounter' >= FMessageCounter) \/ Reopen
    BY NumbersStep
  <1>2. /\ call' # NULL => pc' \in DOMAIN Calls
        /\ FRequests' # <<>> => pc' \in Queued
        /\ \A n \in Elements(FRequests') : n \in Elements(FRequests) \/ (Continue /\ n = NextNumber)
    BY PlacesKept
  <1>3. /\ Open' => Open \/ Opened
        /\ Ending' => (Ending /\ CloseRequest' = CloseRequest)
                      \/ ((SendClose \/ SendsClose) /\ CloseRequest' = NextNumber)
        /\ (\E k \in Positions(outgoing) : Closes(k)) =>
             (Ending' /\ CloseRequest' = CloseRequest) \/ outgoing' = <<>>
        /\ pc' = "setting" => IF SendProperties THEN PropertiesRequest' = NextNumber
                              ELSE pc = "setting" /\ PropertiesRequest' = PropertiesRequest
    BY EndingStep
  <1>4. ASSUME Reopen
        PROVE  /\ FRequests' = <<>> /\ ~Ending' /\ pc' # "setting" /\ ~Open'
    <2>1. pc = "lost" /\ pc' \in {"check", "open"} /\ FRequests' = FRequests
      BY <1>4 DEF Reopen, FirstStep
    <2>2. FRequests = <<>>
      BY <2>1 DEF ShutInv, Queued
    <2>3. QED
      BY <2>1, <2>2 DEF Ending, Open
  <1>5. ASSUME AnySend PROVE FMessageCounter' = NextNumber
    BY <1>0, <1>5, AnySendNumbers
  <1>6. \A n \in Elements(FRequests') : n \in 1..FMessageCounter'
    <2>1. CASE Reopen
      BY <1>4, <2>1 DEF Elements, Positions
    <2>2. CASE ~Reopen
      <3>1. \A n \in 1..FMessageCounter : n \in 1..FMessageCounter'
        BY <1>0, <1>1, <2>2
      <3>2. Continue => NextNumber \in 1..FMessageCounter'
        BY <1>0, <1>5 DEF AnySend
      <3>3. QED
        BY <1>2, <3>1, <3>2 DEF ShutInv
    <2>3. QED
      BY <2>1, <2>2
  <1>7. Ending' => CloseRequest' \in 1..FMessageCounter'
    <2>1. CASE SendClose \/ SendsClose
      BY <1>0, <1>3, <1>5, <2>1 DEF AnySend, ShutInv
    <2>2. CASE ~(SendClose \/ SendsClose)
      BY <1>0, <1>1, <1>3, <1>4, <2>2 DEF ShutInv
    <2>3. QED
      BY <2>1, <2>2
  <1>8. pc' = "setting" => PropertiesRequest' \in 1..FMessageCounter'
    <2>1. CASE SendProperties
      BY <1>0, <1>3, <1>5, <2>1 DEF AnySend
    <2>2. CASE ~SendProperties
      BY <1>0, <1>1, <1>3, <1>4, <2>2 DEF ShutInv
    <2>3. QED
      BY <2>1, <2>2
  <1>9. Open' => \A n \in Due' : Noted(n)'
    <2>1. CASE Opened
      <3>1. Early /\ call # NULL /\ outgoing' = outgoing /\ \E p \in Acceptable(call) : Accept(call, p)
        BY <2>1 DEF Opened, Early
      <3>2. outgoing' = <<>> /\ incoming' = {}
        BY <3>1, EarlyReceipt
      <3>3. Due' = {}
        BY <3>2 DEF Due, Positions
      <3>4. QED
        BY <3>3
    <2>2. CASE Open
      <3>1. \A n \in Due : Noted(n)
        BY <2>2 DEF ShutInv
      <3>2. CASE Leaves
        BY <2>2, <3>1, <3>2 DEF Leaves, Shut
      <3>3. CASE Continue
        BY <1>0, <3>1, <3>3, AnySendNumbers DEF AnySend, Noted
      <3>4. CASE SendCall \/ SendClose \/ SendProperties \/ SendsClose
        <4>1. pc' \in DOMAIN Calls \union {"closing", "setting", "close"}
          BY <3>4 DEF SendCall, SendClose, SendProperties, SendsClose
        <4>2. ~Open'
          BY <4>1, CallFacts DEF Open
        <4>3. QED
          BY <4>2
      <3>5. CASE Loses \/ Reopen
        BY <1>0, <3>5, NothingDue
      <3>6. CASE Serve
        BY <1>0, <3>1, <3>6, ServedNumbers DEF Noted
      <3>7. QED
        BY <3>2, <3>3, <3>4, <3>5, <3>6, LeavesShape
    <2>3. QED
      BY <1>3, <2>1, <2>2
  <1>10. ASSUME NEW k \in Positions(outgoing'), outgoing'[k].kind = "close"
         PROVE  /\ outgoing'[k].number = CloseRequest' /\ Ending'
                /\ \A n \in Due' : n < CloseRequest' => Noted(n)'
    <2>1. CASE Leaves \/ Serve
      <3>1. PICK j \in Positions(outgoing) : outgoing'[k] = outgoing[j]
        BY <1>0, <1>10, <2>1, ServedNumbers DEF Leaves
      <3>2. Closes(j)
        BY <1>10, <3>1 DEF Closes
      <3>3. outgoing' # <<>>
        BY <1>10 DEF Positions
      <3>4. /\ outgoing[j].number = CloseRequest /\ Ending' /\ CloseRequest' = CloseRequest
            /\ \A n \in Due : n < CloseRequest => Noted(n)
        BY <1>3, <3>2, <3>3 DEF ShutInv
      <3>5. CASE Leaves
        BY <3>1, <3>2, <3>4, <3>5 DEF Leaves, Shut
      <3>6. CASE Serve
        BY <1>0, <3>1, <3>4, <3>6, ServedNumbers DEF Noted
      <3>7. QED
        BY <2>1, <3>5, <3>6
    <2>2. CASE SendClose \/ SendsClose
      <3>1. Open /\ pc' \in {"closing", "close"} /\ CloseRequest' = NextNumber
        <4>1. CASE SendClose
          BY <4>1 DEF SendClose, Open
        <4>2. CASE SendsClose
          BY <1>3, <4>2 DEF SendsClose, Open, Ending
        <4>3. QED
          BY <2>2, <4>1, <4>2
      <3>2. \A n \in Due : Noted(n)
        BY <3>1 DEF ShutInv
      <3>3. /\ Due' = Due \union {NextNumber}
            /\ (k \in Positions(outgoing) /\ outgoing'[k] = outgoing[k]) \/ outgoing'[k].number = NextNumber
            /\ \A n : Noted(n) => Contains(FPacketNumbers', n)
        BY <1>0, <1>10, <2>2, AnySendNumbers DEF AnySend
      <3>4. ~Ending
        BY <3>1 DEF Open, Ending
      <3>5. ~(k \in Positions(outgoing) /\ outgoing'[k] = outgoing[k])
        BY <1>10, <3>4 DEF ShutInv, Closes
      <3>6. Ending'
        BY <3>1 DEF Ending
      <3>7. \A n \in Due' : n < CloseRequest' => Contains(FPacketNumbers', n)
        BY <1>0, <3>1, <3>2, <3>3
      <3>8. QED
        BY <3>1, <3>3, <3>5, <3>6, <3>7 DEF Noted
    <2>3. CASE SendCall \/ Continue \/ SendProperties
      <3>1. ~SendClose /\ ~SendsClose
        <4>1. SendCall => pc' # "closing" /\ pc' # "close"
          BY CallFacts DEF SendCall
        <4>2. QED
          BY <2>3, <4>1 DEF Continue, SendProperties, SendClose, SendsClose
      <3>2. /\ Due' = Due \union {NextNumber}
            /\ k \in Positions(outgoing) /\ outgoing'[k] = outgoing[k]
            /\ \A n : Noted(n) => Contains(FPacketNumbers', n)
        BY <1>0, <1>10, <2>3, <3>1, AnySendNumbers DEF AnySend
      <3>3. Closes(k) /\ outgoing' # <<>>
        BY <1>10, <3>2 DEF Closes, Positions
      <3>4. /\ outgoing[k].number = CloseRequest /\ Ending' /\ CloseRequest' = CloseRequest
            /\ CloseRequest \in 1..FMessageCounter
            /\ \A n \in Due : n < CloseRequest => Noted(n)
        BY <1>3, <3>2, <3>3 DEF ShutInv
      <3>5. \A n \in Due' : n < CloseRequest' => Contains(FPacketNumbers', n)
        BY <1>0, <3>2, <3>4
      <3>6. QED
        BY <3>2, <3>4, <3>5 DEF Noted
    <2>4. CASE Loses \/ Reopen
      BY <1>0, <1>10, <2>4, NothingDue
    <2>5. QED
      BY <2>1, <2>2, <2>3, <2>4, LeavesShape
  <1>11. pc' \in Settled => ~handle'
    BY SettledStep
  <1>12. \A k \in Positions(outgoing') : outgoing'[k].kind = "close" =>
           /\ outgoing'[k].number = CloseRequest' /\ Ending'
           /\ \A n \in Due' : n < CloseRequest' => Noted(n)'
    BY <1>10
  <1>13. QED
    BY <1>1, <1>2, <1>6, <1>7, <1>8, <1>9, <1>11, <1>12 DEF ShutInv, Closes, Settled, Calls

----------------------------------------------------------------------------
(* How the transfer ends                                                   *)

\* Every step keeps EndInv.
LEMMA EndStep ==
  ASSUME RequestsOK, ResponsesOK, UploadTypeOK, CloseInv, ShutInv, EndInv, Next
  PROVE  EndInv'
  <1>0. (FMessageCounter' \in Nat /\ FMessageCounter' >= FMessageCounter) \/ Reopen
    BY NumbersStep
  <1>1. FMessageCounter \in Nat /\ NextNumber = FMessageCounter + 1
    BY Fresh DEF ShutInv
  <1>2. ASSUME ~Reopen, NEW n \in 1..FMessageCounter PROVE n \in 1..FMessageCounter'
    BY <1>0, <1>1, <1>2
  <1>3. CASE HandleRefused \/ HandleThrows
    <2>1. /\ pc \in Sending /\ SendPacketThrows
          /\ UNCHANGED <<DoResume, Preserve, TransferFinished, PropertiesRequest, result>>
      BY <1>3 DEF HandleRefused, HandleThrows, Handles, choiceVars
    <2>2. /\ pc' = "set" => Preserve /\ ~DoResume
          /\ pc' \in {"set", "dispose"}
          /\ pc' = "dispose" => error' \/ ~(Preserve /\ ~DoResume)
      BY <2>1 DEF SendPacketThrows, AfterClose
    <2>3. pc \notin {"idle", "over"}
      BY <2>1 DEF Sending
    <2>4. QED
      BY <2>1, <2>2, <2>3 DEF EndInv
  <1>4. CASE Serve \/ Stores \/ HandleWritten \/ DisposeResponse \/ SendCall \/ Unwind
    <2>1. UNCHANGED <<pc, DoResume, Preserve, error, TransferFinished, PropertiesRequest, result>>
      BY <1>4 DEF Serve, Stores, HandleWritten, Handles, DisposeResponse, SendCall, Unwind,
         choiceVars, flowVars,
         requestVars
    <2>2. ~Reopen \/ pc = "lost"
      BY DEF Reopen
    <2>3. PropertiesRequest \in 1..FMessageCounter /\ pc # "lost" => PropertiesRequest \in 1..FMessageCounter'
      BY <1>2, <2>2
    <2>4. QED
      BY <2>1, <2>3 DEF EndInv
  <1>5. CASE Checked \/ Discarded \/ NotOpened \/ Erased \/ Declined \/ Opened \/ Undone \/ Touched \/ Written \/ Continue
             \/ Unwound \/ Reopen \/ PropertiesSet
    <2>1. /\ pc' \in {"open", "discard", "erase", "leave", "continue", "writing", "lost", "check", "touch"}
          /\ pc \notin {"idle", "over"} /\ result' = result
      BY <1>5 DEF Checked, Discarded, NotOpened, Erased, Declined, Opened, Undone, Touched,
         Written,
         Continue, Unwound,
         Reopen, PropertiesSet, Returns, Receives, RetriesOrFails, Goes, Fails, Resend, FirstStep, flowVars
    <2>2. QED
      BY <2>1 DEF EndInv
  <1>6. CASE Drop \/ WrongNumber \/ KeptAlive \/ GiveUp \/ Leave
    <2>1. /\ pc' \in {"unwind", "over", "idle"}
          /\ pc' = "unwind" => pc \notin {"idle", "over"} /\ result' = result
      <3>1. pc = "over" => Awaited = NULL
        BY CallFacts, ZenonT(30) DEF Awaited, Sending
      <3>2. QED
        BY <1>6, <3>1 DEF Drop, WrongNumber, Lost, KeptAlive, GiveUp, Leave, Goes, flowVars
    <2>2. QED
      BY <2>1 DEF EndInv
  <1>7. CASE Interrupted \/ SendClose
    <2>1. /\ pc' \in {"dispose", "closing"} /\ result' = result /\ pc = "continue"
          /\ pc' = "dispose" => error' = TRUE
      BY <1>7 DEF Interrupted, SendClose, flowVars
    <2>2. QED
      BY <2>1 DEF EndInv
  <1>8. CASE CloseSent
    <2>1. /\ pc = "closing" /\ UNCHANGED <<DoResume, Preserve, error, TransferFinished, result>>
          /\ pc' = IF Preserve /\ ~DoResume THEN "set" ELSE "dispose"
      BY <1>8 DEF CloseSent, AfterClose, choiceVars, flowVars
    <2>2. QED
      BY <2>1 DEF EndInv
  <1>9. CASE SendProperties
    <2>1. /\ pc = "set" /\ pc' = "setting" /\ UNCHANGED <<DoResume, result>>
          /\ PropertiesRequest' = NextNumber /\ FMessageCounter' = NextNumber
      BY <1>9 DEF SendProperties, SendPacket, choiceVars, flowVars
    <2>2. PropertiesRequest' \in 1..FMessageCounter'
      BY <1>1, <2>1
    <2>3. QED
      BY <2>1, <2>2 DEF EndInv
  <1>10. CASE PropertiesSent
    <2>1. /\ pc = "setting" /\ pc' = "dispose" /\ UNCHANGED <<result, PropertiesRequest, FMessageCounter>>
      BY <1>10 DEF PropertiesSent, requestVars, flowVars
    <2>2. QED
      BY <2>1 DEF EndInv
  <1>11. CASE Disposed
    <2>1. /\ pc = "dispose" /\ pc' = "close" /\ TransferFinished' = ~error
          /\ UNCHANGED <<DoResume, Preserve, error, result, PropertiesRequest>>
      BY <1>11 DEF Disposed, AfterDispose, choiceVars, flowVars
    <2>2. ~Reopen
      BY <2>1 DEF Reopen
    <2>3. PropertiesRequest \in 1..FMessageCounter => PropertiesRequest' \in 1..FMessageCounter'
      BY <1>2, <2>1, <2>2
    <2>4. QED
      BY <2>1, <2>3 DEF EndInv
  <1>12. CASE Closed \/ CloseRefused
    <2>1. /\ pc = "close" /\ UNCHANGED <<DoResume, Preserve, TransferFinished, result, PropertiesRequest, FMessageCounter>>
          /\ \/ pc' = AfterTransfer /\ error' = error
             \/ pc' = "close" /\ error' = error
             \/ pc' = "leave"
      BY <1>12 DEF Closed, CloseRefused, Receives, RetriesOrFails, Goes, Fails, choiceVars,
         requestVars
    <2>2. CASE pc' = AfterTransfer /\ error' = error
      <3>1. \/ pc' = "leave"
            \/ pc' \in {"remove", "rename"} /\ DoResume
            \/ pc' = "properties" /\ ~DoResume /\ Preserve /\ TransferFinished
            \/ pc' = "undo" /\ ~DoResume /\ ~TransferFinished
        BY <2>2 DEF AfterTransfer, Finish
      <3>2. error \in BOOLEAN /\ TransferFinished \in BOOLEAN
        BY DEF UploadTypeOK
      <3>3. QED
        BY <2>1, <2>2, <3>1, <3>2 DEF EndInv
    <2>3. QED
      BY <2>1, <2>2 DEF EndInv
  <1>13. CASE Removed \/ Renamed
    <2>1. /\ pc \in {"remove", "rename"} /\ UNCHANGED <<DoResume, result>>
          /\ pc' \in {"remove", "rename", "touch", "leave"}
      BY <1>13 DEF Removed, Renamed, Returns, RetriesOrFails, Goes, Fails, choiceVars
    <2>2. QED
      BY <2>1 DEF EndInv
  <1>14. QED
    BY <1>3, <1>4, <1>5, <1>6, <1>7, <1>8, <1>9, <1>10, <1>11, <1>12, <1>13 DEF Next, Transfer

\* An exception that leaves the properties request unreserved is the end of the
\* attempt.
LEMMA OrphanStep ==
  ASSUME UploadTypeOK, EarlyInv, EndInv, OrphanInv, Next
  PROVE  OrphanInv' /\ (orphaned /\ ~orphaned' => Reopen)
  <1>0. DoResume' = DoResume /\ {orphaned, error, TransferFinished, DoResume} \subseteq BOOLEAN
    BY StepShape DEF Shape, choiceVars, UploadTypeOK
  <1>1. CASE HandleRefused \/ HandleThrows
    <2>1. pc \in Sending /\ SendPacketThrows /\ UNCHANGED result
      BY <1>1 DEF HandleRefused, HandleThrows, Handles
    <2>2. ~orphaned
      BY <2>1 DEF OrphanInv, Sending
    <2>3. CASE pc = "closing"
      BY <2>1, <2>2, <2>3 DEF SendPacketThrows, OrphanInv
    <2>4. CASE pc # "closing"
      <3>1. error' = TRUE /\ orphaned' = (pc = "setting") /\ pc' = "dispose"
        BY <2>1, <2>4 DEF SendPacketThrows
      <3>2. result' # "done"
        BY <2>1 DEF EndInv, Sending
      <3>3. orphaned' => ~DoResume
        BY <3>1 DEF EndInv
      <3>4. QED
        BY <1>0, <2>2, <3>1, <3>2, <3>3 DEF OrphanInv
    <2>5. QED
      BY <2>3, <2>4
  <1>2. CASE Reopen
    <2>1. ~orphaned'
      BY <1>2 DEF Reopen
    <2>2. QED
      BY <1>2, <2>1 DEF OrphanInv
  <1>3. CASE ~(HandleRefused \/ HandleThrows \/ Reopen)
    <2>1. orphaned' = orphaned
      BY <1>3 DEF Next, Transfer, SendCall, Checked, Discarded, Opened, NotOpened, Erased,
         Declined,
         Continue, Written, SendClose, CloseSent, SendProperties, PropertiesSent, Stores,
         HandleWritten, DisposeResponse, Disposed, Closed, CloseRefused, Undone, Removed, Renamed,
         Touched, PropertiesSet, Leave, KeptAlive, WrongNumber, Unwind, Unwound, GiveUp, Serve,
         Interrupted, Drop, Lost, Returns, Receives, requestVars
    <2>2. ASSUME orphaned
          PROVE  /\ error' /\ result' # "done"
                 /\ pc' \in {"dispose", "close", "undo", "leave", "idle", "over", "unwind", "lost"}
      <3>1. /\ ~DoResume /\ error = TRUE /\ result # "done"
            /\ pc \in {"dispose", "close", "undo", "leave", "idle", "over", "unwind", "lost"}
        BY <1>0, <2>2 DEF OrphanInv
      <3>2. ~( \/ Checked \/ Discarded \/ Opened \/ NotOpened \/ Erased \/ Declined \/ Continue
               \/ Written \/ SendClose \/ CloseSent \/ SendProperties \/ PropertiesSent
               \/ HandleWritten \/ Removed \/ Renamed \/ Touched \/ PropertiesSet \/ Interrupted)
        BY <3>1 DEF Checked, Discarded, Opened, NotOpened, Erased, Declined, Continue, Written,
           SendClose, CloseSent, SendProperties, PropertiesSent, HandleWritten, Handles, Sending,
           Removed, Renamed, Touched, PropertiesSet, Interrupted, Returns, Receives
      <3>3. CASE SendCall \/ Stores \/ DisposeResponse \/ Unwind \/ Serve \/ Disposed \/ Unwound \/ GiveUp
        BY <3>1, <3>3 DEF SendCall, Stores, DisposeResponse, Unwind, Serve, Disposed,
           AfterDispose,
           Unwound, GiveUp, flowVars
      <3>4. CASE Closed \/ CloseRefused
        <4>1. ~TransferFinished
          BY <1>0, <3>1, <3>4 DEF EndInv, Closed, CloseRefused, Receives
        <4>2. pc' = "undo" /\ error' = error /\ result' = result
          BY <3>1, <3>4, <4>1 DEF Closed, CloseRefused, Receives, AfterTransfer, Goes
        <4>3. QED
          BY <3>1, <4>2
      <3>5. CASE Undone \/ Leave \/ KeptAlive
        BY <3>1, <3>5 DEF Undone, Leave, KeptAlive, Returns, Goes
      <3>6. CASE WrongNumber \/ Drop
        BY <3>1, <3>6 DEF WrongNumber, Drop, Lost, flowVars
      <3>7. QED
        BY <1>3, <3>2, <3>3, <3>4, <3>5, <3>6 DEF Next, Transfer
    <2>3. QED
      BY <1>0, <2>1, <2>2 DEF OrphanInv
  <1>4. QED
    BY <1>1, <1>2, <1>3

----------------------------------------------------------------------------
(* What the server does to the files                                       *)

\* While the blocks are written the server changes a file only to empty it when
\* it is opened afresh, ...
Empties ==
  /\ pc = "open" /\ ~ResumeTransfer
  /\ files' = [files EXCEPT ![RemoteFile] = {}]

\* ... to write the next block while the transfer runs, ...
Running == {"continue", "writing", "closing", "set", "setting", "dispose", "close"}
Grows ==
  /\ pc \in Running /\ Oldest.kind = "write"
  /\ Oldest.block \in Nat \ {0} /\ files[RemoteFile] = 1..(Oldest.block - 1)
  /\ files' = [files EXCEPT ![RemoteFile] = 1..Oldest.block]

\* ... and to do what the thread is waiting for.
Deletes ==
  /\ pc \in {"discard", "erase", "undo", "remove"}
  /\ pc = "erase" => ~ResumeTransfer
  /\ files' = [files EXCEPT ![Operand[pc]] = NoFile]
Moves ==
  /\ pc = "rename" /\ call # NULL /\ Oldest.number = call
  /\ files' = [dest |-> files["partial"], partial |-> NoFile]

LEMMA ServerStep ==
  ASSUME RequestsOK, ResponsesOK, UploadTypeOK, UploadInvariant, ShutInv, PendingInv, Serve, ~holed'
  PROVE  /\ UNCHANGED files \/ Empties \/ Grows \/ Deletes \/ Moves
         /\ Oldest.kind = "write" => Grows
  <1> USE DEF UploadInvariant, PendingInv
  <1>0. 1 \in Positions(outgoing)
    BY ServeFacts DEF Positions
  <1>1. ASSUME Opens PROVE UNCHANGED files \/ Empties
    <2>1. /\ pc = "open" /\ RemoteFile \in DOMAIN files
          /\ files' = [files EXCEPT ![RemoteFile] = IF ResumeTransfer /\ @ # NoFile THEN @ ELSE {}]
      BY <1>1, OpenFacts
    <2>2. CASE ResumeTransfer
      <3>1. ~holed
        BY <1>1, ServeFacts DEF Refuses
      <3>2. files[RemoteFile] = 1..FTransfered
        BY <2>1, <2>2, <3>1 DEF ResumeInv
      <3>3. 1..FTransfered \subseteq Blocks
        BY BoundAssumption DEF UploadTypeOK, Blocks
      <3>4. files[RemoteFile] # NoFile
        BY <3>2, <3>3, ContentsFacts
      <3>5. files' = [files EXCEPT ![RemoteFile] = files[RemoteFile]]
        BY <2>1, <2>2, <3>4
      <3>6. files \in [Files -> Contents]
        BY DEF UploadTypeOK
      <3>7. QED
        BY <3>5, <3>6
    <2>3. QED
      BY <2>1, <2>2 DEF Empties
  <1>2. ASSUME Writes PROVE Grows
    <2>1. ~holed
      BY <1>2, ServeFacts DEF Refuses
    <2>2. /\ Oldest.block \in Nat \ {0}
          /\ files[RemoteFile] = 1..(Oldest.block - 1)
          /\ files' = [files EXCEPT ![RemoteFile] = 1..Oldest.block]
      BY <1>2, <2>1, WritesNext
    <2>3. handle
      BY <1>2 DEF Writes
    <2>4. pc \notin Settled
      BY <2>3 DEF ShutInv
    <2>5. ~Early
      BY <2>3, EarlyRequest
    <2>6. pc \notin {"unwind", "lost"}
      BY <2>3 DEF EarlyInv, NothingUnderWay
    <2>7. pc \in Running
      BY <2>4, <2>5, <2>6, PlacesFacts DEF Settled, Early, Running, UploadTypeOK
    <2>8. QED
      BY <1>2, <2>2, <2>7 DEF Writes, Grows
  <1>3. Oldest.kind \in {"remove", "rename"} =>
          /\ Oldest.number = call /\ call # NULL /\ pc \in DOMAIN Calls
          /\ Oldest.kind = Calls[pc] /\ Oldest.file = Operand[pc]
    <2>1. outgoing[1].number # NULL
      BY <1>0, Numbered
    <2>2. QED
      BY <1>0, <2>1 DEF CallInv, Oldest
  <1>4. ASSUME Removes, holed' = (holed \/ (pc = "erase" /\ ResumeTransfer)) PROVE Deletes
    <2>1. pc \in {"discard", "erase", "undo", "remove"}
      BY <1>3, <1>4, CallFacts DEF Removes
    <2>2. pc = "erase" => ~ResumeTransfer
      BY <1>4
    <2>3. QED
      BY <1>3, <1>4, <2>1, <2>2 DEF Removes, Deletes
  <1>5. ASSUME Renames PROVE Moves
    <2>1. pc = "rename"
      BY <1>3, <1>5, CallFacts DEF Renames
    <2>2. QED
      BY <1>3, <1>5, <2>1 DEF Renames, Moves
  <1>6. ASSUME Refuses PROVE UNCHANGED files /\ Oldest.kind # "write"
    BY <1>6 DEF Refuses
  <1>7. QED
    BY <1>1, <1>2, <1>4, <1>5, <1>6, ServeFacts DEF Opens, Writes, ClosesIt, Removes, Renames,
       Answers

\* The response to a call has not been stored for anybody.
LEMMA OwnCall ==
  ASSUME RequestsOK, ResponsesOK, UploadTypeOK, PendingInv, pc \in DOMAIN Calls, call # NULL,
         NEW p \in Acceptable(call)
  PROVE  p \in incoming /\ p.number = call
  <1> USE DEF PendingInv
  <1>1. call \in Nat \ {NULL} /\ \A n : ~Loose(n)
    BY NothingLoose DEF UploadTypeOK
  <1>2. p.number = call
    BY <1>1, OwnReceipt
  <1>3. Stored(call) = {}
    <2>1. \A s \in stored : Noted(s.packet)
      BY Fresh
    <2>2. QED
      BY <2>1 DEF Stored, DueInv
  <1>4. QED
    BY <1>2, <1>3 DEF Acceptable, Arriving

----------------------------------------------------------------------------
(* A file that is closed without an error is complete                      *)

\* No response of the queue is a refusal.
LEMMA NoRefusal ==
  ASSUME RequestsOK, ResponsesOK, UploadTypeOK, PendingInv, ~holed
  PROVE  ~HandleRefused
  <1> USE DEF PendingInv
  <1> SUFFICES ASSUME HandleRefused PROVE FALSE
    OBVIOUS
  <1>1. pc \in Sending /\ FRequests # <<>> /\ \E p \in Acceptable(Awaited) : Verdict(Awaited, p) = "refused"
    BY DEF HandleRefused, SendPacketThrows, Handles
  <1>2. \A p \in Acceptable(Awaited) : p.number = Awaited /\ p.ok
    BY <1>1, OwnBlock, NeverRefused
  <1>3. QED
    BY <1>1, <1>2 DEF Verdict

\* The last block is there as long as the queue does not end in an error.
LEMMA SentFrom ==
  ASSUME Next, ~HandleRefused, UploadTypeOK, Sent'
  PROVE  SendClose \/ Sent
  <1>1. CASE \/ Checked \/ Discarded \/ NotOpened \/ Erased \/ Undone \/ Removed \/ Renamed \/ Touched \/ KeptAlive
             \/ SendCall \/ Opened \/ Declined
    <2>1. pc' \in DOMAIN Calls \union {"leave", "over", "continue"}
      BY <1>1, CallFacts DEF Checked, Discarded, NotOpened, Erased, Undone, Removed, Renamed,
         Touched,
         KeptAlive,
         SendCall, Opened, Declined, Returns, RetriesOrFails, Goes, Fails
    <2>2. QED
      BY <2>1, CallFacts DEF Sent
  <1>2. CASE Closed \/ CloseRefused
    <2>1. /\ pc = "close" /\ TransferFinished' = TransferFinished
          /\ pc' \in {"close", "leave", "remove", "rename", "properties", "undo"}
      BY <1>2 DEF Closed, CloseRefused, Receives, RetriesOrFails, Goes, Fails, AfterTransfer,
         Finish, requestVars
    <2>2. QED
      BY <2>1 DEF Sent
  <1>3. CASE PropertiesSet \/ Drop \/ WrongNumber \/ Unwind \/ Unwound \/ Reopen \/ GiveUp \/ Leave \/ Continue
             \/ Written
    <2>1. pc' \in {"leave", "touch", "over", "unwind", "lost", "check", "open", "idle", "writing", "continue"}
      BY <1>3 DEF PropertiesSet, Drop, WrongNumber, Lost, Unwind, Unwound, Reopen, GiveUp, Leave,
         Continue, Written,
         Receives, RetriesOrFails, Goes, Fails, Resend, FirstStep
    <2>2. QED
      BY <2>1 DEF Sent
  <1>4. CASE Interrupted
    BY <1>4 DEF Interrupted, Sent
  <1>5. CASE CloseSent \/ SendProperties \/ PropertiesSent
    BY <1>5 DEF CloseSent, SendProperties, PropertiesSent, Sent
  <1>6. CASE Disposed
    BY <1>6 DEF Disposed, AfterDispose, Sent
  <1>7. CASE Serve \/ Stores \/ HandleWritten \/ DisposeResponse
    <2>1. UNCHANGED <<pc, error, TransferFinished>>
      BY <1>7 DEF Serve, Stores, HandleWritten, Handles, DisposeResponse, flowVars, requestVars
    <2>2. QED
      BY <2>1 DEF Sent
  <1>8. CASE HandleThrows
    <2>1. pc = "closing" \/ (pc' = "dispose" /\ error' = TRUE)
      BY <1>8 DEF HandleThrows, SendPacketThrows
    <2>2. QED
      BY <2>1 DEF Sent
  <1>9. QED
    BY <1>1, <1>2, <1>3, <1>4, <1>5, <1>6, <1>7, <1>8 DEF Next, Transfer

\* When the close is sent the last block is there or the last one under way ...
LEMMA CloseSentComplete ==
  ASSUME RequestsOK, UploadTypeOK, TransferInv, ~holed, SendClose
  PROVE  Complete'
  <1>1. /\ pc = "continue" /\ FTransfered = N /\ N \in Nat /\ Len(outgoing) \in Nat
        /\ SendPacket("close", RemoteFile, 0) /\ UNCHANGED <<files, DoResume>>
    BY BoundAssumption DEF SendClose, serverVars, choiceVars, RequestsOK
  <1>2. /\ files[RemoteFile] = 1..(N - Len(outgoing))
        /\ \A k \in Positions(outgoing) :
             outgoing[k].kind = "write" /\ outgoing[k].block = N - Len(outgoing) + k
    BY <1>1 DEF TransferInv
  <1>3. UNCHANGED RemoteFile
    BY <1>1 DEF RemoteFile
  <1>4. CASE Len(outgoing) = 0
    BY <1>1, <1>2, <1>3, <1>4 DEF Complete, Blocks
  <1>5. CASE Len(outgoing) # 0
    <2>1. "close" \in Kinds /\ RemoteFile \in Files /\ 0 \in Nat
      BY RemoteFileFacts, KindsAssumption
    <2>2. Len(outgoing') = Len(outgoing) + 1 /\ \A k \in 1..Len(outgoing) : outgoing'[k] = outgoing[k]
      BY <1>1, <2>1, SendFacts
    <2>3. Len(outgoing) \in Positions(outgoing) /\ Len(outgoing) \in Positions(outgoing')
      BY <1>1, <1>5, <2>2 DEF Positions
    <2>4. outgoing'[Len(outgoing)].kind = "write" /\ outgoing'[Len(outgoing)].block = N
      BY <1>1, <1>2, <2>2, <2>3 DEF Positions
    <2>5. QED
      BY <2>3, <2>4 DEF Complete
  <1>6. QED
    BY <1>4, <1>5

\* ... and it is not lost.
LEMMA CompleteKept ==
  ASSUME RequestsOK, ResponsesOK, UploadTypeOK, UploadInvariant, ShutInv, PendingInv, Shape, Next,
         ~holed', Sent, Sent', Complete
  PROVE  Complete'
  <1>0. UNCHANGED RemoteFile
    BY RemoteFileFacts DEF Shape
  <1>1. CASE Quiet
    BY <1>0, <1>1 DEF Quiet, serverVars, Complete, Positions
  <1>2. CASE Sends
    <2>1. /\ Len(outgoing) \in Nat /\ Len(outgoing') = Len(outgoing) + 1
          /\ \A k \in 1..Len(outgoing) : outgoing'[k] = outgoing[k]
          /\ UNCHANGED files
      BY <1>2, SendsFacts DEF Sends, serverVars
    <2>2. Positions(outgoing) \subseteq Positions(outgoing')
      BY <2>1 DEF Positions
    <2>3. QED
      BY <1>0, <2>1, <2>2 DEF Complete, Positions
  <1>3. CASE Serve
    <2>1. /\ UNCHANGED files \/ Grows
          /\ Oldest.kind = "write" => Grows
      <3>1. pc \notin {"open", "discard", "erase", "undo", "remove", "rename"}
        BY DEF Sent
      <3>2. QED
        BY <1>3, <3>1, ServerStep DEF Empties, Deletes, Moves
    <2>2. /\ RemoteFile \in DOMAIN files /\ N \in Nat \ {0}
          /\ Grows => files'[RemoteFile] = 1..Oldest.block
      BY RemoteFileFacts, BoundAssumption DEF UploadTypeOK, Grows
    <2>3. CASE files[RemoteFile] = Blocks
      <3>1. ~Grows
        <4>1. 1 \in Positions(outgoing)
          BY <1>3, ServeFacts DEF Positions
        <4>2. SUFFICES ASSUME Grows PROVE FALSE
          OBVIOUS
        <4>3. Oldest.block \in 1..N /\ 1..N = 1..(Oldest.block - 1)
          BY <2>3, <4>1, <4>2 DEF UploadInvariant, FileInv, Oldest, Grows, Blocks
        <4>4. Oldest.block \notin 1..(Oldest.block - 1)
          BY <4>3
        <4>5. QED
          BY <4>3, <4>4
      <3>2. QED
        BY <1>0, <2>1, <2>3, <3>1 DEF Complete
    <2>4. CASE \E k \in Positions(outgoing) : outgoing[k].kind = "write" /\ outgoing[k].block = N
      <3>1. PICK k \in Positions(outgoing) : outgoing[k].kind = "write" /\ outgoing[k].block = N
        BY <2>4
      <3>2. CASE k = 1
        BY <1>0, <2>1, <2>2, <3>1, <3>2 DEF Oldest, Complete, Blocks
      <3>3. CASE k # 1
        <4>1. /\ Len(outgoing) \in Nat \ {0} /\ Len(outgoing') = Len(outgoing) - 1
              /\ \A j \in 1..(Len(outgoing) - 1) : outgoing'[j] = outgoing[j + 1]
          BY <1>3, ServeFacts
        <4>2. k - 1 \in 1..(Len(outgoing) - 1) /\ (k - 1) + 1 = k
          BY <3>3, <4>1 DEF Positions
        <4>3. k - 1 \in Positions(outgoing') /\ outgoing'[k - 1] = outgoing[k]
          BY <4>1, <4>2 DEF Positions
        <4>4. QED
          BY <3>1, <4>3 DEF Complete
      <3>4. QED
        BY <3>2, <3>3
    <2>5. QED
      BY <2>3, <2>4 DEF Complete
  <1>4. CASE Cut
    <2>1. /\ NumbersOK /\ OrderInv
          /\ outgoing' = <<>> /\ incoming' = {} /\ UNCHANGED files
      BY <1>4 DEF Cut, ShutInv
    <2>2. ~AnySend
      <3>1. Due' = {}
        BY <2>1 DEF Due, Positions
      <3>2. QED
        BY <2>1, <3>1, AnySendNumbers
    <2>3. ~Loses /\ ~Reopen
      BY DEF Sent, Loses, Reopen, FirstStep
    <2>4. CASE Leaves
      BY <1>0, <2>1, <2>4 DEF Leaves, Complete
    <2>5. QED
      BY <1>3, <2>2, <2>3, <2>4, LeavesShape DEF AnySend, UploadInvariant
  <1>5. QED
    BY <1>1, <1>2, <1>3, <1>4 DEF Shape

\* The response to the close finds all blocks written.
LEMMA ClosedComplete ==
  ASSUME RequestsOK, ResponsesOK, UploadTypeOK, UploadInvariant, ShutInv, CompleteInv, ~holed,
         pc = "close", TransferFinished, NEW p \in Acceptable(CloseRequest)
  PROVE  files[RemoteFile] = Blocks
  <1>1. \A k \in Positions(outgoing) : ~Closes(k)
    BY CloseServed
  <1>2. ~handle
    BY <1>1 DEF UploadInvariant, CloseInv, ClosedByThen
  <1>3. \A k \in Positions(outgoing) : outgoing[k].kind # "write"
    BY <1>2 DEF UploadInvariant, WritesInv
  <1>4. Complete
    BY DEF CompleteInv, Sent
  <1>5. QED
    BY <1>3, <1>4 DEF Complete

\* The response to the rename finds the destination renamed, or the partial file
\* complete.
LEMMA RenameReceived ==
  ASSUME RequestsOK, ResponsesOK, UploadTypeOK, PendingInv, DestinationInv, EndInv,
         pc = "rename", call # NULL, NEW p \in Acceptable(call)
  PROVE  IF Verdict(call, p) = "ok" THEN files["dest"] = Blocks ELSE files["partial"] = Blocks
  <1>1. p \in incoming /\ p.number = call
    BY OwnCall, CallFacts
  <1>2. DoResume
    BY DEF EndInv
  <1>3. IF p.ok THEN files["dest"] = Blocks ELSE files["partial"] = Blocks
    BY <1>1, <1>2 DEF DestinationInv
  <1>4. QED
    BY <1>1, <1>3 DEF Verdict

\* Which steps say that the file is complete, or that the destination is.
LEMMA RenamesFrom ==
  ASSUME Next, UploadTypeOK, EndInv, pc' \in {"remove", "properties"}
  PROVE  \/ pc = pc'
         \/ (Closed \/ CloseRefused) /\ pc = "close" /\ TransferFinished /\ (pc' = "remove" => DoResume)
  <1>1. CASE Closed \/ CloseRefused
    <2>1. pc = "close" /\ pc' = AfterTransfer
      BY <1>1 DEF Closed, CloseRefused, Receives, RetriesOrFails, Goes, Fails
    <2>2. TransferFinished /\ (pc' = "remove" => DoResume)
      BY <2>1 DEF AfterTransfer, Finish
    <2>3. QED
      BY <1>1, <2>1, <2>2
  <1>2. CASE \/ Checked \/ Discarded \/ NotOpened \/ Erased \/ Opened \/ Declined \/ Undone \/ Touched \/ KeptAlive
             \/ PropertiesSet \/ Renamed \/ Removed
    BY <1>2 DEF Checked, Discarded, NotOpened, Erased, Opened, Declined, Undone, Touched,
       KeptAlive,
       PropertiesSet, Renamed,
       Removed, Returns, Receives, RetriesOrFails, Goes, Fails, Resend
  <1>3. CASE \/ Continue \/ Written \/ SendClose \/ CloseSent \/ SendProperties \/ PropertiesSent \/ HandleRefused
             \/ HandleThrows \/ Disposed \/ Leave \/ WrongNumber \/ Unwound \/ Reopen \/ GiveUp \/ Interrupted \/ Drop
    BY <1>3 DEF Continue, Written, SendClose, CloseSent, SendProperties, PropertiesSent,
       HandleRefused, HandleThrows, SendPacketThrows, Handles,
       Sending, Disposed, Leave, WrongNumber, Unwound, Reopen, GiveUp, Interrupted, Drop, Lost, AfterClose,
       AfterDispose, FirstStep
  <1>4. CASE SendCall \/ Stores \/ HandleWritten \/ DisposeResponse \/ Unwind \/ Serve
    BY <1>4 DEF SendCall, Stores, HandleWritten, DisposeResponse, Unwind, Serve
  <1>5. QED
    BY <1>1, <1>2, <1>3, <1>4 DEF Next, Transfer

LEMMA DoneFrom ==
  ASSUME Next, UploadTypeOK, EndInv, EndInv', DestinationDone'
  PROVE  \/ DestinationDone
         \/ PropertiesSet /\ pc = "properties"
         \/ pc = "rename" /\ call # NULL /\ \E p \in Acceptable(call) : Verdict(call, p) = "ok"
         \/ Closed /\ pc = "close" /\ TransferFinished /\ ~DoResume
  <1> USE DEF DestinationDone
  <1>0. error \in BOOLEAN /\ TransferFinished \in BOOLEAN /\ DoResume \in BOOLEAN
    BY DEF UploadTypeOK
  <1>1. CASE Closed \/ CloseRefused
    <2>1. /\ pc = "close" /\ result' = result
          /\ \/ pc' = AfterTransfer /\ error' = error /\ (Closed \/ ~TransferFinished)
             \/ pc' = "close"
             \/ pc' = "leave" /\ error'
      BY <1>1 DEF Closed, CloseRefused, Receives, RetriesOrFails, Goes, Fails
    <2>2. AfterTransfer # "touch" /\ (AfterTransfer = "leave" => ~TransferFinished \/ ~DoResume)
      BY DEF AfterTransfer, Finish
    <2>3. TransferFinished = ~error
      BY <2>1 DEF EndInv
    <2>4. result # "done"
      BY <2>1 DEF EndInv
    <2>5. QED
      BY <1>0, <2>1, <2>2, <2>3, <2>4
  <1>2. CASE Renamed
    <2>1. /\ pc = "rename" /\ call # NULL /\ result' = result
          /\ \/ \E p \in Acceptable(call) : Verdict(call, p) = "ok"
             \/ pc' = "rename"
             \/ pc' = "leave" /\ error'
      BY <1>2 DEF Renamed, Returns, RetriesOrFails, Goes, Fails
    <2>2. QED
      BY <2>1
  <1>3. CASE PropertiesSet
    BY <1>3 DEF PropertiesSet, Receives
  <1>4. CASE Touched
    <2>1. pc = "touch"
      BY <1>4 DEF Touched, Returns
    <2>2. QED
      BY <2>1
  <1>5. CASE Undone
    <2>1. pc = "undo" /\ pc' = "leave" /\ error' = error /\ result' = result
      BY <1>5 DEF Undone, Returns, Goes
    <2>2. QED
      BY <2>1 DEF EndInv
  <1>6. CASE \/ Checked \/ Discarded \/ NotOpened \/ Erased \/ Opened \/ Declined \/ Removed
    <2>1. /\ pc' \in {"open", "discard", "erase", "continue", "rename", "remove", "leave"} /\ result' = result
          /\ pc' = "leave" => error'
      BY <1>6 DEF Checked, Discarded, NotOpened, Erased, Opened, Declined, Removed, Returns,
         RetriesOrFails, Goes, Fails,
         flowVars
    <2>2. QED
      BY <2>1
  <1>7. CASE \/ Continue \/ Written \/ SendClose \/ CloseSent \/ SendProperties \/ PropertiesSent \/ HandleRefused
             \/ HandleThrows \/ Disposed \/ WrongNumber \/ Unwound \/ Reopen \/ Interrupted \/ Drop \/ KeptAlive \/ GiveUp
    <2>1. /\ pc' \notin {"leave", "touch"} /\ (result' = result \/ result' = "failed")
      BY <1>7 DEF Continue, Written, SendClose, CloseSent, SendProperties, PropertiesSent,
         HandleRefused, HandleThrows, SendPacketThrows, Handles,
         Sending, Disposed, WrongNumber, Unwound, Reopen, Interrupted, Drop, Lost, AfterClose, GiveUp,
         AfterDispose, FirstStep, KeptAlive, Returns, Goes, flowVars
    <2>2. QED
      BY <2>1
  <1>8. CASE Leave
    <2>1. pc = "leave" /\ pc' = "idle" /\ result' = IF error THEN "failed" ELSE "done"
      BY <1>8 DEF Leave
    <2>2. QED
      BY <1>0, <2>1
  <1>9. CASE SendCall \/ Stores \/ HandleWritten \/ DisposeResponse \/ Unwind \/ Serve
    BY <1>9 DEF SendCall, Stores, HandleWritten, Handles, DisposeResponse, Unwind, Serve, flowVars
  <1>10. QED
    BY <1>1, <1>2, <1>3, <1>4, <1>5, <1>6, <1>7, <1>8, <1>9 DEF Next, Transfer

\* Only the server changes the files.
LEMMA OnlyServer ==
  ASSUME Shape
  PROVE  UNCHANGED files \/ Serve
  BY DEF Shape, Quiet, Sends, Cut, serverVars

\* Every step keeps CompleteInv while the blocks are written.
LEMMA CompleteStep ==
  ASSUME RequestsOK, ResponsesOK, UploadTypeOK, UploadInvariant, ShutInv, PendingInv, EndInv, EndInv',
         CompleteInv, DestinationInv, Shape, Next, ~holed, ~holed'
  PROVE  CompleteInv'
  <1>0. UNCHANGED RemoteFile /\ UNCHANGED DoResume
    BY RemoteFileFacts DEF Shape, choiceVars
  <1>1. Sent' => Complete'
    <2>1. ~HandleRefused
      BY NoRefusal
    <2>2. CASE SendClose
      BY <2>2, CloseSentComplete DEF UploadInvariant
    <2>3. CASE Sent
      BY <2>3, CompleteKept DEF CompleteInv
    <2>4. QED
      BY <2>1, <2>2, <2>3, SentFrom
  <1>2. pc' \in {"remove", "properties"} => files'[RemoteFile'] = Blocks
    <2>1. SUFFICES ASSUME pc' \in {"remove", "properties"} PROVE files'[RemoteFile] = Blocks
      BY <1>0
    <2>2. files[RemoteFile] = Blocks
      <3>1. CASE pc' = pc
        BY <2>1, <3>1 DEF CompleteInv
      <3>2. CASE (Closed \/ CloseRefused) /\ pc = "close" /\ TransferFinished
        <4>1. \E p \in Acceptable(CloseRequest) : TRUE
          BY <3>2 DEF Closed, CloseRefused, Receives
        <4>2. QED
          BY <3>2, <4>1, ClosedComplete
      <3>3. QED
        BY <2>1, <3>1, <3>2, RenamesFrom
    <2>3. CASE Serve
      <3>1. pc \in {"remove", "properties"}
        BY <2>1, <2>3 DEF Serve
      <3>2. UNCHANGED files \/ (pc = "remove" /\ files' = [files EXCEPT !["dest"] = NoFile])
        BY <2>3, <3>1, ServerStep, CallFacts DEF Empties, Grows, Running, Deletes, Moves
      <3>3. pc = "remove" => RemoteFile = "partial"
        BY RemoteFileFacts DEF EndInv
      <3>4. RemoteFile \in DOMAIN files
        BY RemoteFileFacts DEF UploadTypeOK
      <3>5. QED
        BY <2>2, <3>2, <3>3, <3>4
    <2>4. QED
      BY <2>2, <2>3, OnlyServer
  <1>3. DestinationDone' => files'["dest"] = Blocks
    <2>1. SUFFICES ASSUME DestinationDone' PROVE files'["dest"] = Blocks
      OBVIOUS
    <2>2. CASE Serve
      <3>1. UNCHANGED <<pc, error, result>>
        BY <2>2 DEF Serve, flowVars
      <3>2. DestinationDone /\ files["dest"] = Blocks
        BY <2>1, <3>1 DEF DestinationDone, CompleteInv
      <3>3. pc \in {"touch", "leave", "idle", "over"}
        BY <3>2 DEF DestinationDone, EndInv
      <3>4. UNCHANGED files
        BY <2>2, <3>3, ServerStep DEF Empties, Grows, Running, Deletes, Moves
      <3>5. QED
        BY <3>2, <3>4
    <2>3. CASE ~Serve
      <3>1. UNCHANGED files
        BY <2>3, OnlyServer
      <3>2. CASE DestinationDone
        BY <3>1, <3>2 DEF CompleteInv
      <3>3. CASE pc = "properties"
        <4>1. RemoteFile = "dest"
          BY <3>3 DEF EndInv, RemoteFile
        <4>2. QED
          BY <3>1, <3>3, <4>1 DEF CompleteInv
      <3>4. CASE pc = "rename" /\ call # NULL /\ \E p \in Acceptable(call) : Verdict(call, p) = "ok"
        BY <3>1, <3>4, RenameReceived
      <3>5. CASE Closed /\ pc = "close" /\ TransferFinished /\ ~DoResume
        <4>1. \E p \in Acceptable(CloseRequest) : TRUE
          BY <3>5 DEF Closed, Receives
        <4>2. RemoteFile = "dest"
          BY <3>5 DEF RemoteFile
        <4>3. QED
          BY <3>1, <3>5, <4>1, <4>2, ClosedComplete
      <3>6. QED
        BY <2>1, <3>2, <3>3, <3>4, <3>5, DoneFrom
    <2>4. QED
      BY <2>2, <2>3
  <1>4. Blocks' = Blocks
    BY DEF Blocks
  <1>5. QED
    BY <1>1, <1>2, <1>3 DEF CompleteInv, Blocks

----------------------------------------------------------------------------
(* The destination of a resumable upload                                   *)

\* What the server does to the two files.
LEMMA DestinationServed ==
  ASSUME RequestsOK, ResponsesOK, UploadTypeOK, UploadInvariant, ShutInv, PendingInv, EndInv, CompleteInv,
         DestinationInv, DoResume, Serve, ~holed'
  PROVE  /\ Present' \/ (files'["dest"] = NoFile /\ files'["partial"] = Blocks)
         /\ Present /\ pc \notin {"remove", "rename"} => files'["dest"] = files["dest"]
         /\ pc = "rename" => UNCHANGED files \/ Moves
  <1>0. /\ RemoteFile = "partial" /\ UNCHANGED before
        /\ DOMAIN files = {"dest", "partial"} /\ N \in Nat \ {0}
    BY RemoteFileFacts, FilesAssumption, BoundAssumption DEF Serve, choiceVars, UploadTypeOK
  <1>1. Present \/ (files["dest"] = NoFile /\ files["partial"] = Blocks)
    BY DEF DestinationInv
  <1>2. Blocks' = Blocks /\ (Present' <=> files'["dest"] \in {before, Blocks})
    BY <1>0 DEF Present, Blocks
  <1>3. CASE UNCHANGED files
    BY <1>1, <1>2, <1>3 DEF Present
  <1>4. CASE Empties
    <2>1. Present /\ pc = "open"
      BY <1>4 DEF Empties, DestinationInv
    <2>2. files'["dest"] = files["dest"]
      BY <1>0, <1>4 DEF Empties
    <2>3. QED
      BY <1>2, <2>1, <2>2 DEF Present
  <1>5. CASE Grows
    <2>1. files'["dest"] = files["dest"] /\ pc # "rename"
      BY <1>0, <1>5 DEF Grows, Running
    <2>2. Present
      <3>1. SUFFICES ASSUME ~Present PROVE FALSE
        OBVIOUS
      <3>2. 1 \in Positions(outgoing)
        BY ServeFacts DEF Positions
      <3>3. Oldest.block \in 1..N /\ 1..N = 1..(Oldest.block - 1)
        BY <1>0, <1>1, <1>5, <3>1, <3>2 DEF UploadInvariant, FileInv, Oldest, Grows, Blocks
      <3>4. Oldest.block \notin 1..(Oldest.block - 1)
        BY <3>3
      <3>5. QED
        BY <3>3, <3>4
    <2>3. QED
      BY <1>2, <2>1, <2>2 DEF Present
  <1>6. CASE Deletes
    <2>1. pc # "undo"
      BY DEF EndInv
    <2>2. CASE pc = "discard"
      <3>1. files' = [files EXCEPT !["partial"] = NoFile]
        BY <1>6, <2>2, CallFacts DEF Deletes
      <3>2. files'["dest"] = files["dest"]
        BY <1>0, <3>1
      <3>3. files["dest"] = before
        BY <2>2 DEF DestinationInv, Early
      <3>4. QED
        BY <1>2, <2>2, <3>2, <3>3
    <2>3. CASE pc = "remove"
      <3>1. files' = [files EXCEPT !["dest"] = NoFile]
        BY <1>6, <2>3, CallFacts DEF Deletes
      <3>2. files'["dest"] = NoFile /\ files'["partial"] = files["partial"]
        BY <1>0, <3>1
      <3>3. files["partial"] = Blocks
        BY <1>0, <2>3 DEF CompleteInv
      <3>4. QED
        BY <2>3, <3>2, <3>3
    <2>4. CASE pc = "erase"
      <3>1. files' = [files EXCEPT !["partial"] = NoFile] /\ ~ResumeTransfer
        BY <1>0, <1>6, <2>4, CallFacts DEF Deletes
      <3>2. files'["dest"] = files["dest"]
        BY <1>0, <3>1
      <3>3. Present
        BY <2>4, <3>1 DEF DestinationInv
      <3>4. QED
        BY <1>2, <2>4, <3>2, <3>3 DEF Present
    <2>5. QED
      BY <1>6, <2>1, <2>2, <2>3, <2>4 DEF Deletes
  <1>7. CASE Moves
    <2>1. 1 \in Positions(outgoing)
      BY ServeFacts DEF Positions
    <2>2. files["partial"] = Blocks /\ pc = "rename"
      BY <1>7, <2>1 DEF Moves, Oldest, DestinationInv
    <2>3. files'["dest"] = Blocks
      BY <1>7, <2>2 DEF Moves
    <2>4. QED
      BY <1>2, <1>7, <2>2, <2>3
  <1>8. pc = "rename" => UNCHANGED files \/ Moves
    BY ServerStep DEF Empties, Grows, Running, Deletes
  <1>9. QED
    BY <1>3, <1>4, <1>5, <1>6, <1>7, <1>8, ServerStep

\* Where the partial file is asked about, discarded and opened.
LEMMA EarlyFrom ==
  ASSUME Next, UploadTypeOK, Early', DoResume
  PROVE  \/ Reopen /\ cpNoConfirmation' = TRUE /\ pc' = "check"
         \/ /\ Early /\ cpNoConfirmation' = cpNoConfirmation
            /\ \/ pc' = pc /\ ResumeTransfer' = ResumeTransfer
               \/ pc' = "discard" /\ ~cpNoConfirmation
               \/ pc' = "open" /\ (ResumeTransfer' \/ files["partial"] = NoFile)
               \/ pc = "discard" /\ pc' = "open"
               \/ {pc, pc'} \subseteq {"open", "erase"} /\ ResumeTransfer' = ResumeTransfer
  <1> USE DEF Early
  <1>1. CASE Checked
    BY <1>1 DEF Checked, Returns, Fails
  <1>2. CASE Discarded
    BY <1>2 DEF Discarded, Returns, Goes, Fails
  <1>3. CASE NotOpened \/ Erased
    BY <1>3 DEF NotOpened, Erased, Returns, RetriesOrFails, Goes, Fails
  <1>4. CASE Reopen
    BY <1>4 DEF Reopen, FirstStep
  <1>5. CASE SendCall \/ Stores \/ HandleWritten \/ DisposeResponse \/ Unwind \/ Serve
    BY <1>5 DEF SendCall, Stores, HandleWritten, Handles, DisposeResponse, Unwind, Serve,
       attemptVars
  <1>6. CASE \/ Closed \/ CloseRefused \/ PropertiesSet \/ Undone \/ Removed \/ Renamed \/ Touched \/ KeptAlive
             \/ Opened \/ Declined
    BY <1>6 DEF Closed, CloseRefused, PropertiesSet, Undone, Removed, Renamed, Touched, KeptAlive,
       Opened, Declined,
       Returns, Receives, RetriesOrFails, Goes, Fails, Resend, AfterTransfer, Finish
  <1>7. CASE \/ Continue \/ Written \/ SendClose \/ CloseSent \/ SendProperties \/ PropertiesSent \/ HandleRefused
             \/ HandleThrows \/ Disposed \/ WrongNumber \/ Unwound \/ Interrupted \/ Drop \/ GiveUp \/ Leave
    BY <1>7 DEF Continue, Written, SendClose, CloseSent, SendProperties, PropertiesSent,
       HandleRefused, HandleThrows, SendPacketThrows, Handles,
       Sending, Disposed, WrongNumber, Unwound, Interrupted, Drop, Lost, AfterClose, GiveUp, AfterDispose, Leave
  <1>8. QED
    BY <1>1, <1>2, <1>3, <1>4, <1>5, <1>6, <1>7 DEF Next, Transfer

\* What is known while the rename is waited for.
Renaming ==
  /\ call = NULL \/ (\E k \in Positions(outgoing) : outgoing[k].number = call) => files["partial"] = Blocks
  /\ \A p \in incoming : p.number = call =>
       IF p.ok THEN files["dest"] = Blocks ELSE files["partial"] = Blocks

\* The steps that come to the rename, with the partial file complete, ...
LEMMA RenameFrom ==
  ASSUME RequestsOK, ResponsesOK, UploadTypeOK, UploadInvariant, ShutInv, PendingInv, EndInv, CompleteInv,
         DestinationInv, DoResume, Shape, Next, ~holed, pc' = "rename"
  PROVE  \/ /\ pc = "rename"
            /\ Serve \/ SendCall \/ (Stores /\ UNCHANGED <<outgoing, call, files>> /\ incoming' \subseteq incoming)
         \/ /\ call' = NULL /\ incoming' \subseteq incoming /\ files' = files /\ files["partial"] = Blocks
  <1>0. RemoteFile = "partial"
    BY RemoteFileFacts
  <1>1. CASE Closed \/ CloseRefused
    <2>1. /\ pc = "close" /\ pc' = AfterTransfer
          /\ \E p \in Acceptable(CloseRequest) : Accept(CloseRequest, p)
          /\ UNCHANGED <<call, files>>
      BY <1>1 DEF Closed, CloseRefused, Receives, RetriesOrFails, Goes, Fails, serverVars
    <2>2. TransferFinished
      BY <2>1 DEF AfterTransfer, Finish
    <2>3. files["partial"] = Blocks
      BY <1>0, <2>1, <2>2, ClosedComplete
    <2>4. call = NULL
      BY <2>1, CallFacts, OutsideQueue DEF PendingInv
    <2>5. incoming' \subseteq incoming
      BY <2>1 DEF Accept
    <2>6. QED
      BY <2>1, <2>3, <2>4, <2>5
  <1>2. CASE Removed \/ Renamed
    <2>1. /\ pc \in {"remove", "rename"} /\ call # NULL /\ call' = NULL /\ UNCHANGED files
          /\ \E p \in Acceptable(call) : Accept(call, p) /\ (pc = "rename" => Verdict(call, p) # "ok")
      BY <1>2 DEF Removed, Renamed, Returns, RetriesOrFails, Goes, Fails, serverVars
    <2>2. files["partial"] = Blocks
      <3>1. CASE pc = "remove"
        BY <1>0, <3>1 DEF CompleteInv
      <3>2. CASE pc = "rename"
        BY <2>1, <3>2, RenameReceived
      <3>3. QED
        BY <2>1, <3>1, <3>2
    <2>3. incoming' \subseteq incoming
      BY <2>1 DEF Accept
    <2>4. QED
      BY <2>1, <2>2, <2>3
  <1>3. CASE Stores
    BY <1>3 DEF Stores, StoreReserved, serverVars
  <1>4. CASE SendCall \/ Serve
    BY <1>4 DEF SendCall, Serve
  <1>5. ASSUME HandleWritten \/ DisposeResponse \/ Unwind PROVE FALSE
    BY <1>5 DEF HandleWritten, Handles, DisposeResponse, Unwind, Sending
  <1>6. ASSUME \/ Checked \/ Discarded \/ NotOpened \/ Erased \/ Opened \/ Declined \/ Undone \/ Touched \/ KeptAlive \/ PropertiesSet
               \/ Continue \/ Written \/ SendClose \/ CloseSent \/ SendProperties \/ PropertiesSent \/ HandleRefused
             \/ HandleThrows \/ Disposed \/ Leave \/ WrongNumber \/ Unwound \/ Reopen \/ GiveUp \/ Interrupted \/ Drop
        PROVE  FALSE
    BY <1>6 DEF Checked, Discarded, NotOpened, Erased, Opened, Declined, Undone, Touched,
       KeptAlive,
       PropertiesSet,
       Continue, Written, SendClose, CloseSent, SendProperties, PropertiesSent, HandleRefused, HandleThrows, SendPacketThrows, Handles, Sending,
       Disposed, Leave, WrongNumber, Unwound, Reopen, GiveUp, Interrupted, Drop, Lost, AfterClose, AfterDispose,
       FirstStep, Returns, Receives, RetriesOrFails, Goes, Fails, Resend
  <1>7. QED
    BY <1>1, <1>2, <1>3, <1>4, <1>5, <1>6 DEF Next, Transfer

\* ... and what they leave known.
LEMMA RenameStep ==
  ASSUME RequestsOK, ResponsesOK, UploadTypeOK, UploadInvariant, ShutInv, PendingInv, EndInv, CompleteInv,
         DestinationInv, DoResume, Shape, Next, ~holed, ~holed', pc' = "rename"
  PROVE  Renaming'
  <1>0. /\ NumbersOK /\ NULL \notin Due /\ \A p \in incoming : p.number \in Due
        /\ NextNumber \notin Due
    <2>1. NumbersOK
      BY DEF ShutInv
    <2>2. QED
      BY <2>1, Numbered, Fresh
  <1>1. pc = "rename" => Renaming
    BY DEF Renaming, DestinationInv
  <1>2. CASE call' = NULL /\ incoming' \subseteq incoming /\ files' = files /\ files["partial"] = Blocks
    <2>1. \A p \in incoming' : p.number # NULL
      BY <1>0, <1>2
    <2>2. QED
      BY <1>2, <2>1 DEF Renaming, Blocks
  <1>3. CASE pc = "rename" /\ UNCHANGED <<outgoing, call, files>> /\ incoming' \subseteq incoming
    BY <1>1, <1>3 DEF Renaming, Blocks, Positions
  <1>4. CASE pc = "rename" /\ SendCall
    <2>1. call = NULL /\ call' = NextNumber /\ UNCHANGED <<incoming, files>>
      BY <1>4 DEF SendCall, serverVars
    <2>2. files["partial"] = Blocks
      BY <1>1, <1>4, <2>1 DEF Renaming
    <2>3. QED
      BY <1>0, <2>1, <2>2 DEF Renaming, Blocks
  <1>5. CASE pc = "rename" /\ Serve
    <2>0. /\ 1 \in Positions(outgoing) /\ UNCHANGED call
          /\ \A k \in Positions(outgoing') : \E j \in Positions(outgoing) :
               outgoing'[k] = outgoing[j] /\ j # 1
      <3>1. OrderInv
        BY DEF ShutInv
      <3>2. \A k \in Positions(outgoing') : k \in Nat \ {0} /\ k + 1 \in Positions(outgoing) /\ outgoing'[k] = outgoing[k + 1]
        BY <1>0, <1>5, <3>1, ServedNumbers DEF Positions
      <3>3. QED
        BY <1>0, <1>5, <3>1, <3>2, ServedNumbers
    <2>1. Head(outgoing) = Oldest
      BY <1>5, TailFacts DEF Serve, RequestsOK, Oldest
    <2>2. PICK ok \in BOOLEAN :
            /\ incoming' = incoming \union {[number |-> Oldest.number, kind |-> Oldest.kind, ok |-> ok]}
            /\ files' = IF ok THEN Executed(Oldest) ELSE files
      <3>1. UNCHANGED call
        BY <1>5 DEF Serve
      <3>2. QED
        BY <1>5, <2>1 DEF Serve
    <2>3. CASE Oldest.number = call /\ call # NULL
      <3>1. files["partial"] = Blocks /\ Oldest.kind = "rename"
        <4>1. Oldest.kind = Calls[pc]
          BY <2>0, <2>3 DEF Oldest, PendingInv, CallInv
        <4>2. QED
          BY <1>1, <1>5, <2>0, <2>3, <4>1, CallFacts DEF Oldest, Renaming
      <3>2. IF ok THEN files'["dest"] = Blocks ELSE files'["partial"] = Blocks
        BY <2>2, <3>1 DEF Executed
      <3>3. \A k \in Positions(outgoing') : outgoing'[k].number # call
        BY <1>0, <2>0, <2>3 DEF NumbersOK, Oldest
      <3>4. \A p \in incoming : p.number # call
        BY <1>0, <2>0, <2>3 DEF NumbersOK, Oldest
      <3>5. QED
        BY <2>0, <2>2, <2>3, <3>2, <3>3, <3>4 DEF Renaming, Blocks
    <2>4. CASE ~(Oldest.number = call /\ call # NULL)
      <3>1. Oldest.number # call
        BY <1>0, <2>0, <2>4 DEF Due, Oldest
      <3>2. UNCHANGED files
        BY <1>5, <3>1, DestinationServed DEF Moves
      <3>3. (\E k \in Positions(outgoing') : outgoing'[k].number = call)
              => \E k \in Positions(outgoing) : outgoing[k].number = call
        BY <2>0
      <3>4. QED
        BY <1>1, <1>5, <2>0, <2>2, <3>1, <3>2, <3>3 DEF Renaming, Blocks
    <2>5. QED
      BY <2>3, <2>4
  <1>6. QED
    BY <1>2, <1>3, <1>4, <1>5, RenameFrom

\* Every step keeps DestinationInv while the blocks are written.
LEMMA DestinationStep ==
  ASSUME RequestsOK, ResponsesOK, UploadTypeOK, UploadInvariant, ShutInv, PendingInv, EndInv, CompleteInv,
         DestinationInv, Shape, Next, ~holed, ~holed'
  PROVE  DestinationInv'
  <1> SUFFICES ASSUME DoResume' PROVE DestinationInv'
    BY DEF DestinationInv
  <1>0. /\ DoResume /\ UNCHANGED before /\ Blocks' = Blocks
        /\ Present' <=> files'["dest"] \in {before, Blocks}
    BY DEF Shape, choiceVars, Blocks, Present
  <1>1. /\ Present' \/ (files'["dest"] = NoFile /\ files'["partial"] = Blocks)
        /\ Present /\ pc \notin {"remove", "rename"} => files'["dest"] = files["dest"]
    BY <1>0, OnlyServer, DestinationServed DEF DestinationInv, Present
  <1>2. Early' => \/ cpNoConfirmation' = TRUE /\ pc' = "check"
                  \/ /\ Early /\ cpNoConfirmation' = cpNoConfirmation
                     /\ \/ pc' = pc /\ ResumeTransfer' = ResumeTransfer
                        \/ pc' = "discard" /\ ~cpNoConfirmation
                        \/ pc' = "open" /\ (ResumeTransfer' \/ files["partial"] = NoFile)
                        \/ pc = "discard" /\ pc' = "open"
                        \/ {pc, pc'} \subseteq {"open", "erase"} /\ ResumeTransfer' = ResumeTransfer
    BY <1>0, EarlyFrom
  <1>3. pc' = "discard" => ~cpNoConfirmation'
    BY <1>0, <1>2 DEF Early, DestinationInv
  <1>4. ASSUME Early', ~cpNoConfirmation' PROVE files'["dest"] = before'
    <2>1. Early /\ files["dest"] = before
      BY <1>0, <1>2, <1>4 DEF DestinationInv
    <2>2. Present /\ pc \notin {"remove", "rename"}
      BY <2>1 DEF Present, Early
    <2>3. QED
      BY <1>0, <1>1, <2>1, <2>2
  <1>5. ASSUME pc' \in {"open", "erase"}, ~ResumeTransfer' PROVE Present'
    <2>1. Early /\ ((pc \in {"open", "erase"} /\ ~ResumeTransfer) \/ files["partial"] = NoFile \/ pc = "discard")
      BY <1>2, <1>5 DEF Early
    <2>2. Present
      <3>1. CASE pc \in {"open", "erase"} /\ ~ResumeTransfer
        BY <1>0, <3>1 DEF DestinationInv
      <3>2. CASE files["partial"] = NoFile
        <4>1. NoFile # Blocks
          BY ContentsFacts
        <4>2. QED
          BY <1>0, <3>2, <4>1 DEF DestinationInv
      <3>3. CASE pc = "discard"
        BY <1>0, <2>1, <3>3 DEF DestinationInv, Present
      <3>4. QED
        BY <2>1, <3>1, <3>2, <3>3
    <2>3. pc \notin {"remove", "rename"}
      BY <2>1 DEF Early
    <2>4. QED
      BY <1>0, <1>1, <2>2, <2>3 DEF Present
  <1>6. pc' = "rename" => Renaming'
    BY <1>0, RenameStep
  <1>7. QED
    BY <1>1, <1>3, <1>4, <1>5, <1>6 DEF DestinationInv, Renaming

----------------------------------------------------------------------------
(* The theorems on what the upload leaves behind                           *)

\* A refused block stays refused.
LEMMA RefusalStays ==
  ASSUME RequestsOK, UploadTypeOK, Shape, ~holed'
  PROVE  ~holed
  BY ServeFacts DEF Shape, Quiet, Sends, Cut, serverVars, Refuses

\* The upload begins with nothing to be answered, ...
LEMMA InitCompletion == Init => CompletionInv
  <1> SUFFICES ASSUME Init PROVE CompletionInv
    OBVIOUS
  <1>1. /\ FMessageCounter = 0 /\ outgoing = <<>> /\ incoming = {} /\ stored = {}
        /\ FPacketNumbers = <<>> /\ FRequests = <<>> /\ call = NULL
        /\ pc \in {"check", "open"} /\ (pc = "open" => ~DoResume)
        /\ result = "none" /\ ~handle /\ ~error /\ ~orphaned
        /\ files["dest"] = before
    BY DEF Init, PacketsInit, FirstStep
  <1>2. Positions(outgoing) = {} /\ Positions(FPacketNumbers) = {} /\ Positions(FRequests) = {}
    BY <1>1 DEF Positions
  <1>3. Due = {}
    BY <1>1, <1>2 DEF Due
  <1>4. NumbersOK /\ OrderInv /\ Elements(FRequests) = {}
    BY <1>1, <1>2, <1>3 DEF NumbersOK, OrderInv, Elements
  <1>5. ShutInv
    BY <1>1, <1>2, <1>3, <1>4 DEF ShutInv, Ending, Open, Settled
  <1>6. PendingInv
    <2>1. \A n : ~Loose(n)
      BY <1>1 DEF Loose, Ending
    <2>2. QED
      BY <1>1, <1>2, <1>3, <1>4, <2>1 DEF PendingInv, DueInv, QueueInv, CallInv, Distinct
  <1>7. EndInv /\ OrphanInv /\ CompleteInv
    BY <1>1 DEF EndInv, OrphanInv, CompleteInv, Sent, DestinationDone
  <1>8. DestinationInv
    BY <1>1 DEF DestinationInv, Present, Early
  <1>9. QED
    BY <1>5, <1>6, <1>7, <1>8 DEF CompletionInv, OutcomeInv

\* ... every step keeps what is known of it ...
LEMMA NextCompletion == IInv /\ CompletionInv /\ Next => CompletionInv'
  <1> SUFFICES ASSUME IInv, CompletionInv, Next PROVE CompletionInv'
    OBVIOUS
  <1>1. /\ RequestsOK /\ ResponsesOK /\ UploadTypeOK /\ UploadInvariant
        /\ EarlyInv /\ CloseInv /\ ShutInv
    BY DEF IInv, UploadInvariant, CompletionInv
  <1>2. Shape
    BY <1>1, StepShape
  <1>3. ShutInv' /\ EndInv' /\ OrphanInv' /\ (orphaned /\ ~orphaned' => Reopen)
    BY <1>1, ShutStep, EndStep, OrphanStep DEF CompletionInv
  <1>4. ~holed' => ~holed
    BY <1>1, <1>2, RefusalStays
  <1>5. ASSUME InOrder, ~orphaned', ~orphaned PROVE PendingInv' /\ (~holed' => OutcomeInv')
    <2>1. PendingInv /\ EndInv /\ (~holed => CompleteInv /\ DestinationInv)
      BY <1>5 DEF CompletionInv, OutcomeInv
    <2>2. PendingInv'
      BY <1>1, <1>4, <1>5, <2>1, PendingStep
    <2>3. ASSUME ~holed' PROVE CompleteInv' /\ DestinationInv'
      BY <1>1, <1>2, <1>3, <1>4, <2>1, <2>3, CompleteStep, DestinationStep
    <2>4. QED
      BY <2>2, <2>3 DEF OutcomeInv
  <1>6. ASSUME ~orphaned', orphaned PROVE PendingInv' /\ OutcomeInv'
    <2>1. Reopen /\ ~DoResume /\ result # "done"
      BY <1>3, <1>6 DEF CompletionInv, OrphanInv
    <2>2. PendingInv'
      BY <1>1, <2>1, ReopenStep
    <2>3. pc' = "open" /\ result' # "done" /\ ~DoResume'
      BY <2>1 DEF Reopen, FirstStep, choiceVars
    <2>4. CompleteInv'
      BY <2>3 DEF CompleteInv, Sent, DestinationDone
    <2>5. DestinationInv'
      BY <2>3 DEF DestinationInv
    <2>6. QED
      BY <2>2, <2>4, <2>5 DEF OutcomeInv
  <1>7. QED
    BY <1>3, <1>5, <1>6 DEF CompletionInv, InOrder

\* ... and so does a step that changes nothing.
LEMMA StutterCompletion == CompletionInv /\ UNCHANGED vars => CompletionInv'
  <1> SUFFICES ASSUME CompletionInv, UNCHANGED vars PROVE CompletionInv'
    OBVIOUS
  <1> USE DEF vars, packetVars, choiceVars, attemptVars, requestVars, serverVars, flowVars
  <1>1. /\ Due' = Due /\ UNCHANGED RemoteFile
        /\ \A n : Noted(n)' <=> Noted(n)
        /\ \A n : IsReserved(n)' <=> IsReserved(n)
    BY DEF Due, RemoteFile, Noted, IsReserved
  <1>2. UNCHANGED <<Calls, Operand>>
    BY <1>1 DEF Calls, Operand
  <1>3. NumbersOK' <=> NumbersOK
    BY <1>1 DEF NumbersOK
  <1>4. OrderInv' <=> OrderInv
    BY DEF OrderInv
  <1>5. (Ending' <=> Ending) /\ (Open' <=> Open) /\ \A n : Loose(n)' <=> Loose(n)
    BY DEF Ending, Open, Loose
  <1>6. ShutInv'
    BY <1>1, <1>2, <1>3, <1>4, <1>5 DEF CompletionInv, ShutInv, Closes, Noted
  <1>7. ASSUME PendingInv PROVE PendingInv'
    <2>1. DueInv'
      BY <1>1, <1>2, <1>5, <1>7 DEF PendingInv, DueInv, InTurn, Noted
    <2>2. QueueInv'
      BY <1>1, <1>7 DEF PendingInv, QueueInv, Confirmed, IsReserved
    <2>3. CallInv'
      BY <1>2, <1>7 DEF PendingInv, CallInv
    <2>4. QED
      BY <1>3, <1>4, <1>7, <2>1, <2>2, <2>3 DEF PendingInv
  <1>8. ASSUME OutcomeInv PROVE OutcomeInv'
    <2>1. CompleteInv'
      BY <1>1, <1>8 DEF OutcomeInv, CompleteInv, Sent, Complete, DestinationDone, Blocks
    <2>2. DestinationInv'
      BY <1>1, <1>8 DEF OutcomeInv, DestinationInv, Present, Blocks, Early
    <2>3. QED
      BY <2>1, <2>2 DEF OutcomeInv
  <1>9. EndInv' /\ OrphanInv'
    BY DEF CompletionInv, EndInv, OrphanInv
  <1>10. QED
    BY <1>6, <1>7, <1>8, <1>9 DEF CompletionInv, InOrder

\* What is still to be answered has its taker at every moment, and the places of
\* the thread tell what is on the server.
THEOREM CompletionInvariance == Spec => [](IInv /\ CompletionInv)
  <1>1. IInv /\ CompletionInv /\ [Next]_vars => IInv' /\ CompletionInv'
    BY NextIInv, StutterIInv, NextCompletion, StutterCompletion
  <1>2. QED
    BY InitIInv, InitCompletion, <1>1, PTL DEF Spec

\* Wherever a resumable upload of any length is interrupted, refused or loses its
\* connection, the server holds a complete file, the old one or the new one:
\* SFTPSource removes the destination only once the partial file is complete and
\* closed.  The responses that SFTPCloseRemote and SFTPSource reserve only after
\* sending must not overtake: one that did would be taken for a block's.  (Unless
\* the upload is holed.)
THEOREM DestinationKept == InOrder => (Spec => []NewOrOld)
  <1> SUFFICES ASSUME InOrder PROVE Spec => []NewOrOld
    OBVIOUS
  <1>1. IInv /\ CompletionInv => NewOrOld
    <2> SUFFICES ASSUME CompletionInv, DoResume, ~holed PROVE NewOrOld
      BY DEF NewOrOld
    <2>1. OutcomeInv
      BY DEF CompletionInv, OrphanInv
    <2>2. QED
      BY <2>1 DEF OutcomeInv, DestinationInv, Present, NewOrOld
  <1>2. QED
    BY CompletionInvariance, <1>1, PTL

\* The upload that is over has left no file open, and the responses it has not
\* waited for have their reservations.
LEMMA UsableWhenOver ==
  ASSUME InOrder, RequestsOK, ResponsesOK, CompletionInv
  PROVE  LeavesConnectionUsable
  <1> SUFFICES ASSUME pc = "idle"
               PROVE  /\ ~handle
                      /\ ~orphaned =>
                           /\ \A r \in incoming : Expected(r.number)
                           /\ \A k \in Positions(outgoing) : Expected(outgoing[k].number)
    BY DEF LeavesConnectionUsable
  <1>1. ~handle
    BY DEF CompletionInv, ShutInv, Settled
  <1>2. ASSUME ~orphaned, NEW n \in Due PROVE Expected(n)
    <2>1. DueInv /\ \A m : ~Loose(m)
      BY <1>2, NothingLoose, CallFacts DEF CompletionInv, PendingInv
    <2>2. QED
      BY <1>2, <2>1 DEF DueInv, Noted, Expected
  <1>3. /\ \A r \in incoming : r.number \in Due
        /\ \A k \in Positions(outgoing) : outgoing[k].number \in Due
    BY DEF Due
  <1>4. QED
    BY <1>1, <1>2, <1>3

\* An upload that is reported done has the destination complete, for every number
\* of blocks, and whatever its end, the next call on the connection gets its own
\* response, also when the handler has thrown and a response is never looked at.
\* (With the same conditions, and unless the properties request is orphaned.)
THEOREM UploadComplete == InOrder => (Spec => []DoneIsComplete)
  <1> SUFFICES ASSUME InOrder PROVE Spec => []DoneIsComplete
    OBVIOUS
  <1>1. IInv /\ CompletionInv => DoneIsComplete
    <2> SUFFICES ASSUME IInv, CompletionInv PROVE DoneIsComplete
      OBVIOUS
    <2>1. LeavesConnectionUsable
      BY UsableWhenOver DEF IInv
    <2>2. result = "done" /\ ~holed => files["dest"] = Blocks
      BY DEF CompletionInv, OrphanInv, OutcomeInv, CompleteInv, DestinationDone
    <2>3. QED
      BY <2>1, <2>2 DEF DoneIsComplete
  <1>2. QED
    BY CompletionInvariance, <1>1, PTL
=============================================================================
