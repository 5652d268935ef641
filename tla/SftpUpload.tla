----------------------------- MODULE SftpUpload -----------------------------
(***************************************************************************)
(* The upload of one file over SFTP: TSFTPFileSystem::SFTPSourceRobust,    *)
(* SFTPSource and SFTPCloseRemote with TSFTPUploadQueue, from              *)
(* source/core/SftpFileSystem.cpp, on top of SftpPackets.                  *)
(*                                                                         *)
(* The file is read block by block.  The write requests go out without     *)
(* waiting for their responses; responses that arrive while a packet is    *)
(* being sent are taken by the receive handler of the queue.  With         *)
(* DoResume the blocks go to a partial file that replaces the destination  *)
(* once it is complete.  A connection that is lost is opened again and the *)
(* upload resumed.  The server executes the requests in the order they are *)
(* sent in and answers each, with a refusal when it is of a Refusable kind *)
(* or cannot be executed.  Nobody else touches the two files.  When the    *)
(* upload is over, one more request (the keep-alive) uses the connection.  *)
(*                                                                         *)
(* Left out: ASCII transfers, append and alternate resume (other           *)
(* OverwriteModes), renaming the destination in the overwrite prompt,      *)
(* moving the overwritten file to a recycle bin.                           *)
(***************************************************************************)
EXTENDS SftpPackets

CONSTANTS
  NoFile, Old,  \* contents of a file: it does not exist, it is the one before the upload
  N,            \* blocks of the local file
  Refusable,    \* kinds of requests the server may refuse
  Retried,      \* kinds of refused requests the user may want to repeat
  MaxRefusals,  \* bound: refusals without a reason of their own
  MaxDrops      \* bound: lost connections

ASSUME BoundAssumption == N \in Nat \ {0} /\ MaxRefusals \in Nat /\ MaxDrops \in Nat
ASSUME ContentsAssumption ==
  NoFile # Old /\ \A s \in SUBSET (1..N) : s # NoFile /\ s # Old
ASSUME KindsAssumption ==
  Kinds = {"stat", "open", "write", "close", "remove", "rename", "setstat", "realpath"}
ASSUME FilesAssumption == Files = {"dest", "partial"}

VARIABLES
  \* chosen with the first attempt
  DoResume,       \* will the transfer be resumable?
  Preserve,       \* does the user want time or rights preserved?
  before,         \* the destination before the upload
  \* one attempt
  pc,
  cpNoConfirmation,
  DestFileExists, ResumeTransfer,
  FTransfered,    \* blocks sent or already there
  FRequests,      \* the write requests of the queue, by number
  call,           \* the request whose response a blocking call waits for, or NULL
  CloseRequest, PropertiesRequest, \* their numbers once sent
  RemoteFileHandle, TransferFinished,
  overtaken,      \* has the receive handler put aside a response that came first?
  orphaned,       \* was the properties request sent without reserving its response?
  error,          \* an exception is on its way out of SFTPSource
  result,         \* what the caller of SFTPSourceRobust is told
  \* the server
  files, handle,
  holed,          \* it has refused a block, or deleted the file that is resumed
  refusals, drops

choiceVars == <<DoResume, Preserve, before>>
attemptVars == <<cpNoConfirmation, DestFileExists, ResumeTransfer>>
requestVars ==
  <<CloseRequest, PropertiesRequest, RemoteFileHandle, TransferFinished, overtaken, orphaned>>
serverVars == <<files, handle, holed, refusals>>
flowVars == <<error, result>>
vars == <<packetVars, choiceVars, attemptVars, requestVars, serverVars, flowVars,
          pc, FTransfered, FRequests, call, drops>>

Blocks == 1..N
RemoteFile == IF DoResume THEN "partial" ELSE "dest"

\* The rights of a file that is replaced are given to the new one.
ImplicitRights == DoResume /\ DestFileExists

\* Blocking calls: where in the code, and the request each one sends.
Calls == [check |-> "stat", discard |-> "remove", open |-> "open", erase |-> "remove",
          undo |-> "remove", remove |-> "remove", rename |-> "rename", touch |-> "setstat", idle |-> "realpath"]
Operand == [check |-> "dest", discard |-> "partial", open |-> RemoteFile, erase |-> RemoteFile,
            undo |-> RemoteFile, remove |-> "dest", rename |-> "partial", touch |-> "dest", idle |-> "dest"]

\* Places inside SendPacket where the receive handler of the queue may run.
Sending == {"writing", "closing", "setting"}

\* The packet whose response is being received, or NULL.
Awaited ==
  CASE pc \in Sending \union {"dispose"} /\ FRequests # <<>> -> Head(FRequests)
    [] pc = "close" -> CloseRequest
    [] pc = "properties" -> PropertiesRequest
    [] pc \in DOMAIN Calls -> call
    [] OTHER -> NULL

----------------------------------------------------------------------------
(* The server                                                              *)

\* The size of a file counts the holes before its last block.
Length(contents) ==
  IF contents \in {NoFile, Old} THEN 0
  ELSE Cardinality({k \in Blocks : \E m \in contents : k <= m})

Executable(q) ==
  CASE q.kind \in {"write", "close"} -> handle
    [] q.kind \in {"remove", "setstat"} -> files[q.file] # NoFile
    [] q.kind = "rename" -> files["partial"] # NoFile /\ files["dest"] = NoFile
    [] OTHER -> TRUE

Executed(q) ==
  CASE q.kind = "open" -> [files EXCEPT ![q.file] = IF ResumeTransfer /\ @ # NoFile THEN @ ELSE {}]
    [] q.kind = "write" -> [files EXCEPT ![q.file] = @ \union {q.block}]
    [] q.kind = "remove" -> [files EXCEPT ![q.file] = NoFile]
    [] q.kind = "rename" -> [dest |-> files["partial"], partial |-> NoFile]
    [] OTHER -> files

Serve ==
  /\ outgoing # <<>>
  /\ outgoing' = Tail(outgoing)
  /\ LET q == Head(outgoing)
         Answer(ok) == incoming' = incoming \union {[number |-> q.number, kind |-> q.kind, ok |-> ok]}
     IN \/ /\ Executable(q)
           /\ files' = Executed(q)
           /\ handle' = (q.kind = "open" \/ (handle /\ q.kind # "close"))
           /\ holed' = (holed \/ (pc = "erase" /\ ResumeTransfer))
           /\ Answer(TRUE)
           /\ UNCHANGED refusals
        \/ /\ ~Executable(q) \/ (q.kind \in Refusable /\ refusals < MaxRefusals)
           /\ refusals' = IF Executable(q) THEN refusals + 1 ELSE refusals
           /\ holed' = (holed \/ q.kind = "write")
           /\ Answer(FALSE)
           /\ handle' = (handle /\ q.kind # "close")  \* a refused close closes as well
           /\ UNCHANGED files
  /\ UNCHANGED <<FMessageCounter, FPacketReservations, FPacketNumbers, stored, choiceVars,
                 attemptVars, requestVars, flowVars, pc, FTransfered, FRequests, call, drops>>

----------------------------------------------------------------------------
(* The connection                                                          *)

\* A fatal error, whatever its cause, leaves every function; the server drops
\* what it has not executed.
Lost ==
  /\ pc' = IF pc = "idle" THEN "over" ELSE "unwind"
  /\ outgoing' = <<>> /\ incoming' = {}
  /\ FRequests' = <<>> /\ call' = NULL /\ CloseRequest' = NULL /\ PropertiesRequest' = NULL
  /\ handle' = FALSE /\ overtaken' = FALSE
  /\ UNCHANGED <<FMessageCounter, reservationVars, stored, choiceVars, attemptVars,
                 RemoteFileHandle, TransferFinished, orphaned, flowVars, FTransfered, files,
                 holed, refusals>>

\* On the way the packets are destroyed, with the queue and as local variables.
Valid(k) == FPacketReservations[k] # NULL
Unwind ==
  /\ pc = "unwind"
  /\ \E k \in Positions(FPacketReservations) :
       /\ Valid(k) /\ \A j \in 1..(k - 1) : ~Valid(j)
       /\ UnreserveResponse(FPacketReservations[k])
  /\ UNCHANGED <<FMessageCounter, outgoing, incoming, choiceVars, attemptVars, requestVars,
                 flowVars, serverVars, pc, FTransfered, FRequests, call, drops>>

Unwound ==
  /\ pc = "unwind" /\ \A k \in Positions(FPacketReservations) : ~Valid(k)
  /\ pc' = "lost"
  /\ UNCHANGED <<packetVars, choiceVars, attemptVars, requestVars, flowVars, serverVars,
                 FTransfered, FRequests, call, drops>>

Drop ==
  /\ pc \notin {"unwind", "lost", "over"}
  /\ drops < MaxDrops
  /\ drops' = drops + 1
  /\ Lost

FirstStep == IF DoResume THEN "check" ELSE "open"

Reopen ==
  /\ pc = "lost"
  /\ ResetConnection
  /\ pc' = FirstStep
  /\ cpNoConfirmation' = TRUE
  /\ DestFileExists' = FALSE /\ ResumeTransfer' = FALSE /\ FTransfered' = 0
  /\ RemoteFileHandle' = FALSE /\ TransferFinished' = FALSE /\ orphaned' = FALSE
  /\ error' = FALSE
  /\ UNCHANGED <<choiceVars, FRequests, call, CloseRequest, PropertiesRequest, overtaken,
                 result, serverVars, drops>>

GiveUp ==
  /\ pc = "lost"
  /\ pc' = "over" /\ result' = "failed"
  /\ UNCHANGED <<packetVars, choiceVars, attemptVars, requestVars, error, FTransfered,
                 FRequests, call, serverVars, drops>>

\* Somebody waits for one response and another one arrives; the receive handler
\* does not wait for more (HandleThrows).
Stores ==
  /\ Awaited # NULL
  /\ StoreReserved(Awaited)
  /\ overtaken' = (pc \in Sending)
  /\ UNCHANGED <<choiceVars, attemptVars, CloseRequest, PropertiesRequest, RemoteFileHandle,
                 TransferFinished, orphaned, flowVars, serverVars, pc, FTransfered, FRequests,
                 call, drops>>

----------------------------------------------------------------------------
(* Blocking calls: SendPacketAndReceiveResponse                            *)

SendCall ==
  /\ pc \in DOMAIN Calls /\ call = NULL
  /\ SendPacket(Calls[pc], Operand[pc], 0)
  /\ call' = NextNumber
  /\ UNCHANGED <<incoming, reservationVars, stored, choiceVars, attemptVars, requestVars,
                 flowVars, serverVars, pc, FTransfered, FRequests, drops>>

\* The call made at this place returns, or throws, with the given verdict.
Returns(place, verdict) ==
  /\ pc = place /\ call # NULL
  /\ \E p \in Acceptable(call) : Verdict(call, p) = verdict /\ Accept(call, p)
  /\ call' = NULL
  /\ UNCHANGED <<FMessageCounter, outgoing, choiceVars, cpNoConfirmation, requestVars, result,
                 serverVars, FRequests, drops>>

Goes(place) ==
  /\ pc' = place
  /\ UNCHANGED <<DestFileExists, ResumeTransfer, FTransfered, error>>

Fails ==
  /\ pc' = "leave" /\ error' = TRUE
  /\ UNCHANGED <<DestFileExists, ResumeTransfer, FTransfered>>

\* FILE_OPERATION_LOOP: the user repeats a refused call, skips or aborts.
RetriesOrFails(kind) == (kind \in Retried /\ Goes(pc)) \/ Fails

\* Mutant: the partial file is believed to be one block longer.
ResumeOffsetBeyond == IF files["partial"] = Blocks THEN N ELSE Length(files["partial"]) + 1

ResumeOffset == Length(files["partial"])

\* RemoteFileExists of the destination and of the partial file, and what the
\* user decides about them.
Checked ==
  /\ Returns("check", "ok")
  /\ \/ /\ DestFileExists' = (files["dest"] # NoFile)
        /\ UNCHANGED error
        /\ \/ /\ files["partial"] = NoFile
              /\ pc' = "open"
              /\ UNCHANGED <<ResumeTransfer, FTransfered>>
           \/ /\ files["partial"] # NoFile
              /\ ResumeTransfer' = TRUE /\ FTransfered' = ResumeOffset
              /\ pc' = "open"
           \/ /\ files["partial"] # NoFile /\ ~cpNoConfirmation
              /\ pc' = "discard"
              /\ UNCHANGED <<ResumeTransfer, FTransfered>>
     \/ /\ ~cpNoConfirmation
        /\ \E f \in DOMAIN files : files[f] # NoFile
        /\ Fails

Discarded ==
  \/ Returns("discard", "ok") /\ Goes("open")
  \/ Returns("discard", "refused") /\ Fails

\* SFTPOpenRemote
Opened ==
  /\ pc = "open" /\ call # NULL
  /\ \E p \in Acceptable(call) : Verdict(call, p) = "ok" /\ Accept(call, p)
  /\ pc' = "continue" /\ RemoteFileHandle' = TRUE /\ call' = NULL
  /\ UNCHANGED <<FMessageCounter, outgoing, choiceVars, attemptVars, CloseRequest,
                 PropertiesRequest, TransferFinished, overtaken, orphaned, flowVars,
                 serverVars, FTransfered, FRequests, drops>>

\* When the file is there, the user may also have it deleted: it is then opened
\* again, in the way chosen before.
NotOpened ==
  /\ Returns("open", "refused")
  /\ RetriesOrFails("open") \/ (files[RemoteFile] # NoFile /\ Goes("erase"))

\* TTerminal::DeleteFile: a refused deletion can be skipped.
Erased ==
  \/ Returns("erase", "ok") /\ Goes("open")
  \/ Returns("erase", "refused") /\ (RetriesOrFails("remove") \/ Goes("open"))

\* Without resuming, it is the exclusive open that finds the file to be there
\* already; the user declines to overwrite it.
Declined ==
  /\ pc = "open" /\ call = NULL
  /\ ~DoResume /\ ~cpNoConfirmation /\ files["dest"] # NoFile
  /\ Fails
  /\ UNCHANGED <<packetVars, choiceVars, cpNoConfirmation, requestVars, result, serverVars,
                 FRequests, call, drops>>

----------------------------------------------------------------------------
(* The queue of write requests                                             *)

\* SendRequest: the response is reserved before the request is sent.
Continue ==
  /\ pc = "continue" /\ FTransfered < N
  /\ ReserveResponse(NextNumber)
  /\ SendPacket("write", RemoteFile, FTransfered + 1)
  /\ FTransfered' = FTransfered + 1
  /\ FRequests' = Append(FRequests, NextNumber)
  /\ pc' = "writing"
  /\ UNCHANGED <<incoming, stored, choiceVars, attemptVars, requestVars, flowVars, serverVars,
                 call, drops>>

\* The user cancels, or the local file cannot be read.
Interrupted ==
  /\ pc = "continue"
  /\ pc' = "dispose" /\ error' = TRUE
  /\ UNCHANGED <<packetVars, choiceVars, attemptVars, requestVars, result, serverVars,
                 FTransfered, FRequests, call, drops>>

\* ReceiveHandler, while SendPacket runs: the response to the oldest request.
Handles(verdict) ==
  /\ pc \in Sending /\ FRequests # <<>>
  /\ incoming # {}
  /\ \E p \in Acceptable(Awaited) : Verdict(Awaited, p) = verdict /\ Accept(Awaited, p)
  /\ FRequests' = Tail(FRequests)
  /\ overtaken' = FALSE
  /\ UNCHANGED <<FMessageCounter, outgoing, choiceVars, attemptVars, CloseRequest,
                 PropertiesRequest, TransferFinished, result, serverVars, FTransfered, call,
                 drops>>

HandleWritten == Handles("ok") /\ UNCHANGED <<pc, error, RemoteFileHandle, orphaned>>

\* The properties can be set early unless the file has another name yet.
AfterClose == IF Preserve /\ ~DoResume THEN "set" ELSE "dispose"

\* SendPacket throws, which SFTPCloseRemote ignores; what it has sent is not
\* reserved, unless it was a write.
SendPacketThrows ==
  IF pc = "closing"
    THEN pc' = AfterClose /\ RemoteFileHandle' = FALSE /\ UNCHANGED <<error, orphaned>>
    ELSE /\ pc' = "dispose" /\ error' = TRUE /\ orphaned' = (pc = "setting")
         /\ UNCHANGED RemoteFileHandle

\* A write was refused.
HandleRefused == Handles("refused") /\ SendPacketThrows

\* With a response put aside and no other one complete, ReceivePacket resets the
\* packet, which throws; TSFTPQueue::ReceivePacket destroys it with its request.
HandleThrows ==
  /\ pc \in Sending /\ FRequests # <<>> /\ overtaken
  /\ UnreserveResponse(Awaited)
  /\ FRequests' = Tail(FRequests)
  /\ overtaken' = FALSE
  /\ SendPacketThrows
  /\ UNCHANGED <<FMessageCounter, outgoing, incoming, choiceVars, attemptVars, CloseRequest,
                 PropertiesRequest, TransferFinished, result, serverVars, FTransfered, call,
                 drops>>

Written ==
  /\ pc = "writing" /\ ~overtaken /\ pc' = "continue"
  /\ UNCHANGED <<packetVars, choiceVars, attemptVars, requestVars, flowVars, serverVars,
                 FTransfered, FRequests, call, drops>>

\* SFTPCloseRemote: reserved when SendPacket has returned (CloseSent).
SendClose ==
  /\ pc = "continue" /\ FTransfered = N
  /\ SendPacket("close", RemoteFile, 0)
  /\ CloseRequest' = NextNumber
  /\ pc' = "closing"
  /\ UNCHANGED <<incoming, reservationVars, stored, choiceVars, attemptVars, PropertiesRequest,
                 RemoteFileHandle, TransferFinished, overtaken, orphaned, flowVars, serverVars,
                 FTransfered, FRequests, call, drops>>

CloseSent ==
  /\ pc = "closing" /\ ~overtaken
  /\ ReserveResponse(CloseRequest)
  /\ RemoteFileHandle' = FALSE
  /\ pc' = AfterClose
  /\ UNCHANGED <<FMessageCounter, outgoing, incoming, stored, choiceVars, attemptVars,
                 CloseRequest, PropertiesRequest, TransferFinished, overtaken, orphaned,
                 flowVars, serverVars, FTransfered, FRequests, call, drops>>

SendProperties ==
  /\ pc = "set"
  /\ SendPacket("setstat", "dest", 0)
  /\ PropertiesRequest' = NextNumber
  /\ pc' = "setting"
  /\ UNCHANGED <<incoming, reservationVars, stored, choiceVars, attemptVars, CloseRequest,
                 RemoteFileHandle, TransferFinished, overtaken, orphaned, flowVars, serverVars,
                 FTransfered, FRequests, call, drops>>

PropertiesSent ==
  /\ pc = "setting" /\ ~overtaken
  /\ ReserveResponse(PropertiesRequest)
  /\ pc' = "dispose"
  /\ UNCHANGED <<FMessageCounter, outgoing, incoming, stored, choiceVars, attemptVars,
                 requestVars, flowVars, serverVars, FTransfered, FRequests, call, drops>>

\* Dispose: the remaining responses, refusals ignored.
DisposeResponse ==
  /\ pc = "dispose" /\ FRequests # <<>>
  /\ \E p \in Acceptable(Awaited) : Verdict(Awaited, p) # "fatal" /\ Accept(Awaited, p)
  /\ FRequests' = Tail(FRequests)
  /\ UNCHANGED <<FMessageCounter, outgoing, choiceVars, attemptVars, requestVars, flowVars,
                 serverVars, pc, FTransfered, call, drops>>

----------------------------------------------------------------------------
(* Closing and finishing                                                   *)

\* Mutant: an interrupted transfer does not wait for the close.
AfterDisposeHasty == IF ~error THEN "close" ELSE IF DoResume THEN "leave" ELSE "undo"

AfterDispose == "close"

Disposed ==
  /\ pc = "dispose" /\ FRequests = <<>>
  /\ TransferFinished' = ~error
  /\ pc' = AfterDispose
  /\ IF RemoteFileHandle
       THEN /\ SendPacket("close", RemoteFile, 0)
            /\ ReserveResponse(NextNumber)
            /\ CloseRequest' = NextNumber
       ELSE UNCHANGED <<FMessageCounter, outgoing, reservationVars, CloseRequest>>
  /\ UNCHANGED <<incoming, stored, choiceVars, attemptVars, PropertiesRequest, RemoteFileHandle,
                 overtaken, orphaned, flowVars, serverVars, FTransfered, FRequests, call,
                 drops>>

Finish ==
  IF DoResume THEN (IF DestFileExists THEN "remove" ELSE "rename")
  ELSE IF Preserve THEN "properties" ELSE "leave"

\* Mutant: an interrupted transfer is finished like any other.
AfterTransferAlways == Finish

\* An unfinished file is deleted unless it can be resumed.
AfterTransfer == IF TransferFinished THEN Finish ELSE IF DoResume THEN "leave" ELSE "undo"

\* The response to the request with this number arrives in its own packet.
Receives(place, packet, verdict) ==
  /\ pc = place
  /\ \E p \in Acceptable(packet) : Verdict(packet, p) = verdict /\ Accept(packet, p)
  /\ UNCHANGED <<FMessageCounter, outgoing, choiceVars, cpNoConfirmation, requestVars, result,
                 serverVars, FRequests, call, drops>>

Closed == Receives("close", CloseRequest, "ok") /\ Goes(AfterTransfer)

CloseRefused ==
  /\ Receives("close", CloseRequest, "refused")
  /\ IF TransferFinished THEN RetriesOrFails("close") ELSE Goes(AfterTransfer)

Undone == (Returns("undo", "ok") \/ Returns("undo", "refused")) /\ Goes("leave")

Removed ==
  \/ Returns("remove", "ok") /\ Goes("rename")
  \/ Returns("remove", "refused") /\ RetriesOrFails("remove")

Renamed ==
  \/ Returns("rename", "ok") /\ Goes(IF Preserve \/ ImplicitRights THEN "touch" ELSE "leave")
  \/ Returns("rename", "refused") /\ RetriesOrFails("rename")

\* Errors of properties nobody asked for are ignored.
Touched ==
  \/ Returns("touch", "ok") /\ Goes("leave")
  \/ Returns("touch", "refused") /\ IF Preserve THEN RetriesOrFails("setstat") ELSE Goes("leave")

\* Mutant: the request is not sent again.
ResendOmitted == "properties"

Resend == "touch"

PropertiesSet ==
  \/ Receives("properties", PropertiesRequest, "ok") /\ Goes("leave")
  \/ /\ Receives("properties", PropertiesRequest, "refused")
     /\ ("setstat" \in Retried /\ Goes(Resend)) \/ Fails

\* SFTPSource is left: the response to the properties may still be due.
Leave ==
  /\ pc = "leave"
  /\ pc' = "idle" /\ result' = IF error THEN "failed" ELSE "done"
  /\ IF PropertiesRequest # NULL THEN UnreserveResponse(PropertiesRequest)
                                 ELSE UNCHANGED <<reservationVars, stored>>
  /\ UNCHANGED <<FMessageCounter, outgoing, incoming, choiceVars, attemptVars, requestVars,
                 error, serverVars, FTransfered, FRequests, call, drops>>

\* TSFTPFileSystem::Idle: any later request on the same connection.
KeptAlive == (Returns("idle", "ok") \/ Returns("idle", "refused")) /\ Goes("over")

\* The response has an unexpected number.
WrongNumber ==
  /\ Awaited # NULL
  /\ pc \in Sending => incoming # {}
  /\ \E p \in Acceptable(Awaited) : Verdict(Awaited, p) = "fatal"
  /\ UNCHANGED drops
  /\ Lost

----------------------------------------------------------------------------
Init ==
  /\ PacketsInit
  /\ DoResume \in BOOLEAN /\ Preserve \in BOOLEAN /\ before \in {NoFile, Old}
  /\ pc = FirstStep
  /\ cpNoConfirmation = FALSE /\ DestFileExists = FALSE /\ ResumeTransfer = FALSE
  /\ FTransfered = 0 /\ FRequests = <<>> /\ call = NULL
  /\ CloseRequest = NULL /\ PropertiesRequest = NULL
  /\ RemoteFileHandle = FALSE /\ TransferFinished = FALSE
  /\ overtaken = FALSE /\ orphaned = FALSE
  /\ error = FALSE /\ result = "none"
  /\ \E left \in {NoFile} \union {1..k : k \in 0..N} :
       files = [dest |-> before, partial |-> IF DoResume THEN left ELSE NoFile]
  /\ handle = FALSE /\ holed = FALSE /\ refusals = 0 /\ drops = 0

Transfer ==
  \/ SendCall \/ Checked \/ Discarded \/ Opened \/ NotOpened \/ Erased \/ Declined
  \/ Continue \/ Written \/ SendClose \/ CloseSent \/ SendProperties \/ PropertiesSent
  \/ Stores \/ HandleWritten \/ HandleRefused \/ HandleThrows \/ DisposeResponse \/ Disposed
  \/ Closed \/ CloseRefused \/ Undone \/ Removed \/ Renamed \/ Touched \/ PropertiesSet
  \/ Leave \/ KeptAlive \/ WrongNumber \/ Unwind \/ Unwound \/ Reopen \/ GiveUp

Next == Transfer \/ Serve \/ Interrupted \/ Drop

Spec == Init /\ [][Next]_vars

\* The thread runs, the server answers, and the user answers the questions.
FairSpec == Spec /\ WF_vars(Transfer) /\ WF_vars(Serve)

----------------------------------------------------------------------------
(* Properties                                                              *)

Contents == {NoFile, Old} \union SUBSET Blocks
Places == {"continue", "writing", "closing", "set", "setting", "dispose", "close",
           "properties", "leave", "unwind", "lost", "over"} \union DOMAIN Calls

UploadTypeOK ==
  /\ {DoResume, Preserve, cpNoConfirmation, DestFileExists, ResumeTransfer} \subseteq BOOLEAN
  /\ {RemoteFileHandle, TransferFinished, error, handle, holed, overtaken, orphaned}
       \subseteq BOOLEAN
  /\ before \in {NoFile, Old} /\ files \in [Files -> Contents]
  /\ pc \in Places /\ FTransfered \in 0..N
  /\ FRequests \in Seq(Nat) /\ {call, CloseRequest, PropertiesRequest} \subseteq Nat
  /\ result \in {"none", "done", "failed"}
  /\ refusals \in 0..MaxRefusals /\ drops \in 0..MaxDrops

\* The types of the variables; the two lists of reservations are of one length.
TypeOK == PacketTypeOK /\ UploadTypeOK

\* Whatever is interrupted, lost or refused at whatever moment of a
\* resumable upload, the server holds one complete file: the old one, the
\* new one, or the new one still under its partial name (SFTPSource deletes
\* the destination only after the close of the partial file is answered) -
\* as long as every block is written, and the user does not have the partial
\* file deleted while it is resumed (holed; see DoneIsWhole).
NewOrOld ==
  DoResume /\ ~holed =>
    \/ files["dest"] \in {before, Blocks}
    \/ files["dest"] = NoFile /\ files["partial"] = Blocks

\* An upload that is over, done or failed, leaves no file open behind, whichever
\* call the error came out of, and the responses still due are ones somebody
\* expects or has left to be skipped, so that the next call on the connection
\* gets its own.  (Not when an exception came out of SendPacket after SFTPSource
\* had sent the properties request: its response is not reserved.)
Expected(number) == number = call \/ Contains(FPacketNumbers, number)
LeavesConnectionUsable ==
  pc = "idle" =>
    /\ ~handle
    /\ ~orphaned =>
         /\ \A r \in incoming : Expected(r.number)
         /\ \A k \in Positions(outgoing) : Expected(outgoing[k].number)

\* When the upload is reported done the destination is the local file, as long
\* as every block is written and the file that was resumed was not deleted under
\* it, also when the responses to the last blocks are never looked at because
\* the handler has thrown; and the connection can be used.
DoneIsComplete ==
  /\ result = "done" /\ ~holed => files["dest"] = Blocks
  /\ LeavesConnectionUsable

\* What is on the server is a beginning of the local file, so that its size
\* tells where to resume, with the same two exceptions.
PartialIsPrefix ==
  ~holed => \A f \in DOMAIN files : files[f] \notin {NoFile, Old} =>
    files[f] = 1..Cardinality(files[f])

\* What makes PartialIsPrefix inductive.  Until the file is open one blocking
\* call at a time is all that is under way ...
Early == pc \in {"check", "discard", "open", "erase"}
NothingUnderWay == outgoing = <<>> /\ incoming = {} /\ ~handle
RequestUnderWay ==
  /\ Len(outgoing) = 1 /\ outgoing[1].number = call
  /\ outgoing[1].kind = Calls[pc] /\ outgoing[1].file = Operand[pc]
  /\ incoming = {} /\ ~handle
ResponseUnderWay(ok) ==
  /\ outgoing = <<>> /\ incoming = {[number |-> call, kind |-> Calls[pc], ok |-> ok]}
  /\ handle = (pc = "open" /\ ok)
EarlyInv ==
  /\ Early => FPacketReservations = <<>> /\ FPacketNumbers = <<>> /\ stored = {}
  /\ Early /\ call = NULL => NothingUnderWay
  /\ Early /\ call # NULL => RequestUnderWay \/ \E ok \in BOOLEAN : ResponseUnderWay(ok)
  /\ \A k \in Positions(outgoing) : outgoing[k].kind = "open" => pc = "open"
  /\ pc \in {"unwind", "lost"} => NothingUnderWay /\ call = NULL

\* ... what is resumed is what is there ...
ResumeInv ==
  /\ pc \in {"check", "discard"} => DoResume /\ FTransfered = 0 /\ ~ResumeTransfer
  /\ pc \in {"open", "erase"} /\ ~ResumeTransfer => FTransfered = 0
  /\ pc \in {"open", "erase"} /\ ResumeTransfer => DoResume
  /\ pc \in {"open", "erase"} /\ ~holed /\ (ResumeTransfer \/ handle) =>
       files[RemoteFile] = 1..FTransfered

\* ... an open file is there, and only the blocks go to it ...
FileInv ==
  /\ files["partial"] # Old
  /\ handle => files[RemoteFile] \in SUBSET Blocks
  /\ \A k \in Positions(outgoing) :
       outgoing[k].kind = "write" => outgoing[k].file = RemoteFile /\ outgoing[k].block \in Blocks

\* ... it is closed before it is removed or renamed ...
Displaces(q) == q.kind = "rename" \/ (q.kind = "remove" /\ q.file = RemoteFile)
Closes(k) == outgoing[k].kind = "close"
ClosedByThen ==
  \/ pc \in {"closing", "set", "setting", "close", "properties", "leave", "undo", "remove",
             "rename", "touch", "idle"}
  \/ pc = "dispose" /\ ~RemoteFileHandle
CloseInv ==
  /\ pc \in {"continue", "writing"} => RemoteFileHandle
  /\ pc \in {"set", "setting"} => ~RemoteFileHandle
  /\ handle /\ ClosedByThen => \E j \in Positions(outgoing) : Closes(j)
  /\ handle => \A k \in Positions(outgoing) :
       Displaces(outgoing[k]) => \E j \in 1..(k - 1) : Closes(j)

\* ... and the blocks under way are the next ones.
WritesInv ==
  ~holed => \A k \in Positions(outgoing) : outgoing[k].kind = "write" =>
    /\ handle /\ files[RemoteFile] = 1..(outgoing[1].block - 1)
    /\ outgoing[k].block = outgoing[1].block + k - 1
    /\ \A j \in 1..k : outgoing[j].kind = "write"
TransferInv ==
  ~holed /\ pc \in {"continue", "writing"} =>
    /\ handle /\ files[RemoteFile] = 1..(FTransfered - Len(outgoing))
    /\ \A k \in Positions(outgoing) :
         outgoing[k].kind = "write" /\ outgoing[k].block = FTransfered - Len(outgoing) + k

UploadInvariant ==
  EarlyInv /\ ResumeInv /\ FileInv /\ CloseInv /\ WritesInv /\ TransferInv /\ PartialIsPrefix

\* SFTPSource: "delete file if transfer was not completed, resuming was not
\* allowed": an upload that is over leaves no incomplete file.
IncompleteIsDeleted ==
  pc = "idle" /\ ~DoResume => files["dest"] \in {before, NoFile, Blocks}

\* The button of the question about a file that cannot be opened promises to
\* "delete the file and create new one instead of overwriting it"
\* (SFTP_OVERWRITE_FILE_ERROR2): with every block written, what is reported done
\* is the local file.
DoneIsWhole == result = "done" => files["dest"] = Blocks

\* The upload comes to an end, with the connection lost and requests refused
\* so many times - unless attempt after attempt has its properties request left
\* unreserved by an exception: the answer to it is then taken for the answer to
\* another call, which is fatal, and the upload starts again.
UploadEnds == <>(pc = "over") \/ []<>orphaned
=============================================================================
