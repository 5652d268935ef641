---------------------------- MODULE SftpDownload ----------------------------
(***************************************************************************)
(* The download of one file over SFTP: TSFTPFileSystem::SFTPSinkRobust and *)
(* SFTPSink with TSFTPDownloadQueue, from source/core/SftpFileSystem.cpp,  *)
(* on top of SftpPackets.                                                  *)
(*                                                                         *)
(* Several read requests are under way; their responses are taken in the   *)
(* order of the requests.  The server may return less than was asked for:  *)
(* the gap is filled by a blocking request of its own while the requests   *)
(* behind it are being answered.  The file may have another size than the  *)
(* directory listing has said.  A resumable download goes to a partial     *)
(* file that replaces the destination once it is complete; the user may    *)
(* also have the remote file appended to the local one, or the local one   *)
(* continued, and the parameters of the transfer may do so without asking. *)
(* A connection that is lost is opened again and the download started      *)
(* over, which resumes the partial file, and appends once more if the      *)
(* parameters say that the file is to be appended.                         *)
(*                                                                         *)
(* The remote file is <<1, 2, ..., RealSize>>, a local file a sequence of  *)
(* such units; it does not change while it is downloaded, so that what a   *)
(* response holds is chosen when it is read.  All requests of the queue    *)
(* ask for BlockSize units (the code adapts the size to the speed).  Left  *)
(* out: ASCII transfers, renaming the destination in the overwrite prompt, *)
(* time and attributes, deleting the source (cpDelete).                    *)
(***************************************************************************)
EXTENDS SftpPackets

CONSTANTS
  NoFile,       \* the file does not exist
  Sizes,        \* of the remote file
  BlockSize,    \* DownloadBlockSize
  SFTPDownloadQueue, \* most requests under way
  MaxShort,     \* bound: responses shorter than they could be
  MaxFailures,  \* bound: requests and local operations refused
  MaxDrops      \* bound: lost connections

ASSUME SizesAssumption == Sizes \subseteq Nat \ {0} /\ BlockSize \in Nat \ {0}
ASSUME QueueAssumption == SFTPDownloadQueue \in Nat \ {0}
ASSUME BoundsAssumption == {MaxShort, MaxFailures, MaxDrops} \subseteq Nat
ASSUME NoFileAssumption == NoFile \notin Seq(Nat)
ASSUME KindsAssumption == Kinds = {"open", "fstat", "read", "eof", "close", "realpath"}
ASSUME FilesAssumption == Files = {"source"}

VARIABLES
  \* chosen with the first attempt
  Resumable,      \* may the transfer use a partial file?
  Params,         \* what is to be done with an existing file without asking
  RealSize,       \* of the remote file
  ListedSize,     \* what the listing says of it
  before,         \* the destination before the download
  \* one attempt
  pc,
  cpNoConfirmation,
  DestFileExists, ResumeTransfer, OverwriteMode,
  DeleteLocalFile,
  TransferSize, TransferedSize, LocallyUsed,
  Missing, PrevIncomplete,
  DataPacket,     \* the data taken last: its offset and length, and whether it says it is the last
  \* the queue
  FRequests,      \* the read requests under way, number and offset
  FTransfered,    \* the offset of the next one
  FMissedRequests,
  call,           \* the request whose response a blocking call waits for, or NULL
  RemoteHandle,
  error,          \* an exception is on its way out of SFTPSink
  result,         \* what the caller of SFTPSinkRobust is told
  \* surroundings
  local,          \* the local files
  handle,         \* the server has the file open
  shorts, failures, drops

choiceVars == <<Resumable, Params, RealSize, ListedSize, before>>
attemptVars == <<cpNoConfirmation, DestFileExists, ResumeTransfer, OverwriteMode>>
progressVars == <<TransferSize, TransferedSize, LocallyUsed>>
blockVars == <<Missing, PrevIncomplete, DataPacket, shorts>>
queueVars == <<FRequests, FTransfered, FMissedRequests>>
serverVars == <<handle, failures>>
vars == <<packetVars, choiceVars, attemptVars, progressVars, blockVars, queueVars, serverVars,
          pc, DeleteLocalFile, call, RemoteHandle, error, result, local, drops>>

Remote(first, size) == [k \in 1..size |-> first + k]
LocalFileName == IF Resumable THEN "partial" ELSE "dest"

\* Appending and continuing switch resuming off.
ResumeAllowed == Resumable /\ OverwriteMode = "overwrite"
Target == IF OverwriteMode = "overwrite" THEN LocalFileName ELSE "dest"

NoData == [offset |-> 0, length |-> 0, last |-> FALSE]

Least(a, b) == IF a < b THEN a ELSE b
Most(a, b) == IF a < b THEN b ELSE a

\* Blocking calls: where in the code, and the request each one sends.
Calls == [open |-> "open", fstat |-> "fstat", fill |-> "read", idle |-> "realpath"]

\* The packet whose response is being received, or NULL.
Awaited ==
  IF pc \in {"reading", "dispose"} /\ FRequests # <<>> THEN Head(FRequests).number
  ELSE IF pc \in DOMAIN Calls THEN call ELSE NULL

----------------------------------------------------------------------------
(* The server                                                              *)

Executable(q) == q.kind \in {"fstat", "read", "close"} => handle

\* A read behind the end of the file is answered with a status of its own.
Answered(q) == IF q.kind = "read" /\ q.block >= RealSize THEN "eof" ELSE q.kind

Serve ==
  /\ outgoing # <<>>
  /\ outgoing' = Tail(outgoing)
  /\ LET q == Head(outgoing) IN
     \E ok \in BOOLEAN :
       /\ ok => Executable(q)
       /\ ~ok /\ Executable(q) => failures < MaxFailures
       /\ failures' = IF ~ok /\ Executable(q) THEN failures + 1 ELSE failures
       /\ incoming' = incoming \union {[number |-> q.number, kind |-> Answered(q), ok |-> ok]}
       /\ handle' = ((q.kind = "open" /\ ok) \/ (handle /\ q.kind # "close"))
  /\ UNCHANGED <<FMessageCounter, reservationVars, stored, choiceVars, attemptVars, progressVars,
                 blockVars, queueVars, pc, DeleteLocalFile, call, RemoteHandle, error, result,
                 local, drops>>

----------------------------------------------------------------------------
(* The connection                                                          *)

\* A fatal error, whatever its cause, leaves every function; the server closes
\* the file.  The packets of the queue and the call are destroyed on the way:
\* the reservations are not used again before the connection is reset.
Lost ==
  /\ pc' = IF pc = "idle" THEN "over" ELSE "unwind"
  /\ outgoing' = <<>> /\ incoming' = {} /\ handle' = FALSE
  /\ FPacketReservations' = <<>> /\ FPacketNumbers' = <<>> /\ stored' = {}
  /\ FRequests' = <<>> /\ call' = NULL
  /\ error' = TRUE
  /\ UNCHANGED <<FMessageCounter, choiceVars, attemptVars, progressVars, blockVars, FTransfered,
                 FMissedRequests, failures, DeleteLocalFile, RemoteHandle, result, local>>

\* Where the code uses the connection, and notices.
UsesConnection ==
  pc \in DOMAIN Calls \union {"sending", "reading", "closing", "dispose"} \/ (pc = "cleanup" /\ RemoteHandle)

Drop ==
  /\ UsesConnection
  /\ drops < MaxDrops
  /\ drops' = drops + 1
  /\ Lost

\* Mutant: a started partial file is deleted as well.
DeletedOnFailureAlways == DeleteLocalFile /\ OverwriteMode = "overwrite"

\* Mutant: whatever has been written is kept.
DeletedWhenEmpty == DeleteLocalFile /\ LocallyUsed = 0 /\ OverwriteMode = "overwrite"

\* What is left of an unfinished download is kept only to be resumed.
DeletedOnFailure ==
  DeleteLocalFile /\ (~ResumeAllowed \/ LocallyUsed = 0) /\ OverwriteMode = "overwrite"

LocalAfterwards ==
  IF DeletedOnFailure THEN [local EXCEPT ![LocalFileName] = NoFile] ELSE local

\* The __finally of SFTPSink when the session is not active any more.
Unwound ==
  /\ pc = "unwind"
  /\ local' = LocalAfterwards
  /\ pc' = "lost"
  /\ UNCHANGED <<packetVars, choiceVars, attemptVars, progressVars, blockVars, queueVars,
                 serverVars, DeleteLocalFile, call, RemoteHandle, error, result, drops>>

\* TRobustOperationLoop::TryReopen, RollbackTransfer
Reopen ==
  /\ pc = "lost"
  /\ ResetConnection
  /\ pc' = "check"
  /\ cpNoConfirmation' = TRUE
  /\ ResumeTransfer' = FALSE /\ OverwriteMode' = "overwrite"
  /\ TransferedSize' = 0 /\ LocallyUsed' = 0
  /\ Missing' = 0 /\ PrevIncomplete' = FALSE
  /\ DeleteLocalFile' = FALSE /\ RemoteHandle' = FALSE /\ error' = FALSE
  /\ UNCHANGED <<choiceVars, DestFileExists, TransferSize, DataPacket, shorts, queueVars,
                 serverVars, call, result, local, drops>>

GiveUp ==
  /\ pc = "lost"
  /\ pc' = "over" /\ result' = "failed"
  /\ UNCHANGED <<packetVars, choiceVars, attemptVars, progressVars, blockVars, queueVars,
                 serverVars, DeleteLocalFile, call, RemoteHandle, error, local, drops>>

\* Somebody waits for one response and another one arrives.
Stores ==
  /\ Awaited # NULL
  /\ StoreReserved(Awaited)
  /\ UNCHANGED <<choiceVars, attemptVars, progressVars, blockVars, queueVars, serverVars, pc,
                 DeleteLocalFile, call, RemoteHandle, error, result, local, drops>>

----------------------------------------------------------------------------
(* Before the transfer                                                     *)

\* An exception leaves the function; with the queue in existence it is
\* disposed of first.
Fails(place) == pc' = place /\ error' = TRUE
Goes(place) == pc' = place /\ UNCHANGED error

\* The listing's size is what the code expects, until it has more.
Begins(resumed) ==
  /\ TransferSize' = Most(ListedSize, resumed)
  /\ TransferedSize' = resumed /\ LocallyUsed' = resumed

\* The partial file: it is resumed, deleted, or the user declines either.
Check ==
  /\ pc = "check"
  /\ DestFileExists' = (local["dest"] # NoFile)
  /\ LET partial == IF Resumable THEN local["partial"] ELSE NoFile
         bigger == Len(partial) > ListedSize
     IN \/ /\ partial = NoFile
           /\ Begins(0) /\ Goes("open")
           /\ UNCHANGED <<ResumeTransfer, local>>
        \/ /\ partial # NoFile /\ ~bigger
           /\ ResumeTransfer' = TRUE
           /\ Begins(Len(partial)) /\ Goes("open")
           /\ UNCHANGED local
        \/ /\ partial # NoFile /\ (bigger \/ ~cpNoConfirmation)
           /\ local' = [local EXCEPT !["partial"] = NoFile]
           /\ Begins(0) /\ Goes("open")
           /\ UNCHANGED ResumeTransfer
        \/ /\ partial # NoFile /\ ~cpNoConfirmation
           /\ Begins(0) /\ Fails("cleanup")
           /\ UNCHANGED <<ResumeTransfer, local>>
  /\ UNCHANGED <<packetVars, choiceVars, cpNoConfirmation, OverwriteMode, blockVars, queueVars,
                 serverVars, DeleteLocalFile, call, RemoteHandle, result, drops>>

SendCall ==
  /\ pc \in DOMAIN Calls /\ call = NULL
  /\ SendPacket(Calls[pc], "source", IF pc = "fill" THEN TransferedSize ELSE 0)
  /\ call' = NextNumber
  /\ UNCHANGED <<incoming, reservationVars, stored, choiceVars, attemptVars, progressVars,
                 blockVars, queueVars, serverVars, pc, DeleteLocalFile, RemoteHandle, error,
                 result, local, drops>>

\* The call made at this place returns, or throws, with the given verdict.
Returns(place, verdict) ==
  /\ pc = place /\ call # NULL
  /\ \E p \in Acceptable(call) : Verdict(call, p) = verdict /\ Accept(call, p)
  /\ call' = NULL
  /\ UNCHANGED <<FMessageCounter, outgoing, choiceVars, attemptVars, progressVars, blockVars,
                 queueVars, serverVars, DeleteLocalFile, result, local, drops>>

\* SFTPOpenRemoteFile; the user may repeat it.
Opened ==
  \/ Returns("open", "ok") /\ RemoteHandle' = TRUE /\ Goes("fstat")
  \/ Returns("open", "refused") /\ (Goes("open") \/ Fails("cleanup")) /\ UNCHANGED RemoteHandle

\* An error is ignored: what the listing says of the file has to do.
Loaded ==
  /\ Returns("fstat", "ok") \/ Returns("fstat", "refused")
  /\ Goes("confirm")
  /\ UNCHANGED RemoteHandle

\* What is decided without the user: the parameters count more than that there
\* is nothing to be confirmed.
EffectiveBatchOverwrite(special) ==
  IF special /\ Params = "cpResume" THEN "resume"
  ELSE IF Params = "cpAppend" THEN "append"
  ELSE IF Params = "NewerOnly" THEN "older"
  ELSE IF cpNoConfirmation THEN "all" ELSE "ask"

CanAlternateResume == local["dest"] # NoFile /\ Len(local["dest"]) < TransferSize

BatchOverwrite == EffectiveBatchOverwrite(CanAlternateResume)

\* ConfirmFileOverwrite may return this answer: forced, decided by the time
\* stamps ("older"), or given by the user.
Answer(choice) ==
  \/ choice = BatchOverwrite
  \/ choice = "overwrite" /\ BatchOverwrite \in {"older", "all", "ask"}
  \/ choice = "skip" /\ BatchOverwrite \in {"older", "ask"}
  \/ choice = "append" /\ BatchOverwrite = "ask"
  \/ choice = "resume" /\ BatchOverwrite = "ask" /\ CanAlternateResume

\* SFTPConfirmOverwrite: overwrite, append or continue, or leave the file.
Confirm ==
  /\ pc = "confirm"
  /\ LET asked == DestFileExists /\ ~ResumeTransfer
     IN \/ /\ ~asked \/ Answer("overwrite")
           /\ Goes("create")
           /\ UNCHANGED <<OverwriteMode, progressVars, DeleteLocalFile>>
        \/ /\ asked /\ Answer("append")
           /\ OverwriteMode' = "append" /\ DeleteLocalFile' = TRUE
           /\ Goes("init")
           /\ UNCHANGED progressVars
        \/ /\ asked /\ Answer("resume")
           /\ OverwriteMode' = "resume" /\ DeleteLocalFile' = TRUE
           /\ Begins(Len(local["dest"]))
           /\ Goes("init")
        \/ /\ asked /\ Answer("skip")
           /\ Fails("cleanup")
           /\ UNCHANGED <<OverwriteMode, progressVars, DeleteLocalFile>>
  /\ UNCHANGED <<packetVars, choiceVars, cpNoConfirmation, DestFileExists, ResumeTransfer,
                 blockVars, queueVars, serverVars, call, RemoteHandle, result, local, drops>>

\* CreateLocalFile, unless the partial file is open already.
Create ==
  /\ pc = "create"
  /\ \/ /\ local' = IF ResumeTransfer THEN local ELSE [local EXCEPT ![LocalFileName] = <<>>]
        /\ DeleteLocalFile' = TRUE
        /\ Goes("init")
     \/ /\ ~ResumeTransfer
        /\ Fails("cleanup")
        /\ UNCHANGED <<local, DeleteLocalFile>>
  /\ UNCHANGED <<packetVars, choiceVars, attemptVars, progressVars, blockVars, queueVars,
                 serverVars, call, RemoteHandle, result, drops>>

----------------------------------------------------------------------------
(* The queue of read requests                                              *)

QueueLen == Least(ListedSize \div BlockSize + 1, SFTPDownloadQueue)

InitQueue ==
  /\ pc = "init"
  /\ FTransfered' = TransferedSize /\ FMissedRequests' = QueueLen
  /\ Missing' = 0 /\ PrevIncomplete' = FALSE
  /\ DataPacket' = NoData
  /\ Goes("sending")
  /\ UNCHANGED <<packetVars, choiceVars, attemptVars, progressVars, FRequests, shorts,
                 serverVars, DeleteLocalFile, call, RemoteHandle, result, local, drops>>

\* SendRequests: the response is reserved before the request is sent.
SendRequest ==
  /\ pc = "sending"
  /\ ReserveResponse(NextNumber)
  /\ SendPacket("read", "source", FTransfered)
  /\ FRequests' = Append(FRequests, [number |-> NextNumber, offset |-> FTransfered])
  /\ FTransfered' = FTransfered + BlockSize
  /\ FMissedRequests' = FMissedRequests - 1
  /\ Goes(IF FMissedRequests > 1 THEN "sending" ELSE IF DataPacket.length > 0 THEN "data" ELSE "reading")
  /\ UNCHANGED <<incoming, stored, choiceVars, attemptVars, progressVars, blockVars, serverVars,
                 DeleteLocalFile, call, RemoteHandle, result, local, drops>>

\* A response holds from one unit to all that was asked for, and is not
\* short of the end of the file without need more than MaxShort times; in
\* version 6 it may say that it holds the last ones.
Data(offset, size) ==
  LET whole == Least(size, RealSize - offset) IN
  \E length \in 1..whole, last \in BOOLEAN :
    /\ length < whole => shorts < MaxShort
    /\ shorts' = IF length < whole THEN shorts + 1 ELSE shorts
    /\ last => offset + length = RealSize
    /\ DataPacket' = [offset |-> offset, length |-> length, last |-> last]

\* TSFTPDownloadQueue::ReceivePacket: the response to the oldest request, and
\* as many new requests.
Receives(answer) ==
  /\ pc = "reading" /\ FRequests # <<>>
  /\ \E p \in Acceptable(Awaited) :
       /\ answer = IF Verdict(Awaited, p) = "ok" THEN p.kind ELSE Verdict(Awaited, p)
       /\ Accept(Awaited, p)
  /\ FRequests' = Tail(FRequests)
  /\ UNCHANGED <<FMessageCounter, outgoing, choiceVars, attemptVars, progressVars, FTransfered,
                 Missing, PrevIncomplete, serverVars, DeleteLocalFile, call, RemoteHandle, result,
                 local, drops>>

\* Mutant: no request is sent for the one that has been answered.
MissedUncounted == FMissedRequests

\* SendRequests, called again: there is one request less under way.
MissedAfterData == FMissedRequests + 1

ReceiveData ==
  /\ Receives("read")
  /\ Data(Head(FRequests).offset, BlockSize)
  /\ FMissedRequests' = MissedAfterData
  /\ Goes(IF MissedAfterData > 0 THEN "sending" ELSE "data")

ReceiveEof ==
  /\ Receives("eof")
  /\ Goes("closing")
  /\ UNCHANGED <<FMissedRequests, DataPacket, shorts>>

ReceiveRefused ==
  /\ Receives("refused")
  /\ Fails("dispose")
  /\ UNCHANGED <<FMissedRequests, DataPacket, shorts>>

\* The answer to the request that fills a gap.
Fills(answer) ==
  /\ pc = "fill" /\ call # NULL
  /\ \E p \in Acceptable(call) :
       /\ answer = IF Verdict(call, p) = "ok" THEN p.kind ELSE Verdict(call, p)
       /\ Accept(call, p)
  /\ call' = NULL
  /\ UNCHANGED <<FMessageCounter, outgoing, choiceVars, attemptVars, progressVars, queueVars,
                 Missing, PrevIncomplete, serverVars, DeleteLocalFile, RemoteHandle, result,
                 local, drops>>

FillData == Fills("read") /\ Data(TransferedSize, Missing) /\ Goes("data")

FillEof == Fills("eof") /\ Goes("closing") /\ UNCHANGED <<DataPacket, shorts>>

FillRefused == Fills("refused") /\ Fails("dispose") /\ UNCHANGED <<DataPacket, shorts>>

\* Mutant: nobody is told that a response will come.
CloseRemoteUnreserved ==
  /\ SendPacket("close", "source", 0)
  /\ UNCHANGED <<incoming, stored, reservationVars>>

\* SFTPCloseRemote, which does not wait: the response will be skipped.
CloseRemote ==
  /\ SendPacket("close", "source", 0)
  /\ ExpectResponse(NextNumber)
  /\ UNCHANGED <<incoming, stored>>

\* The end of the file: it is closed before the pending responses are awaited.
Closing ==
  /\ pc = "closing"
  /\ CloseRemote
  /\ RemoteHandle' = FALSE
  /\ Goes("dispose")
  /\ UNCHANGED <<choiceVars, attemptVars, progressVars, blockVars, queueVars, serverVars,
                 DeleteLocalFile, call, result, local, drops>>

----------------------------------------------------------------------------
(* One block                                                               *)

FillsGap == Missing > 0

\* Mutant: a short response is taken for a complete one.
GapIgnored(length) == FALSE

\* Fewer units than asked for, and not because the file ends there.
Gap(length) == length < BlockSize /\ TransferedSize + length # TransferSize

MissingAfter(length) ==
  IF FillsGap THEN Missing - length ELSE IF Gap(length) THEN BlockSize - length ELSE 0

Incomplete(length) == ~FillsGap /\ length < BlockSize /\ TransferedSize + length = TransferSize

Last(length) == DataPacket.last /\ MissingAfter(length) = 0

Units == Remote(DataPacket.offset, DataPacket.length)

\* Mutant: data behind what seemed to be the end is taken for the next.
TooEarlyNever == FALSE

\* More data although the last response has ended where the listing says the
\* file does.
TooEarly == PrevIncomplete /\ ~FillsGap

\* The loop of SFTPSink goes on ...
Continues(length) ==
  IF Last(length) THEN "dispose" ELSE IF MissingAfter(length) > 0 THEN "fill" ELSE "reading"

\* ... with the block written, unless that fails for good or the user cancels.
Process ==
  /\ pc = "data" /\ ~TooEarly
  /\ LET length == DataPacket.length IN
       /\ Missing' = MissingAfter(length)
       /\ PrevIncomplete' = Incomplete(length)
       /\ TransferedSize' = TransferedSize + length
       /\ TransferSize' = Most(TransferSize, TransferedSize + length)
       /\ DataPacket' = NoData
       /\ \/ /\ local' = [local EXCEPT ![Target] = @ \o Units]
             /\ LocallyUsed' = LocallyUsed + length
             /\ Goes(Continues(length)) \/ Fails("dispose")
          \/ Fails("dispose") /\ UNCHANGED <<local, LocallyUsed>>
  /\ UNCHANGED <<packetVars, choiceVars, attemptVars, queueVars, shorts, serverVars,
                 DeleteLocalFile, call, RemoteHandle, result, drops>>

\* SFTP_INCOMPLETE_BEFORE_EOF
Surprised ==
  /\ pc = "data" /\ TooEarly
  /\ Fails("dispose")
  /\ UNCHANGED <<packetVars, choiceVars, attemptVars, progressVars, blockVars, queueVars,
                 serverVars, DeleteLocalFile, call, RemoteHandle, result, local, drops>>

----------------------------------------------------------------------------
(* After the transfer                                                      *)

\* Dispose: the remaining responses, refusals ignored.
DisposeResponse ==
  /\ pc = "dispose" /\ FRequests # <<>>
  /\ \E p \in Acceptable(Awaited) : Verdict(Awaited, p) # "fatal" /\ Accept(Awaited, p)
  /\ FRequests' = Tail(FRequests)
  /\ UNCHANGED <<FMessageCounter, outgoing, choiceVars, attemptVars, progressVars, blockVars,
                 FTransfered, FMissedRequests, serverVars, pc, DeleteLocalFile, call,
                 RemoteHandle, error, result, local, drops>>

Disposed ==
  /\ pc = "dispose" /\ FRequests = <<>>
  /\ Goes(IF error THEN "cleanup" ELSE IF ResumeAllowed THEN "replace" ELSE "finished")
  /\ UNCHANGED <<packetVars, choiceVars, attemptVars, progressVars, blockVars, queueVars,
                 serverVars, DeleteLocalFile, call, RemoteHandle, result, local, drops>>

LocalStep ==
  UNCHANGED <<packetVars, choiceVars, attemptVars, progressVars, blockVars, queueVars, handle,
              call, RemoteHandle, result, drops>>

\* The old file is deleted, if there is one, and the new one gets its name.
Replace ==
  /\ pc = "replace"
  /\ \/ local' = [local EXCEPT !["dest"] = NoFile] /\ Goes("rename")
     \/ local["dest"] # NoFile /\ UNCHANGED local /\ Fails("cleanup")
  /\ UNCHANGED <<DeleteLocalFile, failures>>
  /\ LocalStep

\* The user repeats both steps when the second one fails, or gives up.
Rename ==
  /\ pc = "rename"
  /\ \/ /\ local' = [dest |-> local["partial"], partial |-> NoFile]
        /\ Goes("finished")
        /\ UNCHANGED failures
     \/ /\ failures < MaxFailures /\ failures' = failures + 1
        /\ Goes("replace") \/ Fails("cleanup")
        /\ UNCHANGED local
  /\ UNCHANGED DeleteLocalFile
  /\ LocalStep

Finished ==
  /\ pc = "finished"
  /\ DeleteLocalFile' = FALSE
  /\ Goes("cleanup")
  /\ UNCHANGED <<local, failures>>
  /\ LocalStep

LeftOpen == RemoteHandle

\* The __finally of SFTPSink: a file that is still open is closed.
CleanUp ==
  /\ pc = "cleanup"
  /\ local' = LocalAfterwards
  /\ IF LeftOpen THEN CloseRemote ELSE UNCHANGED packetVars
  /\ Goes("idle") /\ result' = IF error THEN "failed" ELSE "done"
  /\ UNCHANGED <<choiceVars, attemptVars, progressVars, blockVars, queueVars, serverVars,
                 DeleteLocalFile, call, RemoteHandle, drops>>

\* TSFTPFileSystem::Idle: any later request on the same connection.
KeptAlive ==
  /\ Returns("idle", "ok") \/ Returns("idle", "refused")
  /\ Goes("over")
  /\ UNCHANGED RemoteHandle

----------------------------------------------------------------------------
Init ==
  /\ PacketsInit
  /\ Resumable \in BOOLEAN /\ RealSize \in Sizes /\ ListedSize \in Sizes
  /\ before \in {NoFile, <<0>>}
  /\ \E left \in {NoFile} \union {Remote(0, k) : k \in 0..RealSize} :
       local = [dest |-> before, partial |-> IF Resumable THEN left ELSE NoFile]
  /\ Params \in {"none", "cpAppend", "cpResume", "NewerOnly"}
  /\ pc = "check" /\ cpNoConfirmation \in BOOLEAN
  /\ DestFileExists = FALSE /\ ResumeTransfer = FALSE /\ OverwriteMode = "overwrite"
  /\ DeleteLocalFile = FALSE
  /\ TransferSize = 0 /\ TransferedSize = 0 /\ LocallyUsed = 0
  /\ Missing = 0 /\ PrevIncomplete = FALSE
  /\ DataPacket = NoData
  /\ FRequests = <<>> /\ FTransfered = 0 /\ FMissedRequests = 0 /\ call = NULL
  /\ RemoteHandle = FALSE /\ error = FALSE /\ result = "none"
  /\ handle = FALSE /\ shorts = 0 /\ failures = 0 /\ drops = 0

Transfer ==
  \/ Check \/ SendCall \/ Opened \/ Loaded \/ Confirm \/ Create \/ InitQueue
  \/ SendRequest \/ Stores
  \/ ReceiveData \/ ReceiveEof \/ ReceiveRefused \/ FillData \/ FillEof \/ FillRefused
  \/ Closing \/ Process \/ Surprised \/ DisposeResponse \/ Disposed
  \/ Replace \/ Rename \/ Finished \/ CleanUp \/ KeptAlive
  \/ Unwound \/ Reopen \/ GiveUp

Next == Transfer \/ Serve \/ Drop

Spec == Init /\ [][Next]_vars

\* The thread runs, the server answers, and the user answers the questions.
FairSpec == Spec /\ WF_vars(Transfer) /\ WF_vars(Serve)

----------------------------------------------------------------------------
(* Properties                                                              *)

DownloadTypeOK ==
  /\ {Resumable, cpNoConfirmation, DestFileExists, ResumeTransfer, DeleteLocalFile, PrevIncomplete,
      RemoteHandle, error, handle} \subseteq BOOLEAN
  /\ {RealSize, ListedSize} \subseteq Sizes
  /\ {TransferSize, TransferedSize, LocallyUsed, Missing, FTransfered, FMissedRequests, call} \subseteq Nat
  /\ Params \in {"none", "cpAppend", "cpResume", "NewerOnly"}
  /\ OverwriteMode \in {"overwrite", "append", "resume"}
  /\ DataPacket \in [offset : Nat, length : 0..BlockSize, last : BOOLEAN]
  /\ FRequests \in Seq([number : Nat, offset : Nat])
  /\ before \in Seq(Nat) \union {NoFile}
  /\ DOMAIN local = {"dest", "partial"}
  /\ \A f \in DOMAIN local : local[f] \in Seq(Nat) \union {NoFile}
  /\ result \in {"none", "done", "failed"}
  /\ shorts \in 0..MaxShort /\ failures \in 0..MaxFailures /\ drops \in 0..MaxDrops

\* The types of the variables.
TypeOK == PacketTypeOK /\ DownloadTypeOK

\* What the destination may become: a file with beginnings of the remote one
\* behind it, or the file before with the rest of the remote one behind it.
Starts(base, contents) ==
  /\ base # NoFile /\ contents # NoFile
  /\ Len(base) <= Len(contents) /\ \A k \in 1..Len(base) : contents[k] = base[k]

AppendedTo(base, contents) ==
  /\ Starts(base, contents)
  /\ \A k \in (Len(base) + 1)..Len(contents) :
       contents[k] = 1 \/ (k > Len(base) + 1 /\ contents[k] = contents[k - 1] + 1)

Continued(contents) ==
  /\ Starts(before, contents)
  /\ \A k \in (Len(before) + 1)..Len(contents) : contents[k] = k

Complete == {Remote(0, RealSize), Remote(0, ListedSize)}
Grown(contents) == \E base \in Complete \union {before} : AppendedTo(base, contents)
Kept(contents) == Grown(contents) \/ Continued(contents)

\* So much of the remote file has been appended to a file that was all there;
\* more than once only if it is appended without asking and the connection was
\* lost.
AppendedOnce(size) ==
  LET kept == Len(local["dest"]) - size
      found == SubSeq(local["dest"], 1, kept)
  IN /\ kept \in Nat /\ Grown(found)
     /\ SubSeq(local["dest"], kept + 1, kept + size) = Remote(0, size)
     /\ drops = 0 \/ Params # "cpAppend" => found = before

\* The destination has been continued up to there.
ContinuedTo(size) ==
  \/ local["dest"] = Remote(0, size)
  \/ before # NoFile /\ local["dest"] = before \o Remote(Len(before), size - Len(before))

\* Between creation and completion the local file is what was there when it
\* was opened (nothing, a partial file, the file appended to), followed by an
\* unbroken part of the remote file that ends at TransferedSize: the data of
\* requests answered in parts, and filled in behind others, is written in its
\* place and once.  The file appended to is the one before, unless an attempt
\* that was lost has appended to it already and the parameters have the retry
\* append again: then that attempt's part comes first.
Transferring == pc \in {"init", "sending", "reading", "fill", "data", "closing"}
WrittenInPlace ==
  Transferring =>
    /\ OverwriteMode = "overwrite" => local[Target] = Remote(0, TransferedSize)
    /\ OverwriteMode = "append" => AppendedOnce(TransferedSize)
    /\ OverwriteMode = "resume" => ContinuedTo(TransferedSize)

\* A download reported done has brought the whole file, or as much of it as
\* the listing has promised (when the server returns no more than that).
DoneIsComplete ==
  result = "done" =>
    /\ OverwriteMode = "overwrite" => local["dest"] \in Complete
    /\ OverwriteMode = "append" /\ RealSize = ListedSize => AppendedOnce(RealSize)
    /\ OverwriteMode = "resume" /\ RealSize = ListedSize => ContinuedTo(RealSize)

\* Whatever fails at whatever moment of a resumable download, there is one
\* complete file: the one before (perhaps with something appended), the new
\* one, or the new one still under its partial name - as long as the partial
\* file does not outgrow what the listing says, which has it deleted.
NewOrOld ==
  Resumable /\ RealSize <= ListedSize =>
    \/ Kept(local["dest"])
    \/ local["dest"] = NoFile /\ (before = NoFile \/ local["partial"] \in Complete)

\* A download that is over, or interrupted and waiting for the connection,
\* leaves no beginning of the remote file under the name of the whole: what is
\* there is all of the old file or all of the new one, perhaps with something
\* appended.
NoTornFile ==
  pc \in {"idle", "over", "lost"} =>
    local["dest"] = NoFile \/ Kept(local["dest"])

\* Whoever waits for a response gets the one to his own request: every response
\* still to come is reserved or waited for, and the check of its number
\* (SFTP_MESSAGE_NUMBER) never fails.
ReadsOwnResponse ==
  Awaited # NULL => \A p \in Acceptable(Awaited) : Verdict(Awaited, p) # "fatal"

\* The download comes to an end, with the connection lost, responses short and
\* requests refused so many times.
DownloadEnds == <>(pc = "over")
=============================================================================
