------------------------- MODULE SftpDownloadProofs -------------------------
(***************************************************************************)
(* Proofs about SftpDownload for files of any size, blocks and queues of   *)
(* any length, short responses, refusals and lost connections at any       *)
(* moment.                                                                 *)
(***************************************************************************)
EXTENDS SftpDownload, SftpPacketsProofs, SequenceTheorems

----------------------------------------------------------------------------
(* The inductive invariant                                                 *)

\* Before the transfer, from the first request of the queue to the last byte,
\* and from there to the completion.
Preparing == pc \in {"check", "open", "fstat", "confirm", "create"}
Queueing == pc \in {"sending", "reading", "fill", "data", "closing"}
Completing == pc \in {"replace", "rename", "finished"}

\* Where the function is, and what it has in its hands there.
PlaceInv ==
  /\ Preparing \/ pc = "init" \/ Queueing \/ Completing
       \/ pc \in {"dispose", "cleanup", "unwind", "lost", "idle", "over"}
  /\ FRequests # <<>> => Queueing \/ pc = "dispose"
  /\ call # NULL => pc \in DOMAIN Calls
  /\ Preparing \/ pc = "init" \/ Queueing \/ Completing => ~error
  /\ Preparing => ~DeleteLocalFile /\ OverwriteMode = "overwrite"
  /\ pc = "check" => ~ResumeTransfer
  /\ pc = "init" \/ Queueing \/ pc = "dispose" \/ Completing => DeleteLocalFile
  /\ pc \in {"replace", "rename"} => ResumeAllowed
  /\ pc = "cleanup" /\ ~error => ~DeleteLocalFile
  /\ pc \in {"unwind", "lost"} => error
  /\ result # "none" => pc \in {"idle", "over"}

\* Every response still to come has somebody to take it: a reservation or the
\* one call that is being waited for, which has none.
DueInv ==
  /\ \A n \in Due : Noted(n) \/ n = call
  /\ call # NULL => call <= FMessageCounter /\ ~IsReserved(call)
  /\ \A r \in Elements(FRequests) : r.number \in 1..FMessageCounter /\ IsReserved(r.number)
  /\ \A j, k \in Positions(FRequests) : FRequests[j].number = FRequests[k].number => j = k

\* The request of that number asks for the data at the offset, and the server
\* answers that the file has ended only behind its end.
ReadAt(number, offset) ==
  /\ \A k \in Positions(outgoing) : outgoing[k].number = number =>
       outgoing[k].kind = "read" /\ outgoing[k].block = offset
  /\ \A p \in incoming : p.number = number /\ p.kind = "eof" => offset >= RealSize
  /\ \A s \in stored : s.response.number = number /\ s.response.kind = "eof" => offset >= RealSize

ReadInv ==
  /\ \A r \in Elements(FRequests) : ReadAt(r.number, r.offset)
  /\ pc = "fill" /\ call # NULL => ReadAt(call, TransferedSize)

\* What the request at the head of the queue has asked for.
NextOffset == IF FRequests = <<>> THEN FTransfered ELSE FRequests[1].offset
InHand == DataPacket.length > 0

\* The requests are for one block after the other.
Consecutive ==
  /\ FRequests # <<>> => FRequests[Len(FRequests)].offset + BlockSize = FTransfered
  /\ \A k \in 1..(Len(FRequests) - 1) : FRequests[k + 1].offset = FRequests[k].offset + BlockSize

\* What each place of the loop finds.
StageInv ==
  /\ Missing <= BlockSize /\ (PrevIncomplete => Missing = 0)
  /\ pc = "sending" => FMissedRequests > 0
  /\ pc \in {"sending", "reading"} => Missing = 0
  /\ pc = "fill" => Missing > 0
  /\ pc = "data" => InHand
  /\ pc \in {"reading", "fill", "closing"} => ~InHand

\* The data in hand is no more than was asked for.
HandInv ==
  InHand => /\ DataPacket.offset + DataPacket.length <= RealSize
            /\ DataPacket.last => DataPacket.offset + DataPacket.length = RealSize
            /\ Missing > 0 => DataPacket.length <= Missing

\* The data in hand, the gap and the head of the queue follow each other
\* without a hole, until a block has ended where the listing says the file does.
NoHole ==
  IF PrevIncomplete THEN TransferedSize = ListedSize
  ELSE /\ InHand => DataPacket.offset = TransferedSize
       /\ pc # "closing" =>
            NextOffset = TransferedSize + (IF InHand /\ Missing = 0 THEN BlockSize ELSE Missing)

QueueInv == Queueing => Consecutive /\ StageInv /\ HandInv /\ NoHole

\* How far the transfer is, and that it ends only where the file does, or where
\* the listing says so.
ProgressInv ==
  /\ pc \in {"open", "fstat", "confirm", "create", "init"} \/ Queueing =>
       /\ TransferSize = Most(ListedSize, TransferedSize)
       /\ TransferedSize <= RealSize
       /\ LocallyUsed = TransferedSize
  /\ pc = "closing" \/ (pc = "dispose" /\ ~error) => TransferedSize \in {RealSize, ListedSize}
  /\ pc = "dispose" /\ ~error => LocallyUsed = TransferedSize
  /\ Completing \/ (pc = "cleanup" /\ ~error) \/ result = "done" => LocallyUsed \in {RealSize, ListedSize}

\* What an attempt that is not asked may find and continue.
Resumed(contents) ==
  \/ contents = Remote(0, RealSize)
  \/ /\ before # NoFile /\ Len(before) <= Len(contents) /\ Len(contents) <= RealSize
     /\ contents = before \o Remote(Len(before), Len(contents) - Len(before))

\* The file under its final name is all of the old one or all of the new one,
\* with what the parameters allow to be added to it, or it is not there.
Sound(contents) ==
  /\ Kept(contents)
  /\ Params = "cpAppend" => Grown(contents)
  /\ Params = "cpResume" => Resumed(contents) \/ Len(contents) >= ListedSize

Intact == local["dest"] = NoFile \/ Sound(local["dest"])

Writing == pc = "init" \/ Queueing \/ pc \in {"dispose", "replace", "rename"}
           \/ (pc \in {"cleanup", "unwind"} /\ DeleteLocalFile)

\* The partial file.
PartialInv ==
  /\ local["partial"] # NoFile => Resumable
  /\ local["partial"] \in {NoFile} \union {Remote(0, k) : k \in 0..RealSize}
  /\ pc \in {"open", "fstat", "confirm", "create"} =>
       IF ResumeTransfer THEN Resumable /\ local["partial"] = Remote(0, TransferedSize)
       ELSE TransferedSize = 0 /\ local["partial"] = NoFile
  /\ OverwriteMode = "overwrite" /\ Writing => local[LocalFileName] = Remote(0, LocallyUsed)

\* The file the remote one is appended to, and the file that is continued.
Appending ==
  \E base \in Seq(Nat) :
    /\ Grown(base) /\ local["dest"] = base \o Remote(0, LocallyUsed)
    /\ drops = 0 \/ Params # "cpAppend" => base = before
    /\ Params = "cpResume" => Len(base) >= ListedSize

Continuing ==
  /\ Params # "cpAppend"
  /\ \/ local["dest"] = Remote(0, LocallyUsed) /\ LocallyUsed = RealSize
     \/ /\ before # NoFile /\ Len(before) <= LocallyUsed
        /\ local["dest"] = before \o Remote(Len(before), LocallyUsed - Len(before))

AppendInv ==
  /\ before \in {NoFile, <<0>>}
  /\ Preparing /\ (drops = 0 \/ ~cpNoConfirmation) => local["dest"] = before
  /\ pc \in {"open", "fstat", "confirm"} => DestFileExists = (local["dest"] # NoFile)
  /\ pc \in {"unwind", "lost"} => drops > 0
  /\ OverwriteMode = "append" => Appending
  /\ OverwriteMode = "resume" => Continuing

\* The destination, at any moment.
DestInv ==
  /\ Intact \/ (~Resumable /\ OverwriteMode = "overwrite" /\ (Writing \/ pc = "finished"))
  /\ Resumable /\ RealSize <= ListedSize /\ local["dest"] = NoFile =>
       before = NoFile \/ local["partial"] = Remote(0, RealSize)
  /\ OverwriteMode = "overwrite" /\ (pc = "finished" \/ (pc = "cleanup" /\ ~error) \/ result = "done") =>
       local["dest"] \in Complete

IInv ==
  /\ RequestsOK /\ ResponsesOK /\ NumbersOK /\ DownloadTypeOK
  /\ PlaceInv /\ DueInv /\ ReadInv /\ QueueInv /\ ProgressInv
  /\ PartialInv /\ AppendInv /\ DestInv

----------------------------------------------------------------------------
(* What the steps do to requests and responses                             *)

\* The blocking calls, one by one.
LEMMA CallFacts ==
  /\ DOMAIN Calls = {"open", "fstat", "fill", "idle"}
  /\ Calls["open"] = "open" /\ Calls["fstat"] = "fstat"
  /\ Calls["fill"] = "read" /\ Calls["idle"] = "realpath"
  BY DEF Calls

Quiet == UNCHANGED <<packetVars, call, FRequests>>

SendsCall ==
  /\ pc \in DOMAIN Calls /\ call = NULL
  /\ SendPacket(Calls[pc], "source", IF pc = "fill" THEN TransferedSize ELSE 0)
  /\ call' = NextNumber
  /\ UNCHANGED <<incoming, reservationVars, stored, FRequests>>

SendsRead ==
  /\ SendPacket("read", "source", FTransfered) /\ ReserveResponse(NextNumber)
  /\ FRequests' = Append(FRequests, [number |-> NextNumber, offset |-> FTransfered])
  /\ UNCHANGED <<incoming, stored, call>>

SendsClose == CloseRemote /\ UNCHANGED <<call, FRequests>>

TakesCall ==
  /\ pc \in DOMAIN Calls /\ call # NULL
  /\ \E p \in Acceptable(call) : Accept(call, p)
  /\ call' = NULL
  /\ UNCHANGED <<FMessageCounter, outgoing, FRequests>>

TakesRead ==
  /\ pc \in {"reading", "dispose"} /\ FRequests # <<>>
  /\ \E p \in Acceptable(Head(FRequests).number) : Accept(Head(FRequests).number, p)
  /\ FRequests' = Tail(FRequests)
  /\ UNCHANGED <<FMessageCounter, outgoing, call>>

Resets ==
  /\ outgoing' = <<>> /\ incoming' = {} /\ FMessageCounter' \in {0, FMessageCounter}
  /\ FPacketReservations' = <<>> /\ FPacketNumbers' = <<>> /\ stored' = {}
  /\ FRequests' = <<>> /\ call' = NULL

Shape ==
  /\ Quiet \/ SendsCall \/ SendsRead \/ SendsClose \/ Serve \/ Stores \/ TakesCall \/ TakesRead \/ Resets
  /\ UNCHANGED choiceVars
  /\ pc' = "fill" /\ call' # NULL => pc = "fill" /\ UNCHANGED TransferedSize

\* Every step does one of these to the requests and the responses.
LEMMA StepShape ==
  ASSUME PlaceInv, Next
  PROVE  Shape
  <1> USE CallFacts DEF Shape
  <1>0. /\ pc \notin DOMAIN Calls => call = NULL
        /\ FRequests # <<>> => pc \in {"sending", "reading", "fill", "data", "closing", "dispose"}
    BY DEF PlaceInv, Queueing
  <1>1. ASSUME Check \/ Confirm \/ Create \/ InitQueue \/ Process \/ Surprised \/ Disposed \/ Replace \/ Rename
               \/ Finished \/ Unwound \/ GiveUp
        PROVE  Shape
    <2>1. Quiet
      BY <1>1 DEF Check, Confirm, Create, InitQueue, Process, Surprised, Disposed, Replace, Rename, Finished,
             Unwound, GiveUp, LocalStep, queueVars, Quiet
    <2>2. UNCHANGED choiceVars /\ pc \notin DOMAIN Calls
      BY <1>1 DEF Check, Confirm, Create, InitQueue, Process, Surprised, Disposed, Replace, Rename, Finished,
             Unwound, GiveUp, LocalStep
    <2>3. QED
      BY <1>0, <2>1, <2>2 DEF Quiet
  <1>2. ASSUME SendCall PROVE Shape
    BY <1>2 DEF SendCall, SendsCall, progressVars, queueVars
  <1>3. ASSUME NEW place \in DOMAIN Calls, NEW verdict, Returns(place, verdict) PROVE Shape
    <2>1. TakesCall
      BY <1>3 DEF Returns, TakesCall, queueVars
    <2>2. QED
      BY <1>3, <2>1 DEF Returns
  <1>4. ASSUME Opened \/ Loaded \/ KeptAlive PROVE Shape
    BY <1>3, <1>4 DEF Opened, Loaded, KeptAlive
  <1>5. ASSUME SendRequest PROVE Shape
    <2>1. SendsRead /\ call = NULL
      BY <1>0, <1>5 DEF SendRequest, SendsRead
    <2>2. QED
      BY <1>5, <2>1 DEF SendRequest, SendsRead
  <1>6. ASSUME Stores PROVE Shape
    BY <1>6 DEF Stores, progressVars
  <1>7. ASSUME NEW answer, Receives(answer) PROVE Shape
    <2>1. pc = "reading" /\ Awaited = Head(FRequests).number
      BY <1>7 DEF Receives, Awaited
    <2>2. TakesRead
      BY <1>7, <2>1 DEF Receives, TakesRead
    <2>3. QED
      BY <1>0, <1>7, <2>1, <2>2 DEF Receives, TakesRead
  <1>8. ASSUME NEW answer, Fills(answer) PROVE Shape
    <2>1. TakesCall
      BY <1>8 DEF Fills, TakesCall, queueVars
    <2>2. QED
      BY <1>8, <2>1 DEF Fills
  <1>9. ASSUME Closing PROVE Shape
    <2>1. SendsClose /\ call = NULL
      BY <1>0, <1>9 DEF Closing, SendsClose, queueVars
    <2>2. QED
      BY <1>9, <2>1 DEF Closing, SendsClose
  <1>10. ASSUME DisposeResponse PROVE Shape
    <2>1. pc = "dispose" /\ Awaited = Head(FRequests).number
      BY <1>10 DEF DisposeResponse, Awaited
    <2>2. TakesRead
      BY <1>10, <2>1 DEF DisposeResponse, TakesRead
    <2>3. QED
      BY <1>0, <1>10, <2>1, <2>2 DEF DisposeResponse, TakesRead
  <1>11. ASSUME CleanUp PROVE Shape
    <2>1. (Quiet \/ SendsClose) /\ call = NULL
      BY <1>0, <1>11 DEF CleanUp, SendsClose, Quiet, queueVars
    <2>2. QED
      BY <1>11, <2>1 DEF CleanUp
  <1>12. ASSUME Reopen PROVE Shape
    <2>1. Resets
      BY <1>0, <1>12 DEF Reopen, ResetConnection, Resets, queueVars
    <2>2. QED
      BY <1>12, <2>1 DEF Reopen, Resets
  <1>13. ASSUME Serve PROVE Shape
    BY <1>13 DEF Serve, progressVars
  <1>14. ASSUME Drop PROVE Shape
    <2>1. Resets
      BY <1>14 DEF Drop, Lost, Resets
    <2>2. QED
      BY <1>14, <2>1 DEF Drop, Lost, Resets
  <1>15. QED
    BY <1>1, <1>2, <1>4, <1>5, <1>6, <1>7, <1>8, <1>9, <1>10, <1>11, <1>12, <1>13, <1>14
    DEF Next, Transfer, ReceiveData, ReceiveEof, ReceiveRefused, FillData, FillEof, FillRefused

----------------------------------------------------------------------------
(* Requests and responses                                                  *)

\* A number is never NULL, and all requests are of the kinds there are.
LEMMA NumberFacts ==
  ASSUME RequestsOK
  PROVE  NextNumber \in Nat \ {NULL} /\ FMessageCounter \in Nat /\ NextNumber = FMessageCounter + 1
  BY DEF RequestsOK, NextNumber, NULL

\* The request of a blocking call.
LEMMA CalledRequest ==
  ASSUME RequestsOK, DownloadTypeOK, pc \in DOMAIN Calls
  PROVE  [number |-> NextNumber, kind |-> Calls[pc], file |-> "source",
          block |-> IF pc = "fill" THEN TransferedSize ELSE 0] \in Request
  <1>1. Calls[pc] \in Kinds /\ "source" \in Files /\ TransferedSize \in Nat
    BY CallFacts, KindsAssumption, FilesAssumption DEF DownloadTypeOK
  <1>2. QED
    BY <1>1, NumberFacts DEF Request

\* A request that is not waited for.
LEMMA OtherRequests ==
  ASSUME RequestsOK, NEW kind \in {"read", "close"}, NEW block \in Nat
  PROVE  [number |-> NextNumber, kind |-> kind, file |-> "source", block |-> block] \in Request
  <1>1. kind \in Kinds /\ "source" \in Files
    BY KindsAssumption, FilesAssumption
  <1>2. QED
    BY <1>1, NumberFacts DEF Request

\* The sending half of the packets.
LEMMA RequestsStep ==
  ASSUME RequestsOK, DownloadTypeOK, Shape
  PROVE  RequestsOK'
  <1>0. ASSUME NEW kind, NEW block, SendPacket(kind, "source", block),
               [number |-> NextNumber, kind |-> kind, file |-> "source", block |-> block] \in Request
        PROVE  RequestsOK'
    <2> DEFINE q == [number |-> NextNumber, kind |-> kind, file |-> "source", block |-> block]
    <2>1. outgoing' = Append(outgoing, q) /\ q \in Request /\ FMessageCounter' = NextNumber
      BY <1>0 DEF SendPacket
    <2> HIDE DEF q
    <2>2. QED
      BY <2>1, NumberFacts DEF RequestsOK
  <1>1. CASE Quiet \/ Stores \/ TakesCall \/ TakesRead
    BY <1>1 DEF Quiet, packetVars, Stores, StoreReserved, TakesCall, TakesRead, RequestsOK
  <1>2. CASE SendsCall
    BY <1>0, <1>2, CalledRequest DEF SendsCall
  <1>3. CASE SendsRead
    <2>1. FTransfered \in Nat
      BY DEF DownloadTypeOK
    <2>2. QED
      BY <1>0, <1>3, <2>1, OtherRequests DEF SendsRead
  <1>4. CASE SendsClose
    BY <1>0, <1>4, OtherRequests DEF SendsClose, CloseRemote
  <1>5. CASE Serve
    <2>1. outgoing \in Seq(Request) /\ outgoing # <<>> /\ outgoing' = Tail(outgoing) /\ UNCHANGED FMessageCounter
      BY <1>5 DEF Serve, RequestsOK
    <2>2. QED
      BY <2>1, TailFacts DEF RequestsOK
  <1>6. CASE Resets
    BY <1>6 DEF Resets, RequestsOK
  <1>7. QED
    BY <1>1, <1>2, <1>3, <1>4, <1>5, <1>6 DEF Shape

\* What the server sends back.
LEMMA ServeFacts ==
  ASSUME RequestsOK, DownloadTypeOK, Serve
  PROVE  /\ outgoing # <<>> /\ outgoing' = Tail(outgoing) /\ outgoing \in Seq(Request)
         /\ Head(outgoing) = outgoing[1] /\ outgoing[1] \in Request
         /\ \E p \in Response : /\ p.number = Head(outgoing).number /\ p.kind = Answered(Head(outgoing))
                                /\ incoming' = incoming \union {p}
         /\ UNCHANGED <<FMessageCounter, reservationVars, stored, FRequests, call>>
  <1> DEFINE q == Head(outgoing)
  <1>1. outgoing # <<>> /\ outgoing' = Tail(outgoing) /\ outgoing \in Seq(Request)
    BY DEF Serve, RequestsOK
  <1>2. q = outgoing[1] /\ q \in Request
    BY <1>1, TailFacts
  <1>3. PICK ok \in BOOLEAN : incoming' = incoming \union {[number |-> q.number, kind |-> Answered(q), ok |-> ok]}
    BY DEF Serve
  <1>4. q.number \in Nat /\ q.kind \in Kinds /\ Answered(q) \in Kinds
    BY <1>2, KindsAssumption DEF Request, Answered
  <1> HIDE DEF q
  <1>5. [number |-> q.number, kind |-> Answered(q), ok |-> ok] \in Response
    BY <1>4 DEF Response
  <1>6. \E p \in Response : p.number = q.number /\ p.kind = Answered(q) /\ incoming' = incoming \union {p}
    BY <1>3, <1>5
  <1>7. QED
    BY <1>1, <1>2, <1>6 DEF q, Serve, queueVars

\* A response to nobody is noted down by its number alone.
LEMMA ExpectKeeps ==
  ASSUME RequestsOK, ResponsesOK, ExpectResponse(NextNumber), UNCHANGED <<incoming, stored>>
  PROVE  /\ ResponsesOK'
         /\ \A n : Noted(n)' <=> Noted(n) \/ n = NextNumber
         /\ \A x : x # NULL => (IsReserved(x)' <=> IsReserved(x))
  <1> DEFINE n == Len(FPacketReservations)
  <1>1. /\ FPacketReservations \in Seq(Nat) /\ FPacketNumbers \in Seq(Nat) /\ Len(FPacketNumbers) = n
        /\ NULL \in Nat /\ NextNumber \in Nat
    BY NumberFacts DEF ResponsesOK, NULL
  <1>2. /\ n \in Nat /\ FPacketReservations' \in Seq(Nat) /\ FPacketNumbers' \in Seq(Nat)
        /\ Len(FPacketReservations') = n + 1 /\ Len(FPacketNumbers') = n + 1
        /\ \A k \in 1..n : /\ FPacketReservations'[k] = FPacketReservations[k]
                           /\ FPacketNumbers'[k] = FPacketNumbers[k]
        /\ FPacketReservations'[n + 1] = NULL /\ FPacketNumbers'[n + 1] = NextNumber
    BY <1>1, AppendFacts DEF ExpectResponse
  <1>3. \A k \in 1..n : FPacketReservations[k] \in {NULL, FPacketNumbers[k]}
    BY Parallel
  <1>4. Positions(FPacketReservations) = 1..n /\ Positions(FPacketNumbers) = 1..n
        /\ Positions(FPacketReservations') = 1..(n + 1) /\ Positions(FPacketNumbers') = 1..(n + 1)
    BY <1>1, <1>2 DEF Positions
  <1> HIDE DEF n
  <1>5. 1..n \subseteq 1..(n + 1) /\ n + 1 \in 1..(n + 1) /\ \A k \in 1..(n + 1) : k \in 1..n \/ k = n + 1
    BY <1>2
  <1>6. \A m : Noted(m)' <=> Noted(m) \/ m = NextNumber
    BY <1>2, <1>4, <1>5 DEF Noted, Contains
  <1>7. \A x : x # NULL => (IsReserved(x)' <=> IsReserved(x))
    BY <1>2, <1>4, <1>5 DEF IsReserved, Contains
  <1>8. \A k \in 1..(n + 1) : FPacketReservations'[k] \in {NULL, FPacketNumbers'[k]}
    BY <1>2, <1>3, <1>5
  <1>9. StoredInOwnPacket'
    BY <1>4, <1>7, <1>8 DEF ResponsesOK, StoredInOwnPacket
  <1>10. QED
    BY <1>2, <1>6, <1>7, <1>9 DEF ResponsesOK

\* One who reserves a response makes room for no other.
LEMMA ReserveFacts ==
  ASSUME ResponsesOK, NEW packet \in Nat, ReserveResponse(packet)
  PROVE  /\ \A n : Noted(n)' <=> Noted(n) \/ n = packet
         /\ \A x : IsReserved(x)' <=> IsReserved(x) \/ x = packet
  <1>1. FPacketReservations \in Seq(Nat) /\ FPacketNumbers \in Seq(Nat)
    BY DEF ResponsesOK
  <1>2. QED
    BY <1>1, AppendElements DEF ReserveResponse, Noted, IsReserved

\* The requests of the queue, one less or one more.
LEMMA RequestFacts ==
  ASSUME DownloadTypeOK
  PROVE  /\ Len(FRequests) \in Nat
         /\ \A k \in Positions(FRequests) : FRequests[k].number \in Nat /\ FRequests[k].offset \in Nat
         /\ FRequests # <<>> => /\ 1 \in Positions(FRequests) /\ Head(FRequests) = FRequests[1]
                                /\ Len(Tail(FRequests)) = Len(FRequests) - 1
                                /\ Tail(FRequests) \in Seq([number : Nat, offset : Nat])
                                /\ \A k \in 1..(Len(FRequests) - 1) : Tail(FRequests)[k] = FRequests[k + 1]
                                /\ FRequests[1] \in Elements(FRequests)
  <1> DEFINE R == [number : Nat, offset : Nat]
  <1>1. FRequests \in Seq(R) /\ \A r \in R : r.number \in Nat /\ r.offset \in Nat
    BY DEF DownloadTypeOK
  <1> HIDE DEF R
  <1>2. Len(FRequests) \in Nat /\ \A k \in 1..Len(FRequests) : FRequests[k] \in R
    BY <1>1
  <1>3. FRequests # <<>> => /\ Len(FRequests) \in Nat \ {0} /\ Head(FRequests) = FRequests[1]
                            /\ Tail(FRequests) \in Seq(R) /\ Len(Tail(FRequests)) = Len(FRequests) - 1
                            /\ \A k \in 1..(Len(FRequests) - 1) : Tail(FRequests)[k] = FRequests[k + 1]
    BY <1>1, TailFacts
  <1>4. Len(FRequests) \in Nat \ {0} => 1 \in 1..Len(FRequests)
    OBVIOUS
  <1>5. QED
    BY <1>1, <1>2, <1>3, <1>4 DEF Positions, Elements, R

\* Whose response is received.
LEMMA TakenFacts ==
  ASSUME RequestsOK, ResponsesOK, NumbersOK, DownloadTypeOK, PlaceInv, DueInv
  PROVE  /\ TakesCall => \E p \in Acceptable(call) : p.number = call /\ Accept(call, p) /\ call \in Nat \ {NULL}
         /\ TakesRead => \E p \in Acceptable(FRequests[1].number) :
              /\ p.number = FRequests[1].number /\ FRequests[1].number \in Nat \ {NULL}
              /\ Accept(FRequests[1].number, p)
  <1>1. ASSUME TakesCall PROVE \E p \in Acceptable(call) : p.number = call /\ Accept(call, p) /\ call \in Nat \ {NULL}
    <2>1. PICK p \in Acceptable(call) : Accept(call, p)
      BY <1>1 DEF TakesCall
    <2>2. call \in Nat \ {NULL}
      BY <1>1 DEF TakesCall, DownloadTypeOK
    <2>3. p.number = call
      BY <2>2, OwnResponse DEF DueInv
    <2>4. QED
      BY <2>1, <2>2, <2>3
  <1>2. ASSUME TakesRead
        PROVE  \E p \in Acceptable(FRequests[1].number) :
                 /\ p.number = FRequests[1].number /\ FRequests[1].number \in Nat \ {NULL}
                 /\ Accept(FRequests[1].number, p)
    <2>1. Head(FRequests) = FRequests[1] /\ FRequests[1] \in Elements(FRequests)
      BY <1>2, RequestFacts DEF TakesRead
    <2>2. PICK p \in Acceptable(FRequests[1].number) : Accept(FRequests[1].number, p)
      BY <1>2, <2>1 DEF TakesRead
    <2>3. FRequests[1].number \in Nat \ {NULL}
      BY <2>1, NumberFacts DEF DueInv, NULL
    <2>4. call = NULL
      BY <1>2, CallFacts DEF PlaceInv, TakesRead
    <2>5. \A n \in Due : Noted(n)
      BY <2>4 DEF DueInv, NumbersOK, NULL
    <2>6. p.number = FRequests[1].number
      BY <2>3, <2>5, OwnResponse
    <2>7. QED
      BY <2>2, <2>3, <2>6
  <1>3. QED
    BY <1>1, <1>2

\* The receiving half of the packets.
LEMMA ResponsesStep ==
  ASSUME RequestsOK, ResponsesOK, DownloadTypeOK, Shape
  PROVE  ResponsesOK'
  <1>1. CASE Quiet \/ SendsCall
    BY <1>1 DEF Quiet, packetVars, SendsCall, reservationVars, ResponsesOK, StoredInOwnPacket, IsReserved, Contains,
       Positions
  <1>2. CASE SendsRead
    BY <1>2, NumberFacts, ReserveKeeps DEF SendsRead
  <1>3. CASE SendsClose
    BY <1>3, ExpectKeeps DEF SendsClose, CloseRemote
  <1>4. CASE Serve
    <2>1. incoming' \subseteq Response /\ UNCHANGED <<FPacketReservations, FPacketNumbers, stored>>
      BY <1>4, ServeFacts DEF ResponsesOK, reservationVars
    <2>2. QED
      BY <2>1 DEF ResponsesOK, StoredInOwnPacket, IsReserved, Contains, Positions
  <1>5. CASE Stores
    BY <1>5, StoreKeeps DEF Stores
  <1>6. CASE TakesCall \/ TakesRead
    BY <1>6, AcceptKeeps DEF TakesCall, TakesRead
  <1>7. CASE Resets
    BY <1>7 DEF Resets, ResponsesOK, StoredInOwnPacket, Positions
  <1>8. QED
    BY <1>1, <1>2, <1>3, <1>4, <1>5, <1>6, <1>7 DEF Shape

\* No number is due twice.
LEMMA NumbersStep ==
  ASSUME RequestsOK, ResponsesOK, NumbersOK, DownloadTypeOK, PlaceInv, DueInv, Shape
  PROVE  NumbersOK'
  <1>1. CASE Quiet
    BY <1>1 DEF Quiet, packetVars, NumbersOK, Due, Positions
  <1>2. CASE SendsCall
    BY <1>2, CalledRequest, SendNumbers DEF SendsCall, reservationVars
  <1>3. CASE SendsRead
    <2>1. FTransfered \in Nat
      BY DEF DownloadTypeOK
    <2>2. QED
      BY <1>3, <2>1, OtherRequests, SendNumbers DEF SendsRead, ReserveResponse
  <1>4. CASE SendsClose
    BY <1>4, OtherRequests, SendNumbers DEF SendsClose, CloseRemote, ExpectResponse
  <1>5. CASE Serve
    BY <1>5, ServeFacts, ServeNumbers
  <1>6. CASE Stores
    BY <1>6, StoreNumbers DEF Stores
  <1>7. CASE TakesCall
    BY <1>7, TakenFacts, AcceptNumbers DEF TakesCall
  <1>8. CASE TakesRead
    BY <1>8, TakenFacts, AcceptNumbers DEF TakesRead
  <1>9. CASE Resets
    BY <1>9 DEF Resets, NumbersOK, Due, Positions
  <1>10. QED
    BY <1>1, <1>2, <1>3, <1>4, <1>5, <1>6, <1>7, <1>8, <1>9 DEF Shape

\* The requests of the queue after one more is sent, or the first is answered.
LEMMA QueueFacts ==
  ASSUME RequestsOK, DownloadTypeOK
  PROVE  /\ SendsRead =>
              /\ Len(FRequests) \in Nat /\ Len(FRequests') = Len(FRequests) + 1
              /\ \A k \in 1..Len(FRequests) : FRequests'[k] = FRequests[k]
              /\ FRequests'[Len(FRequests) + 1] = [number |-> NextNumber, offset |-> FTransfered]
              /\ \A r \in Elements(FRequests)' :
                   r \in Elements(FRequests) \/ (r.number = NextNumber /\ r.offset = FTransfered)
         /\ TakesRead =>
              /\ Len(FRequests) \in Nat \ {0} /\ Len(FRequests') = Len(FRequests) - 1
              /\ FRequests[1] \in Elements(FRequests)
              /\ \A k \in 1..(Len(FRequests) - 1) : FRequests'[k] = FRequests[k + 1]
              /\ \A r \in Elements(FRequests)' :
                   \E k \in 1..(Len(FRequests) - 1) : r = FRequests[k + 1] /\ k + 1 \in Positions(FRequests) /\ k + 1 # 1
  <1> DEFINE n == Len(FRequests)
  <1>1. ASSUME SendsRead
        PROVE  /\ n \in Nat /\ Len(FRequests') = n + 1
               /\ \A k \in 1..n : FRequests'[k] = FRequests[k]
               /\ FRequests'[n + 1] = [number |-> NextNumber, offset |-> FTransfered]
               /\ \A r \in Elements(FRequests)' :
                    r \in Elements(FRequests) \/ (r.number = NextNumber /\ r.offset = FTransfered)
    <2> DEFINE q == [number |-> NextNumber, offset |-> FTransfered]
    <2>1. /\ q \in [number : Nat, offset : Nat] /\ q.number = NextNumber /\ q.offset = FTransfered
          /\ FRequests \in Seq([number : Nat, offset : Nat]) /\ FRequests' = Append(FRequests, q)
      BY <1>1, NumberFacts DEF DownloadTypeOK, SendsRead
    <2> HIDE DEF q
    <2>2. /\ n \in Nat /\ Len(FRequests') = n + 1 /\ FRequests'[n + 1] = q
          /\ \A k \in 1..n : FRequests'[k] = FRequests[k]
      BY <2>1, AppendFacts
    <2>3. Elements(FRequests) = {FRequests[k] : k \in 1..n}
          /\ Elements(FRequests)' = {FRequests'[k] : k \in 1..(n + 1)}
      BY <2>2 DEF Elements, Positions
    <2> HIDE DEF n
    <2>4. \A k \in 1..(n + 1) : k \in 1..n \/ k = n + 1
      BY <2>2
    <2>5. \A r \in Elements(FRequests)' : r \in Elements(FRequests) \/ r = q
      BY <2>2, <2>3, <2>4
    <2>6. QED
      BY <2>1, <2>2, <2>5 DEF q
  <1>2. ASSUME TakesRead
        PROVE  /\ n \in Nat \ {0} /\ Len(FRequests') = n - 1
               /\ FRequests[1] \in Elements(FRequests)
               /\ \A k \in 1..(n - 1) : FRequests'[k] = FRequests[k + 1]
               /\ \A r \in Elements(FRequests)' :
                    \E k \in 1..(n - 1) : r = FRequests[k + 1] /\ k + 1 \in Positions(FRequests) /\ k + 1 # 1
    <2>1. /\ n \in Nat /\ Len(FRequests') = n - 1 /\ 1 \in Positions(FRequests)
          /\ \A k \in 1..(n - 1) : FRequests'[k] = FRequests[k + 1]
          /\ FRequests[1] \in Elements(FRequests)
      BY <1>2, RequestFacts DEF TakesRead
    <2>2. Positions(FRequests) = 1..n /\ Elements(FRequests)' = {FRequests'[k] : k \in 1..(n - 1)}
      BY <2>1 DEF Elements, Positions
    <2> HIDE DEF n
    <2>3. n \in Nat \ {0} /\ \A k \in 1..(n - 1) : k + 1 \in 1..n /\ k + 1 # 1
      BY <2>1, <2>2
    <2>4. QED
      BY <2>1, <2>2, <2>3
  <1>3. QED
    BY <1>1, <1>2

\* Everybody who waits goes on to be the one his response is kept for.
LEMMA DueStep ==
  ASSUME RequestsOK, ResponsesOK, NumbersOK, DownloadTypeOK, PlaceInv, DueInv, Shape
  PROVE  DueInv'
  <1>0. /\ FMessageCounter \in Nat /\ NextNumber = FMessageCounter + 1 /\ NextNumber \in Nat \ {NULL}
        /\ call \in Nat
    BY NumberFacts DEF DownloadTypeOK
  <1>r. \A x \in Nat \ {NULL} : IsReserved(x) => x \in 1..FMessageCounter
    <2> SUFFICES ASSUME NEW x \in Nat \ {NULL}, IsReserved(x) PROVE x \in 1..FMessageCounter
      OBVIOUS
    <2>1. PICK k \in Positions(FPacketReservations) : FPacketReservations[k] = x
      BY DEF IsReserved, Contains
    <2>2. FPacketNumbers[k] = x /\ k \in Positions(FPacketNumbers)
      BY <2>1 DEF ResponsesOK, StoredInOwnPacket, Positions
    <2>3. QED
      BY <2>2 DEF NumbersOK
  <1>1. CASE Quiet
    <2>1. UNCHANGED <<FMessageCounter, outgoing, incoming, FPacketReservations, FPacketNumbers, call, FRequests>>
      BY <1>1 DEF Quiet, packetVars
    <2>2. QED
      BY <2>1 DEF DueInv, Due, Noted, IsReserved
  <1>2. CASE SendsCall
    <2>1. Due' = Due \union {NextNumber}
      BY <1>2, CalledRequest, SendNumbers DEF SendsCall, reservationVars
    <2>2. /\ call = NULL /\ call' = NextNumber /\ FMessageCounter' = NextNumber
          /\ UNCHANGED <<FPacketReservations, FPacketNumbers, FRequests>>
      BY <1>2 DEF SendsCall, SendPacket, reservationVars
    <2>3. \A n \in Due' : Contains(FPacketNumbers', n) \/ n = call'
      BY <2>1, <2>2 DEF DueInv, NumbersOK, NULL, Noted
    <2>4. ~Contains(FPacketReservations', call')
      BY <1>0, <1>r, <2>2 DEF IsReserved
    <2>5. \A r \in Elements(FRequests) : r.number \in 1..FMessageCounter' /\ IsReserved(r.number)
      BY <1>0, <2>2 DEF DueInv
    <2>6. QED
      BY <1>0, <2>2, <2>3, <2>4, <2>5 DEF DueInv, IsReserved, Noted
  <1>3. CASE SendsRead
    <2>1. FTransfered \in Nat
      BY DEF DownloadTypeOK
    <2>2. Due' = Due \union {NextNumber}
      BY <1>3, <2>1, OtherRequests, SendNumbers DEF SendsRead, ReserveResponse
    <2>3. /\ \A n : Noted(n)' <=> Noted(n) \/ n = NextNumber
          /\ \A x : IsReserved(x)' <=> IsReserved(x) \/ x = NextNumber
      BY <1>0, <1>3, ReserveFacts DEF SendsRead
    <2>4. call' = call /\ FMessageCounter' = NextNumber
      BY <1>3 DEF SendsRead, SendPacket
    <2> DEFINE n == Len(FRequests)
    <2>5. /\ n \in Nat /\ Len(FRequests') = n + 1
          /\ \A k \in 1..n : FRequests'[k] = FRequests[k]
          /\ FRequests'[n + 1].number = NextNumber
          /\ \A r \in Elements(FRequests)' : r \in Elements(FRequests) \/ r.number = NextNumber
      BY <1>3, QueueFacts
    <2>6. /\ Positions(FRequests) = 1..n /\ Positions(FRequests') = 1..(n + 1)
          /\ \A k \in 1..n : FRequests[k] \in Elements(FRequests)
      BY <2>5 DEF Positions, Elements
    <2> HIDE DEF n
    <2>7. \A k \in 1..(n + 1) : k \in 1..n \/ k = n + 1
      BY <2>5
    <2>8. \A r \in Elements(FRequests)' : r.number \in 1..FMessageCounter' /\ IsReserved(r.number)'
      BY <1>0, <2>3, <2>4, <2>5 DEF DueInv
    <2>9. ASSUME NEW j \in 1..(n + 1), NEW k \in 1..(n + 1), FRequests'[j].number = FRequests'[k].number
          PROVE  j = k
      <3>1. \A i \in 1..n : FRequests'[i].number # NextNumber
        BY <1>0, <2>5, <2>6 DEF DueInv
      <3>2. j \in 1..n /\ k \in 1..n => j = k
        BY <2>5, <2>6, <2>9 DEF DueInv
      <3>3. QED
        BY <2>5, <2>7, <2>9, <3>1, <3>2
    <2>10. \A m \in Due' : Noted(m)' \/ m = call'
      BY <2>2, <2>3, <2>4 DEF DueInv
    <2>11. call # NULL => call <= FMessageCounter' /\ \A x : x = call => ~IsReserved(x)'
      BY <1>0, <2>3, <2>4 DEF DueInv
    <2>12. QED
      BY <2>4, <2>6, <2>8, <2>9, <2>10, <2>11 DEF DueInv, IsReserved
  <1>4. CASE SendsClose
    <2>1. Due' = Due \union {NextNumber}
      BY <1>4, OtherRequests, SendNumbers DEF SendsClose, CloseRemote, ExpectResponse
    <2>2. /\ \A n : Noted(n)' <=> Noted(n) \/ n = NextNumber
          /\ \A x : x # NULL => (IsReserved(x)' <=> IsReserved(x))
      BY <1>4, ExpectKeeps DEF SendsClose, CloseRemote
    <2>3. call' = call /\ FMessageCounter' = NextNumber /\ FRequests' = FRequests
      BY <1>4 DEF SendsClose, CloseRemote, SendPacket
    <2>4. \A r \in Elements(FRequests) : r.number \in 1..FMessageCounter' /\ IsReserved(r.number)'
      BY <1>0, <2>2, <2>3 DEF DueInv, NULL
    <2>5. call # NULL => call <= FMessageCounter' /\ \A x : x = call => ~IsReserved(x)'
      BY <1>0, <2>2, <2>3 DEF DueInv
    <2>6. \A n \in Due' : Noted(n)' \/ n = call
      BY <2>1, <2>2 DEF DueInv
    <2>7. QED
      BY <2>3, <2>4, <2>5, <2>6 DEF DueInv, IsReserved
  <1>5. CASE Serve
    <2>1. Due' = Due /\ UNCHANGED <<FMessageCounter, FPacketReservations, FPacketNumbers, FRequests, call>>
      BY <1>5, ServeFacts, ServeNumbers DEF reservationVars
    <2>2. QED
      BY <2>1 DEF DueInv, Noted, IsReserved
  <1>6. CASE Stores
    <2>1. /\ Due' \subseteq Due
          /\ \A n \in Due' : Noted(n) => Noted(n)'
          /\ \A x \in Nat \ {NULL} : IsReserved(x) <=> IsReserved(x)'
      BY <1>6, StoreNumbers DEF Stores
    <2>2. UNCHANGED <<FMessageCounter, FRequests, call>>
      BY <1>6 DEF Stores, StoreReserved, queueVars
    <2>3. \A r \in Elements(FRequests) : r.number \in Nat \ {NULL}
      BY <1>0 DEF DueInv, NULL
    <2>4. call # NULL => \A x : x = call => ~IsReserved(x)'
      BY <1>0, <2>1 DEF DueInv
    <2>5. \A r \in Elements(FRequests) : IsReserved(r.number)'
      BY <2>1, <2>3 DEF DueInv
    <2>6. QED
      BY <1>0, <2>1, <2>2, <2>4, <2>5 DEF DueInv, IsReserved
  <1>7. CASE TakesCall
    <2>1. /\ Due' \subseteq Due \ {call}
          /\ \A n \in Due' : Noted(n) => Noted(n)'
          /\ \A x : IsReserved(x) /\ x # call => IsReserved(x)'
      BY <1>7, TakenFacts, AcceptNumbers DEF TakesCall
    <2>2. UNCHANGED <<FMessageCounter, FRequests>> /\ call' = NULL /\ call # NULL
      BY <1>7 DEF TakesCall
    <2>3. \A r \in Elements(FRequests) : IsReserved(r.number)'
      BY <2>1, <2>2 DEF DueInv
    <2>4. QED
      BY <2>1, <2>2, <2>3 DEF DueInv
  <1>8. CASE TakesRead
    <2> DEFINE n == Len(FRequests)
    <2>1. /\ Due' \subseteq Due \ {FRequests[1].number}
          /\ \A m \in Due' : Noted(m) => Noted(m)'
          /\ \A x : IsReserved(x) /\ x # FRequests[1].number => IsReserved(x)'
      BY <1>8, TakenFacts, AcceptNumbers DEF TakesRead
    <2>2. UNCHANGED <<FMessageCounter, call>> /\ call = NULL
      BY <1>8, CallFacts DEF TakesRead, PlaceInv
    <2>3. /\ n \in Nat \ {0} /\ Len(FRequests') = n - 1
          /\ \A k \in 1..(n - 1) : FRequests'[k] = FRequests[k + 1]
          /\ \A r \in Elements(FRequests)' :
               \E k \in 1..(n - 1) : r = FRequests[k + 1] /\ k + 1 \in Positions(FRequests) /\ k + 1 # 1
      BY <1>8, QueueFacts
    <2>4. /\ Positions(FRequests) = 1..n /\ Positions(FRequests') = 1..(n - 1) /\ 1 \in 1..n
          /\ \A k \in 1..n : FRequests[k] \in Elements(FRequests)
      BY <2>3 DEF Positions, Elements
    <2> HIDE DEF n
    <2>5. \A k \in 1..(n - 1) : k + 1 \in 1..n
      BY <2>3
    <2>6. ASSUME NEW r \in Elements(FRequests)'
          PROVE  r.number \in 1..FMessageCounter /\ IsReserved(r.number)'
      <3>1. PICK k \in 1..(n - 1) : r = FRequests[k + 1] /\ k + 1 \in 1..n /\ k + 1 # 1
        BY <2>3, <2>4
      <3>2. r.number # FRequests[1].number /\ IsReserved(r.number) /\ r.number \in 1..FMessageCounter
        BY <2>4, <3>1 DEF DueInv
      <3>3. QED
        BY <2>1, <3>2
    <2>7. ASSUME NEW j \in 1..(n - 1), NEW k \in 1..(n - 1), FRequests'[j].number = FRequests'[k].number
          PROVE  j = k
      <3>1. j + 1 \in 1..n /\ k + 1 \in 1..n
        BY <2>5
      <3>2. FRequests[j + 1].number = FRequests[k + 1].number
        BY <2>3, <2>7
      <3>3. j + 1 = k + 1
        BY <2>4, <3>1, <3>2 DEF DueInv
      <3>4. QED
        BY <3>3
    <2>8. QED
      BY <2>1, <2>2, <2>4, <2>6, <2>7 DEF DueInv
  <1>9. CASE Resets
    BY <1>9 DEF Resets, DueInv, Due, Positions, Elements
  <1>10. QED
    BY <1>1, <1>2, <1>3, <1>4, <1>5, <1>6, <1>7, <1>8, <1>9 DEF Shape

----------------------------------------------------------------------------
(* The reads and their answers                                             *)

\* A read is on its way as one of its offset until its answer is taken.
LEMMA ReadMoves ==
  ASSUME NEW number, NEW offset, ReadAt(number, offset), UNCHANGED <<outgoing, RealSize>>,
         incoming' \subseteq incoming,
         \A s \in stored' : s \in stored \/ s.response \in incoming
  PROVE  ReadAt(number, offset)'
  BY DEF ReadAt

\* A response put aside has come in, and leaves what is incoming.
LEMMA StoreMoves ==
  ASSUME NEW packet, StoreReserved(packet)
  PROVE  /\ incoming' \subseteq incoming /\ UNCHANGED outgoing
         /\ \A s \in stored' : s \in stored \/ s.response \in incoming
  <1>1. PICK p \in Arriving : \E k \in ReservedFor(packet, p) :
          /\ incoming' = incoming \ {p}
          /\ IF FPacketReservations[k] # NULL
               THEN stored' = stored \union {[packet |-> FPacketReservations[k], response |-> p]}
               ELSE UNCHANGED stored
    BY DEF StoreReserved
  <1>2. p \in incoming
    BY DEF Arriving
  <1>3. QED
    BY <1>1, <1>2 DEF StoreReserved

\* A request that is sent takes nothing from the others, and is what its number
\* stands for.
LEMMA ReadSent ==
  ASSUME RequestsOK, ResponsesOK, NumbersOK, NEW kind, NEW block, SendPacket(kind, "source", block),
         UNCHANGED <<incoming, stored, RealSize>>,
         [number |-> NextNumber, kind |-> kind, file |-> "source", block |-> block] \in Request
  PROVE  /\ \A number \in 1..FMessageCounter : \A offset : ReadAt(number, offset) => ReadAt(number, offset)'
         /\ \A number, offset : number = NextNumber /\ offset = block /\ kind = "read" => ReadAt(number, offset)'
  <1> DEFINE q == [number |-> NextNumber, kind |-> kind, file |-> "source", block |-> block]
             n == Len(outgoing)
  <1>0. FMessageCounter \in Nat /\ NextNumber = FMessageCounter + 1
    BY NumberFacts
  <1>1. q \in Request /\ outgoing \in Seq(Request) /\ outgoing' = Append(outgoing, q)
        /\ q.number = NextNumber /\ q.kind = kind /\ q.block = block
    BY DEF RequestsOK, SendPacket
  <1> HIDE DEF q
  <1>2. /\ n \in Nat /\ Len(outgoing') = n + 1 /\ outgoing'[n + 1] = q
        /\ \A k \in 1..n : outgoing'[k] = outgoing[k]
    BY <1>1, AppendFacts
  <1>3. Positions(outgoing) = 1..n /\ Positions(outgoing') = 1..(n + 1)
    BY <1>2 DEF Positions
  <1> HIDE DEF n
  <1>4. \A k \in 1..(n + 1) : k \in 1..n \/ k = n + 1
    BY <1>2
  <1>5. \A k \in 1..n : outgoing[k].number \in Due
    BY <1>3 DEF Due
  <1>6. \A k \in 1..n : outgoing[k].number # NextNumber
    BY <1>0, <1>5 DEF NumbersOK
  <1>7. \A p \in incoming : p.number # NextNumber
    BY <1>0 DEF NumbersOK, Due
  <1>8. \A s \in stored : s.response.number # NextNumber
    <2> SUFFICES ASSUME NEW s \in stored PROVE s.response.number # NextNumber
      OBVIOUS
    <2>1. s.response.number = s.packet /\ s.packet # NULL /\ IsReserved(s.packet)
      BY DEF ResponsesOK, StoredInOwnPacket
    <2>2. PICK k \in Positions(FPacketReservations) : FPacketReservations[k] = s.packet
      BY <2>1 DEF IsReserved, Contains
    <2>3. FPacketNumbers[k] = s.packet /\ k \in Positions(FPacketNumbers)
      BY <2>1, <2>2 DEF ResponsesOK, StoredInOwnPacket, Positions
    <2>4. QED
      BY <1>0, <2>1, <2>3 DEF NumbersOK
  <1>9. ASSUME NEW number \in 1..FMessageCounter, NEW offset, ReadAt(number, offset) PROVE ReadAt(number, offset)'
    <2>1. number # NextNumber
      BY <1>0
    <2>2. \A k \in 1..(n + 1) : outgoing'[k].number = number => outgoing'[k].kind = "read" /\ outgoing'[k].block = offset
      BY <1>1, <1>2, <1>3, <1>4, <1>9, <2>1 DEF ReadAt
    <2>3. QED
      BY <1>3, <1>9, <2>2 DEF ReadAt
  <1>10. ASSUME NEW number, NEW offset, number = NextNumber, offset = block, kind = "read"
         PROVE  ReadAt(number, offset)'
    <2>1. \A k \in 1..(n + 1) : outgoing'[k].number = number => outgoing'[k].kind = "read" /\ outgoing'[k].block = offset
      BY <1>1, <1>2, <1>4, <1>6, <1>10
    <2>2. QED
      BY <1>3, <1>7, <1>8, <1>10, <2>1 DEF ReadAt
  <1>11. QED
    BY <1>9, <1>10

\* The server answers a read with the end of the file only behind it.
LEMMA ReadServed ==
  ASSUME RequestsOK, DownloadTypeOK, Serve, NEW number, NEW offset, ReadAt(number, offset)
  PROVE  ReadAt(number, offset)'
  <1> DEFINE n == Len(outgoing)
  <1>1. PICK p \in Response : /\ p.number = Head(outgoing).number /\ p.kind = Answered(Head(outgoing))
                              /\ incoming' = incoming \union {p}
    BY ServeFacts
  <1>2. /\ outgoing # <<>> /\ outgoing' = Tail(outgoing) /\ outgoing \in Seq(Request)
        /\ Head(outgoing) = outgoing[1] /\ UNCHANGED <<stored, RealSize>>
    BY ServeFacts DEF Serve, choiceVars
  <1>3. /\ n \in Nat \ {0} /\ Len(outgoing') = n - 1
        /\ \A k \in 1..(n - 1) : outgoing'[k] = outgoing[k + 1]
    BY <1>2, TailFacts
  <1> HIDE DEF n
  <1>4. /\ Positions(outgoing) = 1..n /\ Positions(outgoing') = 1..(n - 1) /\ 1 \in 1..n
        /\ \A k \in 1..(n - 1) : k + 1 \in 1..n
    BY <1>3 DEF Positions, n
  <1>5. \A k \in Positions(outgoing') : outgoing'[k].number = number =>
          outgoing'[k].kind = "read" /\ outgoing'[k].block = offset
    BY <1>3, <1>4 DEF ReadAt
  <1>6. ASSUME p.number = number, p.kind = "eof" PROVE offset >= RealSize
    <2>1. outgoing[1].kind = "read" /\ outgoing[1].block = offset
      BY <1>1, <1>2, <1>4, <1>6 DEF ReadAt
    <2>2. QED
      BY <1>1, <1>2, <1>6, <2>1 DEF Answered
  <1>7. QED
    BY <1>1, <1>2, <1>5, <1>6 DEF ReadAt

\* Whatever answers a read answers the one that was sent.
LEMMA ReadStep ==
  ASSUME RequestsOK, ResponsesOK, NumbersOK, DownloadTypeOK, PlaceInv, DueInv, ReadInv, Shape
  PROVE  ReadInv'
  <1>0. /\ UNCHANGED RealSize
        /\ pc' = "fill" /\ call' # NULL => pc = "fill" /\ UNCHANGED TransferedSize
        /\ \A r \in Elements(FRequests) : r.number \in 1..FMessageCounter
        /\ call # NULL => call \in 1..FMessageCounter
    <2>1. call \in Nat /\ FMessageCounter \in Nat
      BY NumberFacts DEF DownloadTypeOK
    <2>2. call # NULL => call \in 1..FMessageCounter
      BY <2>1 DEF DueInv, NULL
    <2>3. QED
      BY <2>2 DEF Shape, choiceVars, DueInv
  <1>1. ASSUME UNCHANGED call, Elements(FRequests)' \subseteq Elements(FRequests),
               \A number \in 1..FMessageCounter : \A offset : ReadAt(number, offset) => ReadAt(number, offset)'
        PROVE  ReadInv'
    <2>1. \A r \in Elements(FRequests)' : ReadAt(r.number, r.offset)'
      BY <1>0, <1>1 DEF ReadInv
    <2>2. ASSUME pc' = "fill", call' # NULL PROVE \A n, o : n = call /\ o = TransferedSize => ReadAt(n, o)'
      BY <1>0, <1>1, <2>2 DEF ReadInv
    <2>3. ASSUME pc' = "fill", call' # NULL PROVE ReadAt(call, TransferedSize)'
      BY <1>0, <1>1, <2>2, <2>3 DEF ReadAt
    <2>4. QED
      BY <2>1, <2>3 DEF ReadInv
  <1>2. CASE Quiet
    BY <1>0, <1>1, <1>2 DEF Quiet, packetVars, ReadAt
  <1>3. CASE SendsCall
    <2>1. /\ \A number \in 1..FMessageCounter : \A offset : ReadAt(number, offset) => ReadAt(number, offset)'
          /\ pc = "fill" => \A n, o : n = NextNumber /\ o = TransferedSize => ReadAt(n, o)'
      BY <1>0, <1>3, CallFacts, CalledRequest, ReadSent DEF SendsCall
    <2>2. FRequests' = FRequests /\ call' = NextNumber
      BY <1>3 DEF SendsCall
    <2>3. \A r \in Elements(FRequests)' : ReadAt(r.number, r.offset)'
      BY <1>0, <2>1, <2>2 DEF ReadInv
    <2>4. ASSUME pc' = "fill", call' # NULL PROVE ReadAt(call, TransferedSize)'
      <3>1. call' = NextNumber /\ TransferedSize' = TransferedSize /\ pc = "fill"
        BY <1>0, <2>2, <2>4
      <3>2. QED
        BY <2>1, <3>1 DEF ReadAt
    <2>5. QED
      BY <2>3, <2>4 DEF ReadInv
  <1>4. CASE SendsRead
    <2>1. FTransfered \in Nat
      BY DEF DownloadTypeOK
    <2>2. /\ \A number \in 1..FMessageCounter : \A offset : ReadAt(number, offset) => ReadAt(number, offset)'
          /\ \A n, o : n = NextNumber /\ o = FTransfered => ReadAt(n, o)'
      BY <1>0, <1>4, <2>1, OtherRequests, ReadSent DEF SendsRead
    <2>3. /\ \A r \in Elements(FRequests)' :
               r \in Elements(FRequests) \/ (r.number = NextNumber /\ r.offset = FTransfered)
          /\ call' = call
      BY <1>4, QueueFacts DEF SendsRead
    <2>4. \A r \in Elements(FRequests)' : ReadAt(r.number, r.offset)'
      BY <1>0, <2>2, <2>3 DEF ReadInv
    <2>5. ASSUME pc' = "fill", call' # NULL PROVE ReadAt(call, TransferedSize)'
      <3>1. \A n, o : n = call /\ o = TransferedSize => ReadAt(n, o)'
        BY <1>0, <2>2, <2>3, <2>5 DEF ReadInv
      <3>2. QED
        BY <1>0, <2>3, <2>5, <3>1 DEF ReadAt
    <2>6. QED
      BY <2>4, <2>5 DEF ReadInv
  <1>5. CASE SendsClose
    <2>1. \A number \in 1..FMessageCounter : \A offset : ReadAt(number, offset) => ReadAt(number, offset)'
      BY <1>0, <1>5, OtherRequests, ReadSent DEF SendsClose, CloseRemote
    <2>2. QED
      BY <1>1, <1>5, <2>1 DEF SendsClose
  <1>6. CASE Serve
    BY <1>1, <1>6, ReadServed, ServeFacts
  <1>7. CASE Stores
    <2>1. UNCHANGED <<FRequests, call>>
      BY <1>7 DEF Stores, queueVars
    <2>2. \A number \in 1..FMessageCounter : \A offset : ReadAt(number, offset) => ReadAt(number, offset)'
      BY <1>0, <1>7, StoreMoves, ReadMoves DEF Stores
    <2>3. QED
      BY <1>1, <2>1, <2>2
  <1>8. CASE TakesCall
    <2>1. \A number, offset : ReadAt(number, offset) => ReadAt(number, offset)'
      BY <1>0, <1>8, ReadMoves DEF TakesCall, Accept
    <2>2. FRequests' = FRequests /\ call' = NULL
      BY <1>8 DEF TakesCall
    <2>3. QED
      BY <2>1, <2>2 DEF ReadInv
  <1>9. CASE TakesRead
    <2>1. \A number, offset : ReadAt(number, offset) => ReadAt(number, offset)'
      BY <1>0, <1>9, ReadMoves DEF TakesRead, Accept
    <2>2. call' = call
      BY <1>9 DEF TakesRead
    <2>3. Elements(FRequests)' \subseteq Elements(FRequests)
      BY <1>9, QueueFacts DEF Elements
    <2>4. QED
      BY <1>1, <2>1, <2>2, <2>3
  <1>10. CASE Resets
    BY <1>10 DEF Resets, ReadInv, Elements, Positions
  <1>11. QED
    BY <1>2, <1>3, <1>4, <1>5, <1>6, <1>7, <1>8, <1>9, <1>10 DEF Shape

----------------------------------------------------------------------------
(* Parts of the remote file                                                *)

\* A part of the remote file is as long as it says.
LEMMA RemoteFacts ==
  ASSUME NEW a \in Nat, NEW m \in Nat
  PROVE  /\ Remote(a, m) \in Seq(Nat) /\ Len(Remote(a, m)) = m /\ Remote(a, m) # NoFile
         /\ Remote(a, m) = <<>> <=> m = 0
         /\ \A k \in 1..m : Remote(a, m)[k] = a + k
  <1>1. \A k \in 1..m : a + k \in Nat
    OBVIOUS
  <1>2. Remote(a, m) \in Seq(Nat) /\ Len(Remote(a, m)) = m /\ \A k \in 1..m : Remote(a, m)[k] = a + k
    BY <1>1 DEF Remote
  <1> DEFINE r == Remote(a, m)
  <1>3. r \in Seq(Nat) /\ Len(r) = m
    BY <1>2
  <1> HIDE DEF r
  <1>4. r = <<>> <=> m = 0
    BY <1>3
  <1>5. r # NoFile
    BY <1>3, NoFileAssumption
  <1>6. QED
    BY <1>2, <1>4, <1>5 DEF r

\* What follows is appended.
LEMMA RemoteAppended ==
  ASSUME NEW a \in Nat, NEW m \in Nat, NEW n \in Nat
  PROVE  Remote(a, m) \o Remote(a + m, n) = Remote(a, m + n)
  <1> DEFINE r == Remote(a, m)
             s == Remote(a + m, n)
             t == Remote(a, m + n)
  <1>1. r \in Seq(Nat) /\ Len(r) = m /\ \A k \in 1..m : r[k] = a + k
    BY RemoteFacts
  <1>2. s \in Seq(Nat) /\ Len(s) = n /\ \A k \in 1..n : s[k] = a + m + k
    <2>1. a + m \in Nat
      OBVIOUS
    <2>2. QED
      BY <2>1, RemoteFacts
  <1>3. t \in Seq(Nat) /\ Len(t) = m + n /\ \A k \in 1..(m + n) : t[k] = a + k
    <2>1. m + n \in Nat
      OBVIOUS
    <2>2. QED
      BY <2>1, RemoteFacts
  <1> HIDE DEF r, s, t
  <1>4. r \o s \in Seq(Nat) /\ Len(r \o s) = m + n
    BY <1>1, <1>2
  <1>5. \A k \in 1..(m + n) : (r \o s)[k] = t[k]
    <2> TAKE k \in 1..(m + n)
    <2>1. CASE k <= m
      <3>1. (r \o s)[k] = r[k]
        BY <1>1, <1>2, <2>1
      <3>2. QED
        BY <1>1, <1>3, <2>1, <3>1
    <2>2. CASE k > m
      <3>1. k - m \in 1..n /\ a + m + (k - m) = a + k
        BY <2>2
      <3>2. (r \o s)[k] = s[k - m]
        BY <1>1, <1>2, <2>2
      <3>3. QED
        BY <1>2, <1>3, <3>1, <3>2
    <2>3. k <= m \/ k > m
      OBVIOUS
    <2>4. QED
      BY <2>1, <2>2, <2>3
  <1>6. r \o s = t
    BY <1>3, <1>4, <1>5, SeqEqual
  <1>7. QED
    BY <1>6 DEF r, s, t

\* Two beginnings of it differ in length.
LEMMA RemoteSize ==
  ASSUME NEW m \in Nat, NEW n \in Nat, Remote(0, m) = Remote(0, n)
  PROVE  m = n
  BY RemoteFacts

\* A file is what it was, with nothing behind it.
LEMMA AppendedItself ==
  ASSUME NEW base \in Seq(Nat)
  PROVE  AppendedTo(base, base) /\ base # NoFile
  <1>1. base # NoFile /\ Len(base) \in Nat
    BY NoFileAssumption
  <1>2. (Len(base) + 1)..Len(base) = {}
    BY <1>1
  <1>3. QED
    BY <1>1, <1>2 DEF AppendedTo, Starts

\* One sequence behind another, by its elements.
LEMMA ConcatFacts ==
  ASSUME NEW a \in Seq(Nat), NEW b \in Seq(Nat)
  PROVE  /\ a \o b \in Seq(Nat) /\ Len(a) \in Nat /\ Len(b) \in Nat /\ Len(a \o b) = Len(a) + Len(b)
         /\ \A k \in 1..Len(a) : (a \o b)[k] = a[k]
         /\ \A k \in 1..Len(b) : (a \o b)[Len(a) + k] = b[k]
  OBVIOUS

\* Three sequences, one behind another.
LEMMA ConcatThree ==
  \A a, b, c \in Seq(Nat) : (a \o b) \o c = a \o (b \o c)
  BY ConcatAssociative

\* One more beginning of the remote file.
LEMMA AppendedGoesOn ==
  ASSUME NEW first \in Seq(Nat), NEW base \in Seq(Nat), NEW n \in Nat, AppendedTo(first, base)
  PROVE  AppendedTo(first, base \o Remote(0, n))
  <1> DEFINE r == Remote(0, n)
             whole == base \o r
             f == Len(first)
             b == Len(base)
  <1>1. r \in Seq(Nat) /\ Len(r) = n /\ \A k \in 1..n : r[k] = k
    <2>1. \A k \in 1..n : 0 + k = k
      OBVIOUS
    <2>2. QED
      BY <2>1, RemoteFacts
  <1> HIDE DEF r
  <1>2. /\ whole \in Seq(Nat) /\ b \in Nat /\ f \in Nat /\ Len(whole) = b + n
        /\ \A k \in 1..b : whole[k] = base[k]
        /\ \A k \in 1..n : whole[b + k] = k
    BY <1>1, ConcatFacts
  <1>3. /\ f <= b /\ first # NoFile /\ \A k \in 1..f : base[k] = first[k]
        /\ \A k \in (f + 1)..b : base[k] = 1 \/ (k > f + 1 /\ base[k] = base[k - 1] + 1)
    BY DEF AppendedTo, Starts
  <1> HIDE DEF whole
  <1>4. whole # NoFile
    BY <1>2, NoFileAssumption
  <1> HIDE DEF f, b
  <1>5. f <= b + n /\ \A k \in 1..f : k \in 1..b
    BY <1>2, <1>3
  <1>6. \A k \in 1..f : whole[k] = first[k]
    BY <1>2, <1>3, <1>5
  <1>7. ASSUME NEW k \in (f + 1)..(b + n)
        PROVE  whole[k] = 1 \/ (k > f + 1 /\ whole[k] = whole[k - 1] + 1)
    <2>1. CASE k <= b
      <3>1. k \in 1..b /\ k \in (f + 1)..b /\ (k > f + 1 => k - 1 \in 1..b)
        BY <1>2, <2>1
      <3>2. whole[k] = base[k] /\ (k > f + 1 => whole[k - 1] = base[k - 1])
        BY <1>2, <3>1
      <3>3. base[k] = 1 \/ (k > f + 1 /\ base[k] = base[k - 1] + 1)
        BY <1>3, <3>1
      <3>4. QED
        BY <3>2, <3>3
    <2>2. CASE k = b + 1
      <3>1. 1 \in 1..n
        BY <1>2, <2>2
      <3>2. QED
        BY <1>2, <2>2, <3>1
    <2>3. CASE k > b + 1
      <3> DEFINE j == k - b
      <3>1. j \in 1..n /\ j - 1 \in 1..n /\ k = b + j /\ k - 1 = b + (j - 1) /\ k > f + 1
        BY <1>2, <1>3, <2>3
      <3> HIDE DEF j
      <3>2. whole[k] = j /\ whole[k - 1] = j - 1
        BY <1>2, <3>1
      <3>3. QED
        BY <3>1, <3>2
    <2>4. k <= b \/ k = b + 1 \/ k > b + 1
      BY <1>2
    <2>5. QED
      BY <2>1, <2>2, <2>3, <2>4
  <1>8. QED
    BY <1>2, <1>3, <1>4, <1>5, <1>6, <1>7 DEF AppendedTo, Starts, whole, r, f, b

\* The rest of the remote file behind the file before.
LEMMA ContinuedRest ==
  ASSUME before \in Seq(Nat), NEW n \in Nat
  PROVE  /\ Continued(before \o Remote(Len(before), n)) /\ before \o Remote(Len(before), n) \in Seq(Nat)
         /\ Len(before \o Remote(Len(before), n)) = Len(before) + n
  <1> DEFINE b == Len(before)
             r == Remote(b, n)
             whole == before \o r
  <1>1. b \in Nat
    OBVIOUS
  <1>2. r \in Seq(Nat) /\ Len(r) = n /\ \A k \in 1..n : r[k] = b + k
    <2> HIDE DEF b
    <2>1. QED
      BY <1>1, RemoteFacts
  <1> HIDE DEF r
  <1>3. /\ whole \in Seq(Nat) /\ Len(whole) = b + n
        /\ \A k \in 1..b : whole[k] = before[k]
        /\ \A k \in 1..n : whole[b + k] = b + k
    BY <1>2, ConcatFacts
  <1> HIDE DEF whole
  <1>4. before # NoFile /\ whole # NoFile
    BY <1>3, NoFileAssumption
  <1> HIDE DEF b
  <1>5. ASSUME NEW k \in (b + 1)..(b + n) PROVE whole[k] = k
    <2>1. k - b \in 1..n /\ b + (k - b) = k
      BY <1>1
    <2>2. QED
      BY <1>3, <2>1
  <1>6. b <= b + n
    BY <1>1
  <1>7. QED
    BY <1>3, <1>4, <1>5, <1>6 DEF Continued, Starts, whole, r, b

\* A sequence behind another.
LEMMA Behind ==
  ASSUME NEW base \in Seq(Nat), NEW rest \in Seq(Nat)
  PROVE  /\ Len(base \o rest) = Len(base) + Len(rest) /\ Len(base) \in Nat /\ Len(rest) \in Nat
         /\ SubSeq(base \o rest, 1, Len(base)) = base
         /\ SubSeq(base \o rest, Len(base) + 1, Len(base) + Len(rest)) = rest
  <1> DEFINE whole == base \o rest
             b == SubSeq(whole, 1, Len(base))
             t == SubSeq(whole, Len(base) + 1, Len(base) + Len(rest))
  <1>1. /\ whole \in Seq(Nat) /\ Len(base) \in Nat /\ Len(rest) \in Nat /\ Len(whole) = Len(base) + Len(rest)
        /\ \A k \in 1..Len(base) : whole[k] = base[k]
        /\ \A k \in 1..Len(rest) : whole[Len(base) + k] = rest[k]
    OBVIOUS
  <1> HIDE DEF whole
  <1>2. b \in Seq(Nat) /\ Len(b) = Len(base) /\ \A k \in 1..Len(base) : b[k] = whole[k]
    BY <1>1
  <1>3. t \in Seq(Nat) /\ Len(t) = Len(rest) /\ \A k \in 1..Len(rest) : t[k] = whole[Len(base) + k]
    <2> DEFINE m == Len(base) + 1
               n == Len(base) + Len(rest)
    <2>1. /\ m \in Nat \ {0} /\ n \in Nat /\ n - m + 1 = Len(rest) /\ n <= Len(whole)
          /\ \A k \in 1..Len(rest) : m + k - 1 = Len(base) + k
      BY <1>1
    <2> HIDE DEF m, n
    <2>2. /\ SubSeq(whole, m, n) \in Seq(Nat) /\ Len(SubSeq(whole, m, n)) = n - m + 1
          /\ \A k \in 1..(n - m + 1) : SubSeq(whole, m, n)[k] = whole[m + k - 1]
      <3>1. \A k \in m..n : whole[k] \in Nat
        BY <1>1, <2>1
      <3>2. (IF m <= n THEN n - m + 1 ELSE 0) = n - m + 1
        BY <1>1, <2>1
      <3>3. QED
        BY <2>1, <3>1, <3>2, SubSeqProperties
    <2>3. QED
      BY <2>1, <2>2 DEF m, n
  <1> HIDE DEF b, t
  <1>4. b = base /\ t = rest
    <2>1. b = base
      BY <1>1, <1>2, SeqEqual
    <2>2. t = rest
      BY <1>1, <1>3, SeqEqual
    <2>3. QED
      BY <2>1, <2>2
  <1>5. QED
    BY <1>1, <1>4 DEF whole, b, t

----------------------------------------------------------------------------
(* The types                                                               *)

FlagsOK ==
  /\ {Resumable, cpNoConfirmation, DestFileExists, ResumeTransfer, DeleteLocalFile, PrevIncomplete,
      RemoteHandle, error, handle} \subseteq BOOLEAN
  /\ Params \in {"none", "cpAppend", "cpResume", "NewerOnly"}
  /\ OverwriteMode \in {"overwrite", "append", "resume"}
  /\ result \in {"none", "done", "failed"}

SizesOK ==
  /\ {RealSize, ListedSize} \subseteq Sizes
  /\ {TransferSize, TransferedSize, LocallyUsed, Missing, FTransfered, FMissedRequests, call} \subseteq Nat
  /\ shorts \in 0..MaxShort /\ failures \in 0..MaxFailures /\ drops \in 0..MaxDrops

DataOK == DataPacket \in [offset : Nat, length : 0..BlockSize, last : BOOLEAN]
QueueOK == FRequests \in Seq([number : Nat, offset : Nat])
FilesOK ==
  /\ before \in Seq(Nat) \union {NoFile}
  /\ DOMAIN local = {"dest", "partial"}
  /\ \A f \in DOMAIN local : local[f] \in Seq(Nat) \union {NoFile}

\* The type invariant, by what is typed.
LEMMA TypeParts == DownloadTypeOK <=> FlagsOK /\ SizesOK /\ DataOK /\ QueueOK /\ FilesOK
  BY DEF DownloadTypeOK, FlagsOK, SizesOK, DataOK, QueueOK, FilesOK

\* The numbers of the type invariant, one by one.
LEMMA SizeFacts ==
  ASSUME DownloadTypeOK
  PROVE  /\ RealSize \in Nat \ {0} /\ ListedSize \in Nat \ {0} /\ BlockSize \in Nat \ {0}
         /\ TransferSize \in Nat /\ TransferedSize \in Nat /\ LocallyUsed \in Nat /\ Missing \in Nat
         /\ FTransfered \in Nat /\ FMissedRequests \in Nat /\ call \in Nat
         /\ DataPacket.offset \in Nat /\ DataPacket.length \in 0..BlockSize
         /\ QueueLen \in Nat \ {0}
  <1>1. RealSize \in Nat \ {0} /\ ListedSize \in Nat \ {0} /\ BlockSize \in Nat \ {0}
    BY SizesAssumption DEF DownloadTypeOK
  <1>2. ListedSize \div BlockSize \in Nat
    BY <1>1
  <1>3. QueueLen \in Nat \ {0}
    BY <1>2, QueueAssumption DEF QueueLen, Least
  <1>4. QED
    BY <1>1, <1>3 DEF DownloadTypeOK

\* Truth values, modes and results stay what they are.
LEMMA FlagsStep ==
  ASSUME DownloadTypeOK, Next
  PROVE  FlagsOK'
  <1>0. FlagsOK
    BY TypeParts
  <1>1. ASSUME Check \/ Confirm \/ Create \/ InitQueue \/ Process \/ Surprised \/ Disposed \/ Replace \/ Rename
               \/ Finished \/ CleanUp \/ Unwound \/ Reopen \/ GiveUp
        PROVE  FlagsOK'
    BY <1>0, <1>1 DEF FlagsOK, Check, Confirm, Create, InitQueue, Process, Surprised, Disposed, Replace, Rename,
       Finished, CleanUp, Unwound, Reopen, GiveUp, Goes, Fails, Incomplete, FillsGap, LocalStep, choiceVars, attemptVars,
       blockVars, serverVars
  <1>2. ASSUME SendCall \/ Opened \/ Loaded \/ KeptAlive \/ SendRequest \/ Closing \/ DisposeResponse \/ Stores
        PROVE  FlagsOK'
    BY <1>0, <1>2 DEF FlagsOK, SendCall, Opened, Loaded, KeptAlive, Returns, SendRequest, Closing, DisposeResponse,
       Stores, Goes, Fails, choiceVars, attemptVars, blockVars, serverVars
  <1>3. ASSUME NEW answer, Receives(answer) \/ Fills(answer), error' \in BOOLEAN PROVE FlagsOK'
    BY <1>0, <1>3 DEF FlagsOK, Receives, Fills, choiceVars, attemptVars, serverVars
  <1>4. ASSUME ReceiveData \/ ReceiveEof \/ ReceiveRefused \/ FillData \/ FillEof \/ FillRefused
        PROVE  FlagsOK'
    BY <1>0, <1>3, <1>4 DEF ReceiveData, ReceiveEof, ReceiveRefused, FillData, FillEof, FillRefused, Goes, Fails,
       FlagsOK
  <1>5. ASSUME Serve \/ Drop PROVE FlagsOK'
    BY <1>0, <1>5 DEF FlagsOK, Serve, Drop, Lost, choiceVars, attemptVars, blockVars
  <1>6. QED
    BY <1>1, <1>2, <1>4, <1>5 DEF Next, Transfer

\* No size is subtracted from that is not large enough.
LEMMA SizesStep ==
  ASSUME RequestsOK, DownloadTypeOK, PlaceInv, QueueInv, AppendInv, Next
  PROVE  SizesOK'
  <1>0. SizesOK /\ FilesOK /\ NextNumber \in Nat /\ NULL \in Nat
    BY TypeParts, NumberFacts DEF NULL
  <1>1. ASSUME Surprised \/ Disposed \/ Replace \/ Finished \/ CleanUp \/ Unwound \/ GiveUp \/ Create
               \/ Closing \/ Stores \/ DisposeResponse \/ Opened \/ Loaded \/ KeptAlive \/ ReceiveEof \/ ReceiveRefused
               \/ FillEof \/ FillRefused
        PROVE  SizesOK'
    BY <1>0, <1>1 DEF SizesOK, Surprised, Disposed, Replace, Finished, CleanUp, Unwound, GiveUp, Create, Closing,
       Stores, DisposeResponse, Opened, Loaded, KeptAlive, Returns, ReceiveEof, ReceiveRefused, Receives, FillEof,
       FillRefused, Fills, LocalStep, choiceVars, progressVars, blockVars, queueVars, serverVars
  <1>2. ASSUME NEW resumed \in Nat, Begins(resumed),
               UNCHANGED <<choiceVars, blockVars, queueVars, serverVars, call, drops>>
        PROVE  SizesOK'
    BY <1>0, <1>2, SizeFacts DEF SizesOK, Begins, Most, choiceVars, blockVars, queueVars, serverVars
  <1>3. CASE Check
    <2>1. Resumable /\ local["partial"] # NoFile => Len(local["partial"]) \in Nat
      BY <1>0 DEF FilesOK
    <2>2. PICK resumed \in Nat : Begins(resumed)
      BY <1>3, <2>1 DEF Check
    <2>3. QED
      BY <1>2, <1>3, <2>2 DEF Check
  <1>4. CASE Confirm
    <2>1. CASE UNCHANGED progressVars
      BY <1>0, <1>4, <2>1 DEF Confirm, SizesOK, choiceVars, progressVars, blockVars, queueVars, serverVars
    <2>2. CASE DestFileExists /\ Begins(Len(local["dest"]))
      <3>1. Len(local["dest"]) \in Nat
        BY <1>0, <1>4, <2>2 DEF Confirm, AppendInv, FilesOK
      <3>2. QED
        BY <1>2, <1>4, <2>2, <3>1 DEF Confirm
    <2>3. QED
      BY <1>4, <2>1, <2>2 DEF Confirm
  <1>5. CASE SendCall \/ Reopen
    BY <1>0, <1>5 DEF SizesOK, SendCall, Reopen, choiceVars, progressVars, blockVars, queueVars, serverVars
  <1>6. CASE InitQueue
    BY <1>0, <1>6, SizeFacts DEF SizesOK, InitQueue, choiceVars, progressVars, serverVars
  <1>7. CASE SendRequest
    <2>1. FMissedRequests > 0 /\ FMissedRequests \in Nat /\ FTransfered \in Nat /\ BlockSize \in Nat
      BY <1>7, SizeFacts DEF SendRequest, QueueInv, StageInv, Queueing
    <2>2. FMissedRequests' \in Nat /\ FTransfered' \in Nat
      BY <1>7, <2>1 DEF SendRequest
    <2>3. QED
      BY <1>0, <1>7, <2>2 DEF SizesOK, SendRequest, choiceVars, progressVars, blockVars, serverVars
  <1>8. CASE ReceiveData
    <2>1. shorts' \in 0..MaxShort
      BY <1>0, <1>8, BoundsAssumption DEF ReceiveData, Data, SizesOK
    <2>2. FMissedRequests' \in Nat
      BY <1>8, SizeFacts DEF ReceiveData, MissedAfterData
    <2>3. QED
      BY <1>0, <1>8, <2>1, <2>2 DEF SizesOK, ReceiveData, Receives, choiceVars, progressVars, serverVars
  <1>9. CASE FillData
    <2>1. shorts' \in 0..MaxShort
      BY <1>0, <1>9, BoundsAssumption DEF FillData, Data, SizesOK
    <2>2. QED
      BY <1>0, <1>9, <2>1 DEF SizesOK, FillData, Fills, choiceVars, progressVars, queueVars, serverVars
  <1>10. CASE Process
    <2> DEFINE length == DataPacket.length
    <2>1. /\ TransferedSize' = TransferedSize + length /\ TransferSize' = Most(TransferSize, TransferedSize + length)
          /\ LocallyUsed' \in {LocallyUsed, LocallyUsed + length} /\ Missing' = MissingAfter(length)
          /\ FillsGap => length <= Missing
      BY <1>10 DEF Process, QueueInv, StageInv, HandInv, Queueing, InHand, FillsGap
    <2>2. length \in Nat /\ length <= BlockSize /\ BlockSize \in Nat
      BY SizeFacts
    <2> HIDE DEF length
    <2>3. TransferedSize' \in Nat /\ TransferSize' \in Nat /\ LocallyUsed' \in Nat
      BY <2>1, <2>2, SizeFacts DEF Most
    <2>4. Missing' \in Nat
      BY <2>1, <2>2, SizeFacts DEF MissingAfter, Gap
    <2>5. QED
      BY <1>0, <1>10, <2>3, <2>4 DEF SizesOK, Process, choiceVars, queueVars, serverVars
  <1>11. CASE Rename
    BY <1>0, <1>11, BoundsAssumption DEF SizesOK, Rename, LocalStep, choiceVars, progressVars, blockVars, queueVars
  <1>12. CASE Serve
    BY <1>0, <1>12, BoundsAssumption DEF SizesOK, Serve, choiceVars, progressVars, blockVars, queueVars
  <1>13. CASE Drop
    BY <1>0, <1>13, BoundsAssumption DEF SizesOK, Drop, Lost, choiceVars, progressVars, blockVars
  <1>14. QED
    BY <1>1, <1>3, <1>4, <1>5, <1>6, <1>7, <1>8, <1>9, <1>10, <1>11, <1>12, <1>13 DEF Next, Transfer

\* The data taken last is not more than a block.
LEMMA DataStep ==
  ASSUME DownloadTypeOK, QueueInv, Next
  PROVE  DataOK'
  <1>0. DataOK
    BY TypeParts
  <1>1. ASSUME NEW offset \in Nat, NEW size \in 0..BlockSize, Data(offset, size) PROVE DataOK'
    <2>1. PICK length \in 1..Least(size, RealSize - offset), last \in BOOLEAN :
            DataPacket' = [offset |-> offset, length |-> length, last |-> last]
      BY <1>1 DEF Data
    <2>2. size - 0 \in Nat /\ BlockSize \in Nat /\ RealSize - offset \in Int /\ size <= BlockSize
      BY SizeFacts
    <2>3. length \in 0..BlockSize
      BY <2>2 DEF Least
    <2>4. QED
      BY <2>1, <2>3 DEF DataOK
  <1>2. CASE ReceiveData
    <2>1. Head(FRequests).offset \in Nat
      BY <1>2, RequestFacts DEF ReceiveData, Receives
    <2>2. BlockSize \in 0..BlockSize
      BY SizeFacts
    <2>3. QED
      BY <1>1, <1>2, <2>1, <2>2 DEF ReceiveData
  <1>3. CASE FillData
    <2>1. TransferedSize \in Nat /\ Missing \in 0..BlockSize
      BY <1>3, SizeFacts DEF FillData, Fills, QueueInv, StageInv, Queueing
    <2>2. QED
      BY <1>1, <1>3, <2>1 DEF FillData
  <1>4. CASE InitQueue \/ Process
    <2>1. DataPacket' = NoData
      BY <1>4 DEF InitQueue, Process
    <2>2. 0 \in 0..BlockSize
      BY SizeFacts
    <2>3. QED
      BY <2>1, <2>2 DEF NoData, DataOK
  <1>5. ASSUME Check \/ SendCall \/ Opened \/ Loaded \/ Confirm \/ Create \/ SendRequest \/ Stores \/ ReceiveEof
               \/ ReceiveRefused \/ FillEof \/ FillRefused \/ Closing \/ Surprised \/ DisposeResponse \/ Disposed
               \/ Replace \/ Rename \/ Finished \/ CleanUp \/ KeptAlive \/ Unwound \/ Reopen \/ GiveUp \/ Serve \/ Drop
        PROVE  DataOK'
    BY <1>0, <1>5 DEF DataOK, Check, SendCall, Opened, Loaded, KeptAlive, Returns, Confirm, Create, SendRequest, Stores,
       ReceiveEof, ReceiveRefused, FillEof, FillRefused, Closing, Surprised, DisposeResponse, Disposed, Replace, Rename,
       Finished, CleanUp, Unwound, Reopen, GiveUp, Serve, Drop, Lost, LocalStep, blockVars
  <1>6. QED
    BY <1>2, <1>3, <1>4, <1>5 DEF Next, Transfer

\* The queue is one of numbers and offsets.
LEMMA RequestsTyped ==
  ASSUME RequestsOK, DownloadTypeOK, Shape
  PROVE  QueueOK'
  <1> DEFINE R == [number : Nat, offset : Nat]
             r == [number |-> NextNumber, offset |-> FTransfered]
  <1>1. FRequests \in Seq(R) /\ r \in R
    BY NumberFacts, SizeFacts DEF DownloadTypeOK
  <1>2. FRequests' \in {FRequests, <<>>} \/ FRequests' = Append(FRequests, r)
          \/ (FRequests # <<>> /\ FRequests' = Tail(FRequests))
    BY ServeFacts DEF Shape, Quiet, SendsCall, SendsRead, SendsClose, Stores, queueVars, TakesCall, TakesRead, Resets
  <1> HIDE DEF R, r
  <1>3. FRequests' \in Seq(R)
    <2>1. CASE FRequests' = Append(FRequests, r)
      BY <1>1, <2>1, AppendFacts
    <2>2. CASE FRequests # <<>> /\ FRequests' = Tail(FRequests)
      BY <1>1, <2>2, TailFacts
    <2>3. CASE FRequests' \in {FRequests, <<>>}
      BY <1>1, <2>3, EmptySeq
    <2>4. QED
      BY <1>2, <2>1, <2>2, <2>3
  <1>4. QED
    BY <1>3 DEF QueueOK, R

\* Where the local files change.
LEMMA LocalChanges ==
  ASSUME Next
  PROVE  UNCHANGED local \/ Check \/ Create \/ Process \/ Replace \/ Rename \/ CleanUp \/ Unwound
  <1>1. ASSUME SendCall \/ Opened \/ Loaded \/ KeptAlive \/ Confirm \/ InitQueue \/ SendRequest \/ Stores \/ Closing
               \/ Surprised \/ DisposeResponse \/ Disposed \/ Finished \/ Reopen \/ GiveUp \/ Serve \/ Drop
        PROVE  UNCHANGED local
    BY <1>1 DEF SendCall, Opened, Loaded, KeptAlive, Returns, Confirm, InitQueue, SendRequest, Stores, Closing,
       Surprised, DisposeResponse, Disposed, Finished, Reopen, GiveUp, Serve, Drop, Lost
  <1>2. ASSUME ReceiveData \/ ReceiveEof \/ ReceiveRefused \/ FillData \/ FillEof \/ FillRefused
        PROVE  UNCHANGED local
    BY <1>2 DEF ReceiveData, ReceiveEof, ReceiveRefused, FillData, FillEof, FillRefused, Receives, Fills
  <1>3. QED
    BY <1>1, <1>2 DEF Next, Transfer

\* The file appended to is one.
LEMMA AppendedTyped ==
  ASSUME DownloadTypeOK, AppendInv, OverwriteMode # "overwrite"
  PROVE  local["dest"] \in Seq(Nat)
  <1>0. LocallyUsed \in Nat /\ OverwriteMode \in {"append", "resume"}
    BY SizeFacts DEF DownloadTypeOK
  <1>1. CASE OverwriteMode = "append"
    <2>1. PICK base \in Seq(Nat) : local["dest"] = base \o Remote(0, LocallyUsed)
      BY <1>1 DEF AppendInv, Appending
    <2>2. Remote(0, LocallyUsed) \in Seq(Nat)
      BY <1>0, RemoteFacts
    <2>3. QED
      BY <2>1, <2>2
  <1>2. CASE OverwriteMode = "resume"
    <2>1. CASE local["dest"] = Remote(0, LocallyUsed)
      BY <1>0, <2>1, RemoteFacts
    <2>2. CASE /\ before # NoFile /\ Len(before) <= LocallyUsed
               /\ local["dest"] = before \o Remote(Len(before), LocallyUsed - Len(before))
      <3>1. before \in Seq(Nat) /\ Len(before) \in Nat
        BY <2>2 DEF DownloadTypeOK
      <3>2. LocallyUsed - Len(before) \in Nat
        BY <1>0, <2>2, <3>1
      <3>3. QED
        BY <2>2, <3>1, <3>2, ContinuedRest
    <2>3. QED
      BY <1>2, <2>1, <2>2 DEF AppendInv, Continuing
  <1>3. QED
    BY <1>0, <1>1, <1>2

\* The file being written, and the one after it.
LEMMA TargetFacts ==
  ASSUME DownloadTypeOK, PlaceInv, ProgressInv, PartialInv, AppendInv, pc = "data"
  PROVE  Target \in {"dest", "partial"} /\ local[Target] \in Seq(Nat) /\ Units \in Seq(Nat)
  <1>1. Target \in {"dest", "partial"}
    BY DEF Target, LocalFileName
  <1>2. Units \in Seq(Nat)
    <2>1. DataPacket.offset \in Nat /\ DataPacket.length \in Nat
      BY SizeFacts
    <2>2. QED
      BY <2>1, RemoteFacts DEF Units
  <1>3. local[Target] # NoFile
    <2>1. CASE OverwriteMode = "overwrite"
      <3>1. local[Target] = Remote(0, LocallyUsed)
        BY <2>1 DEF PartialInv, Writing, Queueing, Target
      <3>2. QED
        BY <3>1, SizeFacts, RemoteFacts
    <2>2. CASE OverwriteMode # "overwrite"
      <3>1. local["dest"] \in Seq(Nat)
        BY <2>2, AppendedTyped
      <3>2. QED
        BY <2>2, <3>1, NoFileAssumption DEF Target
    <2>3. QED
      BY <2>1, <2>2
  <1>4. QED
    BY <1>1, <1>2, <1>3 DEF DownloadTypeOK

\* The local files are files.
LEMMA FilesTyped ==
  ASSUME DownloadTypeOK, PlaceInv, ProgressInv, PartialInv, AppendInv, Next
  PROVE  FilesOK'
  <1>0. /\ FilesOK /\ UNCHANGED before
        /\ local["dest"] \in Seq(Nat) \union {NoFile} /\ local["partial"] \in Seq(Nat) \union {NoFile}
        /\ LocalFileName \in {"dest", "partial"}
    BY TypeParts, StepShape DEF FilesOK, Shape, choiceVars, LocalFileName
  <1>1. ASSUME NEW file \in {"dest", "partial"}, NEW contents \in Seq(Nat) \union {NoFile},
               local' = [local EXCEPT ![file] = contents]
        PROVE  FilesOK'
    BY <1>0, <1>1 DEF FilesOK
  <1>2. CASE UNCHANGED local
    BY <1>0, <1>2 DEF FilesOK
  <1>3. CASE Check
    BY <1>1, <1>2, <1>3 DEF Check
  <1>4. CASE Create
    <2>1. <<>> \in Seq(Nat)
      OBVIOUS
    <2>2. QED
      BY <1>0, <1>1, <1>2, <1>4, <2>1 DEF Create
  <1>5. CASE Process
    <2>1. /\ Target \in {"dest", "partial"} /\ local[Target] \in Seq(Nat) /\ Units \in Seq(Nat)
          /\ local' \in {local, [local EXCEPT ![Target] = local[Target] \o Units]}
      BY <1>5, TargetFacts DEF Process
    <2>2. local[Target] \o Units \in Seq(Nat)
      BY <2>1
    <2>3. QED
      BY <1>1, <1>2, <2>1, <2>2
  <1>6. CASE Replace
    BY <1>1, <1>2, <1>6 DEF Replace
  <1>7. CASE Rename
    <2>1. CASE local' = [dest |-> local["partial"], partial |-> NoFile]
      BY <1>0, <2>1 DEF FilesOK
    <2>2. QED
      BY <1>2, <1>7, <2>1 DEF Rename
  <1>8. CASE CleanUp \/ Unwound
    BY <1>0, <1>1, <1>2, <1>8 DEF CleanUp, Unwound, LocalAfterwards
  <1>9. QED
    BY <1>2, <1>3, <1>4, <1>5, <1>6, <1>7, <1>8, LocalChanges

\* All of the types.
LEMMA TypeStep ==
  ASSUME RequestsOK, ResponsesOK, DownloadTypeOK, PlaceInv, QueueInv, ProgressInv, PartialInv, AppendInv, Next
  PROVE  DownloadTypeOK'
  <1>1. (FlagsOK /\ SizesOK /\ DataOK /\ QueueOK /\ FilesOK)'
    BY StepShape, FlagsStep, SizesStep, DataStep, RequestsTyped, FilesTyped
  <1>2. QED
    BY <1>1 DEF DownloadTypeOK, FlagsOK, SizesOK, DataOK, QueueOK, FilesOK

----------------------------------------------------------------------------
(* Where the function is                                                   *)

\* Every step goes from one place of the function to the next.
LEMMA PlaceStep ==
  ASSUME RequestsOK, DownloadTypeOK, PlaceInv, QueueInv, Next
  PROVE  PlaceInv'
  <1> USE DEF Preparing, Queueing, Completing
  <1> USE CallFacts DEF PlaceInv, Goes, Fails, ResumeAllowed, choiceVars, attemptVars, queueVars
  <1>1. CASE Check \/ Confirm
    BY <1>1 DEF Check, Confirm
  <1>2. CASE Create \/ InitQueue
    BY <1>2 DEF Create, InitQueue
  <1>3. CASE Process
    BY <1>3 DEF Process, Continues
  <1>4. CASE Surprised \/ Disposed
    BY <1>4 DEF Surprised, Disposed
  <1>5. CASE Replace \/ Rename \/ Finished
    BY <1>5 DEF Replace, Rename, Finished, LocalStep
  <1>6. CASE CleanUp \/ Unwound \/ GiveUp
    BY <1>6 DEF CleanUp, Unwound, GiveUp
  <1>7. CASE Reopen
    BY <1>7 DEF Reopen
  <1>8. CASE SendCall \/ Stores \/ Serve
    BY <1>8 DEF SendCall, Stores, Serve
  <1>9. CASE Opened \/ Loaded \/ KeptAlive
    BY <1>9 DEF Opened, Loaded, KeptAlive, Returns
  <1>10. CASE SendRequest
    BY <1>10 DEF SendRequest
  <1>11. CASE ReceiveData \/ ReceiveEof \/ ReceiveRefused
    BY <1>11 DEF ReceiveData, ReceiveEof, ReceiveRefused, Receives
  <1>12. CASE FillData \/ FillEof \/ FillRefused
    BY <1>12 DEF FillData, FillEof, FillRefused, Fills
  <1>13. CASE Closing
    BY <1>13 DEF Closing
  <1>14. CASE DisposeResponse
    BY <1>14 DEF DisposeResponse
  <1>15. CASE Drop
    BY <1>15 DEF Drop, Lost, UsesConnection
  <1>16. QED
    BY <1>1, <1>2, <1>3, <1>4, <1>5, <1>6, <1>7, <1>8, <1>9, <1>10, <1>11, <1>12, <1>13, <1>14, <1>15
    DEF Next, Transfer

----------------------------------------------------------------------------
(* The offsets                                                             *)

\* The request sent is for the block behind those that have been asked for.
LEMMA SentBehind ==
  ASSUME RequestsOK, DownloadTypeOK, Consecutive, SendsRead, FTransfered' = FTransfered + BlockSize
  PROVE  Consecutive' /\ NextOffset' = NextOffset
  <1> DEFINE n == Len(FRequests)
             next == FRequests'[n + 1]
  <1>1. /\ n \in Nat /\ Len(FRequests') = n + 1
        /\ \A k \in 1..n : FRequests'[k] = FRequests[k]
        /\ next.offset = FTransfered
    BY QueueFacts
  <1>2. FRequests' # <<>> /\ (FRequests = <<>> <=> n = 0)
    BY <1>1 DEF DownloadTypeOK
  <1>3. \A k \in 1..n : FRequests'[k + 1].offset = FRequests'[k].offset + BlockSize
    <2> SUFFICES ASSUME NEW k \in 1..n PROVE FRequests'[k + 1].offset = FRequests'[k].offset + BlockSize
      OBVIOUS
    <2>1. CASE k = n
      BY <1>1, <1>2, <2>1 DEF Consecutive
    <2>2. CASE k # n
      <3>1. k \in 1..(n - 1) /\ k + 1 \in 1..n
        BY <1>1, <2>2
      <3>2. QED
        BY <1>1, <3>1 DEF Consecutive
    <2>3. QED
      BY <2>1, <2>2
  <1>4. NextOffset' = NextOffset
    <2>1. CASE n = 0
      BY <1>1, <1>2, <2>1 DEF NextOffset
    <2>2. CASE n # 0
      <3>1. 1 \in 1..n
        BY <1>1, <2>2
      <3>2. QED
        BY <1>1, <1>2, <2>2, <3>1 DEF NextOffset
    <2>3. QED
      BY <2>1, <2>2
  <1>5. QED
    BY <1>1, <1>2, <1>3, <1>4 DEF Consecutive

\* The request behind the one that has been answered is for the next block.
LEMMA TakenFirst ==
  ASSUME RequestsOK, DownloadTypeOK, Consecutive, TakesRead, UNCHANGED FTransfered
  PROVE  /\ Consecutive' /\ NextOffset' = NextOffset + BlockSize
         /\ NextOffset = FRequests[1].offset /\ Head(FRequests) = FRequests[1]
  <1> DEFINE n == Len(FRequests)
  <1>1. /\ n \in Nat \ {0} /\ Len(FRequests') = n - 1
        /\ \A k \in 1..(n - 1) : FRequests'[k] = FRequests[k + 1]
    BY QueueFacts
  <1>2. FRequests # <<>> /\ Head(FRequests) = FRequests[1] /\ (FRequests' = <<>> <=> n - 1 = 0)
    <2> DEFINE R == [number : Nat, offset : Nat]
    <2>1. FRequests # <<>> /\ Head(FRequests) = FRequests[1] /\ FRequests' \in Seq(R)
      BY RequestFacts DEF TakesRead
    <2> HIDE DEF R
    <2>2. FRequests' = <<>> <=> Len(FRequests') = 0
      BY <2>1, EmptySeq
    <2>3. QED
      BY <1>1, <2>1, <2>2
  <1>3. \A k \in 1..(n - 2) : FRequests'[k + 1].offset = FRequests'[k].offset + BlockSize
    <2> TAKE k \in 1..(n - 2)
    <2>1. k \in 1..(n - 1) /\ k + 1 \in 1..(n - 1)
      BY <1>1
    <2>2. FRequests'[k] = FRequests[k + 1] /\ FRequests'[k + 1] = FRequests[(k + 1) + 1]
      BY <1>1, <2>1
    <2>3. QED
      BY <2>1, <2>2 DEF Consecutive
  <1>4. CASE n = 1
    BY <1>1, <1>2, <1>4 DEF Consecutive, NextOffset
  <1>5. CASE n # 1
    <2>1. n - 1 \in 1..(n - 1) /\ 1 \in 1..(n - 1)
      BY <1>1, <1>5
    <2>2. FRequests'[n - 1] = FRequests[n] /\ FRequests'[1] = FRequests[2]
      BY <1>1, <2>1
    <2>3. FRequests[2].offset = FRequests[1].offset + BlockSize
      BY <2>1 DEF Consecutive
    <2>4. Len(FRequests') - 1 = n - 2
      BY <1>1
    <2>5. QED
      BY <1>1, <1>2, <1>3, <1>5, <2>2, <2>3, <2>4 DEF Consecutive, NextOffset
  <1>6. QED
    BY <1>4, <1>5

\* A response with data has some of what was asked for.
LEMMA DataFacts ==
  ASSUME DownloadTypeOK, NEW offset \in Nat, NEW size \in Nat \ {0}, Data(offset, size)
  PROVE  /\ DataPacket'.offset = offset /\ DataPacket'.length \in 1..size /\ InHand'
         /\ offset + DataPacket'.length <= RealSize
         /\ DataPacket'.last => offset + DataPacket'.length = RealSize
  <1>1. PICK length \in 1..Least(size, RealSize - offset), last \in BOOLEAN :
          /\ last => offset + length = RealSize
          /\ DataPacket' = [offset |-> offset, length |-> length, last |-> last]
    BY DEF Data
  <1>2. RealSize \in Nat
    BY SizeFacts
  <1>3. length \in 1..size /\ offset + length <= RealSize
    BY <1>2 DEF Least
  <1>4. QED
    BY <1>1, <1>3 DEF InHand

\* The block being processed: where it belongs, and what is missing after it.
LEMMA ProcessFacts ==
  ASSUME DownloadTypeOK, QueueInv, ProgressInv, Process
  PROVE  /\ DataPacket.offset = TransferedSize /\ DataPacket.length \in 1..BlockSize
         /\ TransferedSize' = TransferedSize + DataPacket.length
         /\ TransferedSize' <= RealSize /\ TransferSize' = Most(ListedSize, TransferedSize')
         /\ DataPacket.last => TransferedSize' = RealSize
         /\ Missing' \in 0..BlockSize /\ (PrevIncomplete' => Missing' = 0 /\ TransferedSize' = ListedSize)
         /\ ~PrevIncomplete' => NextOffset = TransferedSize' + Missing'
         /\ ~InHand'
  <1> DEFINE length == DataPacket.length
  <1>0. Queueing /\ StageInv /\ HandInv /\ NoHole /\ InHand /\ pc = "data" /\ ~TooEarly
    BY DEF Process, Queueing, QueueInv, StageInv
  <1>1. ~PrevIncomplete
    BY <1>0, SizeFacts DEF TooEarly, FillsGap, StageInv
  <1>2. DataPacket.offset = TransferedSize /\ length \in 1..BlockSize
    BY <1>0, <1>1, SizeFacts DEF NoHole, InHand
  <1>3. TransferSize = Most(ListedSize, TransferedSize)
    BY <1>0 DEF ProgressInv
  <1>4. /\ TransferedSize' = TransferedSize + length /\ TransferSize' = Most(TransferSize, TransferedSize + length)
        /\ Missing' = MissingAfter(length) /\ (PrevIncomplete' <=> Incomplete(length))
        /\ DataPacket' = NoData
    BY DEF Process
  <1>5. TransferedSize + length <= RealSize /\ (DataPacket.last => TransferedSize + length = RealSize)
        /\ (Missing > 0 => length <= Missing) /\ Missing <= BlockSize
    BY <1>0, <1>2 DEF HandInv, StageInv
  <1>6. NextOffset = TransferedSize + (IF Missing = 0 THEN BlockSize ELSE Missing)
    BY <1>0, <1>1 DEF NoHole
  <1> HIDE DEF length
  <1>7. /\ Missing \in Nat /\ BlockSize \in Nat /\ TransferedSize \in Nat /\ ListedSize \in Nat
        /\ RealSize \in Nat
    BY SizeFacts
  <1>8. ~InHand'
    BY <1>4 DEF InHand, NoData
  <1>9. Missing' \in 0..BlockSize /\ (PrevIncomplete' => Missing' = 0)
    BY <1>2, <1>4, <1>5, <1>7 DEF MissingAfter, Gap, FillsGap, Incomplete
  <1>10. PrevIncomplete' => TransferedSize' = ListedSize
    BY <1>2, <1>3, <1>4, <1>7 DEF Incomplete, Most
  <1>11. ~PrevIncomplete' => NextOffset = TransferedSize' + Missing'
    BY <1>2, <1>4, <1>5, <1>6, <1>7 DEF MissingAfter, Gap, FillsGap, Incomplete
  <1>12. TransferSize' = Most(ListedSize, TransferedSize')
    BY <1>2, <1>3, <1>4, <1>7 DEF Most
  <1>13. QED
    BY <1>2, <1>4, <1>5, <1>8, <1>9, <1>10, <1>11, <1>12 DEF length

\* Taking a response in turn.
LEMMA ReceivesRead ==
  ASSUME NEW answer, Receives(answer)
  PROVE  /\ pc = "reading" /\ TakesRead /\ Awaited = Head(FRequests).number /\ UNCHANGED FTransfered
         /\ UNCHANGED <<TransferedSize, Missing, PrevIncomplete, ListedSize, RealSize>>
  BY DEF Receives, TakesRead, Awaited, progressVars, choiceVars

\* Requests, gaps and data in hand follow each other.
LEMMA QueueStep ==
  ASSUME RequestsOK, DownloadTypeOK, PlaceInv, QueueInv, ProgressInv, Next
  PROVE  QueueInv'
  <1> USE DEF Queueing
  <1>1. ASSUME Check \/ Confirm \/ Create \/ Surprised \/ Disposed \/ Replace \/ Rename \/ Finished \/ CleanUp
               \/ Unwound \/ Reopen \/ GiveUp \/ Closing \/ DisposeResponse
        PROVE  ~Queueing'
    BY <1>1 DEF Check, Confirm, Create, Surprised, Disposed, Replace, Rename, Finished, CleanUp, Unwound, Reopen,
       GiveUp, Closing, DisposeResponse, Goes, Fails
  <1>2. ASSUME Opened \/ Loaded \/ KeptAlive \/ ReceiveRefused \/ FillRefused \/ Drop
        PROVE  ~Queueing'
    BY <1>2 DEF Opened, Loaded, KeptAlive, ReceiveRefused, FillRefused, Drop, Lost, Goes, Fails
  <1>3. CASE SendCall \/ Stores \/ Serve
    BY <1>3 DEF SendCall, Stores, Serve, choiceVars, progressVars, blockVars, queueVars, QueueInv, Consecutive, StageInv,
       HandInv, NoHole, NextOffset, InHand
  <1>4. CASE InitQueue
    <2>1. FRequests = <<>> /\ FRequests' = <<>> /\ FTransfered' = TransferedSize /\ Missing' = 0
          /\ PrevIncomplete' = FALSE /\ ~InHand' /\ pc' = "sending" /\ FMissedRequests' = QueueLen
          /\ UNCHANGED TransferedSize
      BY <1>4 DEF InitQueue, PlaceInv, Goes, InHand, NoData, progressVars
    <2>2. Consecutive'
      BY <2>1 DEF Consecutive
    <2>3. StageInv' /\ HandInv' /\ NoHole'
      BY <2>1, SizeFacts DEF StageInv, HandInv, NoHole, NextOffset
    <2>4. QED
      BY <2>2, <2>3 DEF QueueInv
  <1>5. CASE SendRequest
    <2>1. pc = "sending" /\ Consecutive /\ StageInv /\ HandInv /\ NoHole
      BY <1>5 DEF SendRequest, QueueInv
    <2>2. SendsRead /\ FTransfered' = FTransfered + BlockSize /\ FMissedRequests' = FMissedRequests - 1
          /\ UNCHANGED <<Missing, PrevIncomplete, DataPacket, TransferedSize, RealSize, ListedSize>>
      BY <1>5 DEF SendRequest, SendsRead, choiceVars, progressVars, blockVars
    <2>3. Consecutive' /\ NextOffset' = NextOffset
      BY <2>1, <2>2, SentBehind
    <2>4. HandInv' /\ NoHole'
      BY <2>1, <2>2, <2>3 DEF StageInv, HandInv, NoHole, InHand
    <2>5. /\ pc' \in {"sending", "data", "reading"} /\ FMissedRequests \in Nat
          /\ pc' = "sending" => FMissedRequests > 1
          /\ pc' = "data" => InHand
          /\ pc' = "reading" => ~InHand
      BY <1>5, SizeFacts DEF SendRequest, Goes, InHand
    <2>6. StageInv'
      BY <2>1, <2>2, <2>5 DEF StageInv, InHand
    <2>7. QED
      BY <2>3, <2>4, <2>6 DEF QueueInv
  <1>6. CASE ReceiveData
    <2>1. /\ pc = "reading" /\ TakesRead /\ UNCHANGED FTransfered
          /\ UNCHANGED <<TransferedSize, Missing, PrevIncomplete, ListedSize, RealSize>>
      BY <1>6, ReceivesRead DEF ReceiveData
    <2>2. Consecutive /\ StageInv /\ NoHole
      BY <2>1 DEF QueueInv
    <2>3. /\ Consecutive' /\ NextOffset' = NextOffset + BlockSize
          /\ NextOffset = FRequests[1].offset /\ Head(FRequests) = FRequests[1]
      BY <2>1, <2>2, TakenFirst
    <2>4. NextOffset \in Nat /\ Data(NextOffset, BlockSize) /\ FMissedRequests' = FMissedRequests + 1
          /\ pc' = "sending"
      <3>1. FRequests[1].offset \in Nat
        BY <2>1, RequestFacts DEF TakesRead
      <3>2. QED
        BY <1>6, <2>3, <3>1, SizeFacts DEF ReceiveData, MissedAfterData, Goes
    <2>5. /\ DataPacket'.offset = NextOffset /\ InHand'
          /\ NextOffset + DataPacket'.length <= RealSize
          /\ DataPacket'.last => NextOffset + DataPacket'.length = RealSize
      BY <2>4, DataFacts, SizeFacts
    <2>6. StageInv' /\ HandInv'
      BY <2>1, <2>2, <2>4, <2>5, SizeFacts DEF StageInv, HandInv
    <2>7. NoHole'
      BY <2>1, <2>2, <2>3, <2>5, SizeFacts DEF StageInv, NoHole
    <2>8. QED
      BY <2>3, <2>6, <2>7 DEF QueueInv
  <1>7. CASE ReceiveEof
    <2>1. /\ pc = "reading" /\ TakesRead /\ UNCHANGED FTransfered
          /\ UNCHANGED <<TransferedSize, Missing, PrevIncomplete, ListedSize, RealSize>>
      BY <1>7, ReceivesRead DEF ReceiveEof
    <2>2. UNCHANGED DataPacket /\ pc' = "closing"
      BY <1>7 DEF ReceiveEof, Goes
    <2>3. Consecutive'
      BY <2>1, TakenFirst DEF QueueInv
    <2>4. QED
      BY <2>1, <2>2, <2>3 DEF QueueInv, StageInv, HandInv, NoHole, InHand
  <1>8. CASE FillData
    <2>1. pc = "fill" /\ pc' = "data" /\ Data(TransferedSize, Missing)
          /\ UNCHANGED <<FRequests, FTransfered, Missing, PrevIncomplete, TransferedSize, ListedSize, RealSize>>
      BY <1>8 DEF FillData, Fills, Goes, choiceVars, progressVars, queueVars
    <2>2. Consecutive /\ StageInv /\ NoHole
      BY <2>1 DEF QueueInv
    <2>3. Consecutive' /\ NextOffset' = NextOffset
      BY <2>1, <2>2 DEF Consecutive, NextOffset
    <2>4. Missing \in Nat \ {0} /\ TransferedSize \in Nat
      BY <2>1, <2>2, SizeFacts DEF StageInv
    <2>5. /\ DataPacket'.offset = TransferedSize /\ DataPacket'.length \in 1..Missing /\ InHand'
          /\ TransferedSize + DataPacket'.length <= RealSize
          /\ DataPacket'.last => TransferedSize + DataPacket'.length = RealSize
      BY <2>1, <2>4, DataFacts
    <2>6. StageInv' /\ HandInv'
      BY <2>1, <2>2, <2>4, <2>5 DEF StageInv, HandInv
    <2>7. NoHole'
      BY <2>1, <2>2, <2>3, <2>4, <2>5 DEF StageInv, NoHole
    <2>8. QED
      BY <2>3, <2>6, <2>7 DEF QueueInv
  <1>9. CASE FillEof
    BY <1>9 DEF FillEof, Fills, Goes, choiceVars, progressVars, queueVars, QueueInv, Consecutive, StageInv, HandInv,
       NoHole, InHand
  <1>10. CASE Process
    <2>1. pc = "data" /\ Consecutive /\ pc' \in {"dispose", "fill", "reading"} /\ UNCHANGED <<FRequests, FTransfered>>
          /\ (pc' = "fill" => Missing' > 0) /\ (pc' = "reading" => ~(Missing' > 0))
      BY <1>10 DEF Process, QueueInv, Continues, Goes, Fails, queueVars
    <2>2. Consecutive' /\ NextOffset' = NextOffset
      BY <2>1 DEF Consecutive, NextOffset
    <2>3. /\ Missing' \in 0..BlockSize /\ (PrevIncomplete' => Missing' = 0 /\ TransferedSize' = ListedSize)
          /\ ~PrevIncomplete' => NextOffset = TransferedSize' + Missing'
          /\ ~InHand' /\ UNCHANGED ListedSize
      BY <1>10, ProcessFacts DEF Process, choiceVars
    <2>4. BlockSize \in Nat
      BY SizeFacts
    <2>5. StageInv' /\ HandInv' /\ (pc' # "dispose" => NoHole')
      BY <2>1, <2>2, <2>3, <2>4 DEF StageInv, HandInv, NoHole
    <2>6. QED
      BY <2>2, <2>5 DEF QueueInv
  <1>11. QED
    BY <1>1, <1>2, <1>3, <1>4, <1>5, <1>6, <1>7, <1>8, <1>9, <1>10 DEF Next, Transfer, QueueInv

----------------------------------------------------------------------------
(* How far the transfer is                                                 *)

\* The end of the file is answered behind it.
LEMMA EndAnswered ==
  ASSUME NEW number, NEW offset, ReadAt(number, offset), NEW p \in Acceptable(number), p.number = number,
         p.kind = "eof"
  PROVE  offset >= RealSize
  <1>1. p \in incoming \/ \E s \in stored : s.response = p
    BY DEF Acceptable, Stored, Arriving
  <1>2. QED
    BY <1>1 DEF ReadAt

\* The transfer is closed at the end of the file, or of the listing.
LEMMA EndFacts ==
  ASSUME RequestsOK, ResponsesOK, NumbersOK, DownloadTypeOK, PlaceInv, DueInv, ReadInv, QueueInv, ProgressInv,
         ReceiveEof \/ FillEof
  PROVE  TransferedSize \in {RealSize, ListedSize} /\ UNCHANGED <<choiceVars, progressVars>>
  <1>0. TransferedSize \in Nat /\ RealSize \in Nat
    BY SizeFacts
  <1>1. CASE ReceiveEof
    <2>1. pc = "reading" /\ TakesRead /\ Awaited = Head(FRequests).number /\ UNCHANGED <<FTransfered, choiceVars, progressVars>>
      BY <1>1, ReceivesRead DEF ReceiveEof, Receives
    <2>2. Consecutive /\ StageInv /\ NoHole /\ TransferedSize <= RealSize
      BY <2>1 DEF QueueInv, ProgressInv, Queueing
    <2>3. NextOffset = FRequests[1].offset /\ Head(FRequests) = FRequests[1]
      BY <2>1, <2>2, TakenFirst
    <2>4. FRequests[1] \in Elements(FRequests)
      BY <2>1, RequestFacts DEF TakesRead
    <2>5. FRequests[1].number \in Nat \ {NULL} /\ call = NULL
      BY <2>1, <2>4, NumberFacts, CallFacts DEF DueInv, NULL, PlaceInv
    <2>6. PICK p \in Acceptable(FRequests[1].number) : p.kind = "eof"
      BY <1>1, <2>1, <2>3 DEF ReceiveEof, Receives, Verdict
    <2>7. p.number = FRequests[1].number
      BY <2>5, <2>6, OwnResponse DEF DueInv, NumbersOK, NULL
    <2>8. FRequests[1].offset >= RealSize
      BY <2>4, <2>6, <2>7, EndAnswered DEF ReadInv
    <2>9. ~PrevIncomplete => TransferedSize >= RealSize
      BY <1>0, <2>1, <2>2, <2>3, <2>8 DEF StageInv, NoHole
    <2>10. QED
      BY <1>0, <2>1, <2>2, <2>9 DEF NoHole
  <1>2. CASE FillEof
    <2>1. pc = "fill" /\ call # NULL /\ UNCHANGED <<choiceVars, progressVars>>
      BY <1>2 DEF FillEof, Fills
    <2>2. PICK p \in Acceptable(call) : p.kind = "eof"
      BY <1>2 DEF FillEof, Fills, Verdict
    <2>3. call \in Nat \ {NULL}
      BY <2>1, SizeFacts
    <2>4. p.number = call
      BY <2>2, <2>3, OwnResponse DEF DueInv
    <2>5. TransferedSize >= RealSize
      BY <2>1, <2>2, <2>4, EndAnswered DEF ReadInv
    <2>6. TransferedSize <= RealSize
      BY <2>1 DEF ProgressInv, Queueing
    <2>7. QED
      BY <1>0, <2>1, <2>5, <2>6
  <1>3. QED
    BY <1>1, <1>2

\* The file the user, or a parameter, has appended to or continued.
LEMMA ConfirmFacts ==
  ASSUME DownloadTypeOK, PlaceInv, ProgressInv, PartialInv, AppendInv, DestInv, Confirm, OverwriteMode' # "overwrite"
  PROVE  /\ local["dest"] \in Seq(Nat) /\ LocallyUsed = 0 /\ LocallyUsed = TransferedSize
         /\ \/ /\ OverwriteMode' = "append" /\ UNCHANGED progressVars /\ Grown(local["dest"])
               /\ drops = 0 \/ Params # "cpAppend" => local["dest"] = before
               /\ Params = "cpResume" => Len(local["dest"]) >= ListedSize
            \/ /\ OverwriteMode' = "resume" /\ Begins(Len(local["dest"]))
               /\ Params # "cpAppend" /\ Resumed(local["dest"])
  <1> DEFINE dest == local["dest"]
  <1>0. /\ OverwriteMode = "overwrite" /\ pc = "confirm" /\ DestFileExists /\ ~ResumeTransfer
        /\ \/ OverwriteMode' = "append" /\ UNCHANGED progressVars /\ Answer("append")
           \/ OverwriteMode' = "resume" /\ Begins(Len(dest)) /\ Answer("resume")
    BY DEF Confirm, PlaceInv, Preparing
  <1>1. dest # NoFile /\ dest \in Seq(Nat) /\ Len(dest) \in Nat
    <2>1. dest # NoFile
      BY <1>0 DEF AppendInv
    <2>2. dest \in Seq(Nat) \union {NoFile}
      BY DEF DownloadTypeOK
    <2>3. QED
      BY <2>1, <2>2
  <1>2. TransferedSize = 0 /\ LocallyUsed = 0 /\ TransferSize = ListedSize
    BY <1>0, SizeFacts DEF PartialInv, ProgressInv, Most
  <1>3. Sound(dest)
    BY <1>0, <1>1 DEF DestInv, Intact, Writing, Queueing
  <1>4. drops = 0 => dest = before
    BY <1>0 DEF AppendInv, Preparing
  <1>5. CanAlternateResume <=> Len(dest) < ListedSize
    BY <1>1, <1>2 DEF CanAlternateResume
  <1>6. CASE BatchOverwrite = "ask"
    <2>1. ~cpNoConfirmation /\ Params # "cpAppend" /\ (Params = "cpResume" => ~CanAlternateResume)
      BY <1>6 DEF BatchOverwrite, EffectiveBatchOverwrite
    <2>2. dest = before /\ before = <<0>>
      BY <1>0, <1>1, <2>1 DEF AppendInv, Preparing
    <2>3. before \in Seq(Nat) /\ Len(before) = 1
      BY <2>2
    <2>4. Grown(dest)
      BY <2>2, <2>3, AppendedItself DEF Grown
    <2>5. Resumed(dest)
      <3>1. Remote(1, 0) = <<>>
        BY RemoteFacts
      <3>2. dest = before \o Remote(Len(before), Len(dest) - Len(before))
        BY <2>2, <2>3, <3>1
      <3>3. QED
        BY <1>1, <2>2, <2>3, <3>2, SizeFacts DEF Resumed
    <2>6. QED
      BY <1>0, <1>1, <1>2, <1>5, <2>1, <2>2, <2>4, <2>5, SizeFacts
  <1>7. CASE BatchOverwrite # "ask"
    <2>1. OverwriteMode' = BatchOverwrite
      BY <1>0, <1>7 DEF Answer
    <2>2. CASE OverwriteMode' = "append"
      <3>1. Params = "cpAppend"
        BY <2>1, <2>2 DEF BatchOverwrite, EffectiveBatchOverwrite
      <3>2. QED
        BY <1>0, <1>1, <1>2, <1>3, <1>4, <2>2, <3>1 DEF Sound
    <2>3. CASE OverwriteMode' = "resume"
      <3>1. Params = "cpResume" /\ CanAlternateResume
        BY <2>1, <2>3 DEF BatchOverwrite, EffectiveBatchOverwrite
      <3>2. Resumed(dest)
        BY <1>1, <1>3, <1>5, <3>1, SizeFacts DEF Sound
      <3>3. QED
        BY <1>0, <1>1, <1>2, <2>3, <3>1, <3>2
    <2>4. QED
      BY <1>0, <2>2, <2>3
  <1>8. QED
    BY <1>6, <1>7

\* What may be continued is not longer than the remote file.
LEMMA ResumedSize ==
  ASSUME DownloadTypeOK, NEW contents \in Seq(Nat), Resumed(contents)
  PROVE  Len(contents) <= RealSize
  <1>1. CASE contents = Remote(0, RealSize)
    BY <1>1, RemoteFacts, SizeFacts
  <1>2. QED
    BY <1>1 DEF Resumed

\* The transfer does not get behind the end of the file.
LEMMA ProgressStep ==
  ASSUME RequestsOK, ResponsesOK, NumbersOK, DownloadTypeOK, PlaceInv, DueInv, ReadInv, QueueInv, ProgressInv,
         PartialInv, AppendInv, DestInv, Next
  PROVE  ProgressInv'
  <1> USE DEF Preparing, Queueing, Completing
  <1>0. UNCHANGED choiceVars
    BY StepShape DEF Shape
  <1>1. CASE Check
    <2>1. PICK resumed \in Nat : Begins(resumed) /\ resumed <= RealSize
      <3>1. CASE Resumable /\ local["partial"] # NoFile
        <4>1. PICK k \in 0..RealSize : local["partial"] = Remote(0, k)
          BY <3>1 DEF PartialInv
        <4>2. k \in Nat /\ Len(local["partial"]) = k
          BY <4>1, RemoteFacts, SizeFacts
        <4>3. 0 \in Nat /\ 0 <= RealSize
          BY SizeFacts
        <4>4. Begins(0) \/ Begins(k)
          BY <1>1, <3>1, <4>2 DEF Check
        <4>5. QED
          BY <4>1, <4>2, <4>3, <4>4
      <3>2. CASE ~(Resumable /\ local["partial"] # NoFile)
        <4>1. Begins(0) /\ 0 <= RealSize
          BY <1>1, <3>2, SizeFacts DEF Check
        <4>2. QED
          BY <4>1
      <3>3. QED
        BY <3>1, <3>2
    <2>2. pc' \in {"open", "cleanup"} /\ (pc' = "cleanup" => error') /\ UNCHANGED result
      BY <1>1 DEF Check, Goes, Fails
    <2>3. result # "done"
      BY <1>1 DEF PlaceInv, Check
    <2>4. QED
      BY <1>0, <2>1, <2>2, <2>3 DEF ProgressInv, Begins, choiceVars
  <1>2. CASE Confirm
    <2>0. result # "done" /\ pc' \in {"init", "create", "cleanup"} /\ (pc' = "cleanup" => error') /\ UNCHANGED result
          /\ (pc' # "cleanup" => ~error')
      BY <1>2 DEF PlaceInv, Confirm, Goes, Fails
    <2>1. CASE UNCHANGED progressVars
      BY <1>0, <1>2, <2>0, <2>1 DEF Confirm, ProgressInv, progressVars, choiceVars
    <2>2. CASE OverwriteMode' # "overwrite" /\ Begins(Len(local["dest"])) /\ ~UNCHANGED progressVars
      <3>1. local["dest"] \in Seq(Nat) /\ Resumed(local["dest"])
        BY <1>2, <2>2, ConfirmFacts
      <3>2. Len(local["dest"]) <= RealSize /\ Len(local["dest"]) \in Nat
        BY <3>1, ResumedSize
      <3>3. QED
        BY <1>0, <2>0, <2>2, <3>2, SizeFacts DEF Begins, ProgressInv, choiceVars
    <2>3. QED
      BY <1>2, <2>1, <2>2 DEF Confirm
  <1>3. CASE Process
    <2>1. /\ TransferedSize' <= RealSize /\ TransferSize' = Most(ListedSize, TransferedSize')
          /\ DataPacket.last => TransferedSize' = RealSize
      BY <1>3, ProcessFacts
    <2>2. /\ pc' \in {"dispose", "fill", "reading"}
          /\ ~error' => /\ LocallyUsed' = LocallyUsed + DataPacket.length
                        /\ pc' = "dispose" => DataPacket.last
          /\ pc' # "dispose" => ~error'
          /\ TransferedSize' = TransferedSize + DataPacket.length
          /\ LocallyUsed = TransferedSize /\ result # "done" /\ UNCHANGED result
      BY <1>3 DEF Process, Goes, Fails, Continues, Last, PlaceInv, ProgressInv
    <2>3. QED
      BY <1>0, <2>1, <2>2 DEF ProgressInv, choiceVars
  <1>4. CASE ReceiveEof \/ FillEof
    <2>1. TransferedSize \in {RealSize, ListedSize} /\ UNCHANGED <<choiceVars, progressVars>>
      BY <1>4, EndFacts
    <2>2. pc \in {"reading", "fill"} /\ pc' = "closing" /\ UNCHANGED result /\ result # "done"
      BY <1>4 DEF ReceiveEof, Receives, FillEof, Fills, Goes, PlaceInv
    <2>3. QED
      BY <2>1, <2>2 DEF ProgressInv, choiceVars, progressVars
  <1>5. ASSUME UNCHANGED <<progressVars, result>>,
               pc' \in {"open", "fstat", "confirm", "create", "init"} \/ Queueing' =>
                 pc \in {"open", "fstat", "confirm", "create", "init"} \/ Queueing,
               pc' = "closing" \/ (pc' = "dispose" /\ ~error') => pc = "closing" \/ (pc = "dispose" /\ ~error),
               Completing' \/ (pc' = "cleanup" /\ ~error') =>
                 Completing \/ (pc = "cleanup" /\ ~error) \/ (pc = "dispose" /\ ~error)
        PROVE  ProgressInv'
    BY <1>0, <1>5 DEF ProgressInv, progressVars, choiceVars
  <1>6. CASE Create \/ InitQueue \/ SendRequest \/ Surprised \/ Closing
    BY <1>5, <1>6 DEF Create, InitQueue, SendRequest, Surprised, Closing, Goes, Fails
  <1>7. CASE SendCall \/ Stores \/ Serve
    BY <1>5, <1>7 DEF SendCall, Stores, Serve
  <1>8. CASE Opened \/ Loaded \/ KeptAlive
    BY <1>5, <1>8 DEF Opened, Loaded, KeptAlive, Returns, Goes, Fails
  <1>9. CASE ReceiveData \/ ReceiveRefused \/ FillData \/ FillRefused
    BY <1>5, <1>9 DEF ReceiveData, ReceiveRefused, Receives, FillData, FillRefused, Fills, Goes, Fails
  <1>10. CASE DisposeResponse \/ Disposed
    BY <1>5, <1>10 DEF DisposeResponse, Disposed, Goes
  <1>11. CASE Replace \/ Rename \/ Finished
    BY <1>5, <1>11 DEF Replace, Rename, Finished, LocalStep, Goes, Fails
  <1>12. CASE Unwound \/ Drop
    BY <1>5, <1>12 DEF Unwound, Drop, Lost
  <1>13. CASE CleanUp
    BY <1>0, <1>13 DEF CleanUp, Goes, ProgressInv, progressVars, choiceVars
  <1>14. CASE Reopen
    <2>1. result # "done"
      BY <1>14 DEF Reopen, PlaceInv
    <2>2. QED
      BY <1>14, <2>1 DEF Reopen, ProgressInv
  <1>15. CASE GiveUp
    BY <1>15 DEF GiveUp, ProgressInv
  <1>16. QED
    BY <1>1, <1>2, <1>3, <1>4, <1>6, <1>7, <1>8, <1>9, <1>10, <1>11, <1>12, <1>13, <1>14, <1>15 DEF Next, Transfer

----------------------------------------------------------------------------
(* The local files                                                         *)

\* Steps that leave the files, and what is known of them, alone.
Keeps ==
  /\ UNCHANGED <<local, choiceVars, attemptVars, progressVars>> /\ result' \in {result, "failed"}
  /\ pc' \in {"open", "fstat", "confirm"} => pc \in {"open", "fstat", "confirm"}
  /\ Preparing' => Preparing /\ (pc' = "create" => pc = "create")
  /\ Writing' => Writing
  /\ Writing \/ pc = "finished" => Writing' \/ pc' = "finished" \/ pc = "finished"
  /\ pc' = "finished" => pc = "finished" \/ (pc = "dispose" /\ ~error /\ ~ResumeAllowed)
  /\ pc' = "cleanup" /\ ~error' => (pc = "cleanup" /\ ~error) \/ pc = "finished"

\* All steps but these leave the files alone.
LEMMA KeepsFiles ==
  ASSUME PlaceInv, Next
  PROVE  Keeps \/ Check \/ Confirm \/ Create \/ Process \/ Replace \/ Rename \/ CleanUp \/ Unwound \/ Reopen
  <1> USE DEF Keeps, PlaceInv, Preparing, Queueing, Completing, Writing, Goes, Fails
  <1>1. CASE InitQueue \/ SendRequest \/ Surprised \/ Closing
    BY <1>1 DEF InitQueue, SendRequest, Surprised, Closing
  <1>2. CASE SendCall \/ Stores \/ Serve
    BY <1>2 DEF SendCall, Stores, Serve
  <1>3. CASE Opened \/ Loaded \/ KeptAlive
    BY <1>3 DEF Opened, Loaded, KeptAlive, Returns
  <1>4. CASE ReceiveData \/ ReceiveEof \/ ReceiveRefused
    BY <1>4 DEF ReceiveData, ReceiveEof, ReceiveRefused, Receives
  <1>5. CASE FillData \/ FillEof \/ FillRefused
    BY <1>5 DEF FillData, FillEof, FillRefused, Fills
  <1>6. CASE DisposeResponse \/ Disposed
    BY <1>6 DEF DisposeResponse, Disposed
  <1>7. CASE Finished \/ GiveUp
    BY <1>7 DEF Finished, LocalStep, GiveUp
  <1>8. CASE Drop
    BY <1>8, CallFacts DEF Drop, Lost, UsesConnection
  <1>9. QED
    BY <1>1, <1>2, <1>3, <1>4, <1>5, <1>6, <1>7, <1>8 DEF Next, Transfer

\* Only a lost connection leads to where it is waited for.
LEMMA DropsStep ==
  ASSUME Next
  PROVE  Drop \/ (drops' = drops /\ (pc' \in {"unwind", "lost"} => pc \in {"unwind", "lost"}))
  <1> USE DEF Goes, Fails
  <1>1. CASE Check \/ Confirm \/ Create \/ InitQueue \/ SendRequest \/ Surprised \/ Closing
    BY <1>1 DEF Check, Confirm, Create, InitQueue, SendRequest, Surprised, Closing
  <1>2. CASE SendCall \/ Stores \/ Serve
    BY <1>2 DEF SendCall, Stores, Serve
  <1>3. CASE Opened \/ Loaded \/ KeptAlive
    BY <1>3 DEF Opened, Loaded, KeptAlive, Returns
  <1>4. CASE ReceiveData \/ ReceiveEof \/ ReceiveRefused
    BY <1>4 DEF ReceiveData, ReceiveEof, ReceiveRefused, Receives
  <1>5. CASE FillData \/ FillEof \/ FillRefused
    BY <1>5 DEF FillData, FillEof, FillRefused, Fills
  <1>6. CASE Process \/ DisposeResponse \/ Disposed
    BY <1>6 DEF Process, Continues, DisposeResponse, Disposed
  <1>7. CASE Replace \/ Rename \/ Finished \/ CleanUp \/ Unwound \/ Reopen \/ GiveUp
    BY <1>7 DEF Replace, Rename, Finished, LocalStep, CleanUp, Unwound, Reopen, GiveUp
  <1>8. QED
    BY <1>1, <1>2, <1>3, <1>4, <1>5, <1>6, <1>7 DEF Next, Transfer

\* The partial file is the beginning of the remote one.
LEMMA PartialStep ==
  ASSUME DownloadTypeOK, PlaceInv, QueueInv, ProgressInv, PartialInv, AppendInv, Next
  PROVE  PartialInv'
  <1> DEFINE Some == {NoFile} \union {Remote(0, k) : k \in 0..RealSize}
  <1>0. /\ UNCHANGED choiceVars /\ Some' = Some /\ RealSize \in Nat /\ LocallyUsed \in Nat
        /\ LocalFileName' = LocalFileName /\ LocalFileName = (IF Resumable THEN "partial" ELSE "dest")
        /\ local["partial"] \in Some /\ NoFile \in Some /\ DOMAIN local = {"dest", "partial"}
    BY StepShape, SizeFacts DEF Shape, choiceVars, PartialInv, LocalFileName, DownloadTypeOK
  <1>1. Some = {NoFile} \union {Remote(0, k) : k \in 0..RealSize}
    OBVIOUS
  <1> HIDE DEF Some
  <1>2. CASE Keeps
    BY <1>0, <1>2 DEF Keeps, PartialInv, choiceVars, attemptVars, progressVars, Preparing, LocalFileName
  <1>3. CASE Check
    <2>1. /\ ~Writing' /\ ~ResumeTransfer /\ pc' \in {"open", "cleanup"}
          /\ local' \in {local, [local EXCEPT !["partial"] = NoFile]}
      BY <1>3 DEF Check, Goes, Fails, PlaceInv, Preparing, Writing, Queueing
    <2>2. pc' = "open" =>
            \/ ResumeTransfer' /\ Resumable /\ local["partial"] # NoFile /\ TransferedSize' = Len(local["partial"])
                 /\ UNCHANGED local
            \/ ~ResumeTransfer' /\ TransferedSize' = 0 /\ local'["partial"] = NoFile
      BY <1>0, <1>3, <2>1 DEF Check, Goes, Fails, Begins, PartialInv
    <2>3. local["partial"] # NoFile => local["partial"] = Remote(0, Len(local["partial"]))
      <3> SUFFICES ASSUME local["partial"] # NoFile PROVE local["partial"] = Remote(0, Len(local["partial"]))
        OBVIOUS
      <3>1. PICK k \in 0..RealSize : local["partial"] = Remote(0, k)
        BY <1>0, <1>1
      <3>2. QED
        BY <1>0, <3>1, RemoteFacts
    <2>4. local'["partial"] \in {NoFile, local["partial"]}
      BY <1>0, <2>1
    <2>5. QED
      BY <1>0, <1>1, <2>1, <2>2, <2>3, <2>4 DEF PartialInv, choiceVars
  <1>4. CASE Confirm
    <2>1. ~Writing' \/ OverwriteMode' # "overwrite"
      BY <1>4 DEF Confirm, Goes, Fails, PlaceInv, Preparing, Writing, Queueing
    <2>2. pc = "confirm" /\ UNCHANGED <<local, ResumeTransfer>>
          /\ pc' \in {"create", "init", "cleanup"} /\ (pc' = "create" => UNCHANGED TransferedSize)
      BY <1>4 DEF Confirm, Goes, Fails, progressVars
    <2>3. QED
      BY <1>0, <2>1, <2>2 DEF PartialInv, choiceVars
  <1>5. CASE Create
    <2>1. /\ pc = "create" /\ pc' \in {"init", "cleanup"} /\ (pc' = "cleanup" => ~Writing' /\ UNCHANGED local)
          /\ UNCHANGED LocallyUsed /\ LocallyUsed = TransferedSize
          /\ pc' = "init" => local' = IF ResumeTransfer THEN local ELSE [local EXCEPT ![LocalFileName] = <<>>]
      BY <1>5 DEF Create, Goes, Fails, PlaceInv, Preparing, Writing, Queueing, progressVars, ProgressInv
    <2>2. CASE pc' = "cleanup" \/ ResumeTransfer
      BY <1>0, <2>1, <2>2 DEF PartialInv, choiceVars
    <2>3. CASE pc' = "init" /\ ~ResumeTransfer
      <3>1. Remote(0, 0) = <<>> /\ 0 \in 0..RealSize /\ LocallyUsed = 0 /\ <<>> # NoFile
        BY <1>0, <2>1, <2>3, RemoteFacts DEF PartialInv
      <3>2. Remote(0, 0) \in Some
        BY <1>1, <3>1
      <3>3. /\ local'[LocalFileName] = <<>> /\ local'["partial"] \in {local["partial"], <<>>}
            /\ local'["partial"] # local["partial"] => Resumable
        BY <1>0, <2>1, <2>3
      <3>4. QED
        BY <1>0, <1>1, <2>1, <2>3, <3>1, <3>2, <3>3 DEF PartialInv, choiceVars
    <2>4. QED
      BY <2>1, <2>2, <2>3
  <1>6. CASE Process
    <2>1. /\ DataPacket.offset = TransferedSize /\ DataPacket.length \in 1..BlockSize
          /\ TransferedSize + DataPacket.length <= RealSize /\ LocallyUsed = TransferedSize
          /\ pc = "data" /\ pc' \in {"dispose", "fill", "reading"}
      BY <1>6, ProcessFacts DEF Process, Continues, Goes, Fails, ProgressInv, Queueing
    <2>2. /\ UNCHANGED OverwriteMode
          /\ \/ UNCHANGED <<local, LocallyUsed>>
             \/ /\ local' = [local EXCEPT ![Target] = local[Target] \o Units]
                /\ LocallyUsed' = LocallyUsed + DataPacket.length
      BY <1>6 DEF Process, attemptVars
    <2>3. CASE UNCHANGED <<local, LocallyUsed>>
      BY <1>0, <2>1, <2>2, <2>3 DEF PartialInv, Writing, Queueing, choiceVars
    <2>4. CASE OverwriteMode = "overwrite" /\ local' = [local EXCEPT ![Target] = local[Target] \o Units]
                 /\ LocallyUsed' = LocallyUsed + DataPacket.length
      <3>1. Target = LocalFileName /\ local[LocalFileName] = Remote(0, LocallyUsed)
        BY <2>1, <2>4 DEF Target, PartialInv, Writing, Queueing
      <3>2. /\ BlockSize \in Nat /\ DataPacket.length \in Nat /\ LocallyUsed + DataPacket.length \in 0..RealSize
            /\ 0 + LocallyUsed = LocallyUsed
        BY <1>0, <2>1, SizeFacts
      <3>3. Remote(0, LocallyUsed) \o Remote(LocallyUsed, DataPacket.length) = Remote(0, LocallyUsed + DataPacket.length)
        <4>1. Remote(0, LocallyUsed) \o Remote(0 + LocallyUsed, DataPacket.length)
                = Remote(0, LocallyUsed + DataPacket.length)
          BY <1>0, <3>2, RemoteAppended
        <4>2. QED
          BY <3>2, <4>1
      <3>4. Remote(0, LocallyUsed') \in Some
        BY <1>1, <2>4, <3>2
      <3>5. local' = [local EXCEPT ![LocalFileName] = Remote(0, LocallyUsed')]
        BY <2>1, <2>4, <3>1, <3>3 DEF Units
      <3>6. /\ local'[LocalFileName] = Remote(0, LocallyUsed')
            /\ local'["partial"] \in {local["partial"], Remote(0, LocallyUsed')}
            /\ local'["partial"] # local["partial"] => Resumable
        BY <1>0, <3>5
      <3>7. QED
        BY <1>0, <1>1, <2>1, <2>2, <3>4, <3>6 DEF PartialInv, choiceVars
    <2>5. CASE OverwriteMode # "overwrite" /\ local' = [local EXCEPT ![Target] = local[Target] \o Units]
      <3>1. local'["partial"] = local["partial"]
        BY <1>0, <2>5 DEF Target
      <3>2. QED
        BY <1>0, <2>1, <2>2, <2>5, <3>1 DEF PartialInv, choiceVars
    <2>6. QED
      BY <2>2, <2>3, <2>4, <2>5
  <1>7. CASE Replace
    <2>1. Resumable /\ pc' \in {"rename", "cleanup"} /\ UNCHANGED <<OverwriteMode, LocallyUsed>> /\ Writing
          /\ local' \in {local, [local EXCEPT !["dest"] = NoFile]}
      BY <1>7 DEF Replace, LocalStep, PlaceInv, ResumeAllowed, Goes, Fails, attemptVars, progressVars, Writing
    <2>2. local'["partial"] = local["partial"]
      BY <1>0, <2>1
    <2>3. QED
      BY <1>0, <2>1, <2>2 DEF PartialInv, choiceVars
  <1>8. CASE Rename
    <2>1. UNCHANGED <<OverwriteMode, LocallyUsed>> /\ Writing
      BY <1>8 DEF Rename, LocalStep, attemptVars, progressVars, Writing
    <2>2. CASE UNCHANGED local /\ pc' \in {"replace", "cleanup"}
      BY <1>0, <2>1, <2>2 DEF PartialInv, choiceVars
    <2>3. CASE local' = [dest |-> local["partial"], partial |-> NoFile] /\ pc' = "finished"
      <3>1. local'["partial"] = NoFile /\ ~Writing'
        BY <2>3 DEF Writing, Queueing
      <3>2. QED
        BY <1>0, <2>3, <3>1 DEF PartialInv, choiceVars
    <2>4. QED
      BY <1>8, <2>2, <2>3 DEF Rename, Goes, Fails
  <1>9. CASE CleanUp \/ Unwound
    <2>1. local' \in {local, [local EXCEPT ![LocalFileName] = NoFile]} /\ ~Writing' /\ pc' \in {"idle", "lost"}
      BY <1>9 DEF CleanUp, Unwound, LocalAfterwards, Goes, Writing, Queueing
    <2>2. local'["partial"] \in {NoFile, local["partial"]}
      BY <1>0, <2>1
    <2>3. QED
      BY <1>0, <2>1, <2>2 DEF PartialInv, choiceVars
  <1>10. CASE Reopen
    <2>1. UNCHANGED local /\ pc' = "check" /\ ~Writing'
      BY <1>10 DEF Reopen, Writing, Queueing
    <2>2. QED
      BY <1>0, <2>1 DEF PartialInv, choiceVars
  <1>11. QED
    BY <1>2, <1>3, <1>4, <1>5, <1>6, <1>7, <1>8, <1>9, <1>10, KeepsFiles

\* One block more behind what has been appended, or continued.
LEMMA BlockAppended ==
  ASSUME DownloadTypeOK, PlaceInv, ProgressInv, AppendInv, OverwriteMode # "overwrite", pc = "data",
         DataPacket.offset = TransferedSize, DataPacket.length \in Nat \ {0},
         TransferedSize + DataPacket.length <= RealSize,
         UNCHANGED <<choiceVars, OverwriteMode, drops>>, LocallyUsed' = LocallyUsed + DataPacket.length,
         local' = [local EXCEPT !["dest"] = local["dest"] \o Units]
  PROVE  /\ OverwriteMode = "append" => Appending'
         /\ OverwriteMode = "resume" => Continuing'
  <1> DEFINE used == LocallyUsed
             length == DataPacket.length
  <1>0. used \in Nat /\ length \in Nat /\ used = TransferedSize /\ used < RealSize
    BY SizeFacts DEF ProgressInv, Queueing
  <1>1. local'["dest"] = local["dest"] \o Remote(used, length) /\ LocallyUsed' = used + length
    BY <1>0 DEF Units, DownloadTypeOK
  <1> HIDE DEF length
  <1>2. Remote(used, length) \in Seq(Nat) /\ 0 + used = used
    BY <1>0, RemoteFacts
  <1>3. ASSUME OverwriteMode = "append" PROVE Appending'
    <2>1. PICK base \in Seq(Nat) :
            /\ Grown(base) /\ local["dest"] = base \o Remote(0, used)
            /\ drops = 0 \/ Params # "cpAppend" => base = before
            /\ Params = "cpResume" => Len(base) >= ListedSize
      BY <1>3 DEF AppendInv, Appending
    <2>2. Remote(0, used) \in Seq(Nat)
      BY <1>0, RemoteFacts
    <2>3. Remote(0, used) \o Remote(0 + used, length) = Remote(0, used + length)
      BY <1>0, RemoteAppended
    <2>4. (base \o Remote(0, used)) \o Remote(used, length) = base \o (Remote(0, used) \o Remote(used, length))
      BY ONLY <1>2, <2>1, <2>2, ConcatThree, ZenonT(30)
    <2>5. local'["dest"] = base \o Remote(0, LocallyUsed')
      BY <1>1, <1>2, <2>1, <2>3, <2>4
    <2>6. UNCHANGED <<Params, before, RealSize, ListedSize, drops>>
      BY DEF choiceVars
    <2>7. Grown(base)'
      <3>1. PICK first \in Complete \union {before} : AppendedTo(first, base)
        BY <2>1 DEF Grown
      <3>2. first \in (Complete \union {before})'
        BY <2>6 DEF Complete
      <3>3. QED
        BY <3>1, <3>2 DEF Grown
    <2>8. QED
      BY <2>1, <2>5, <2>6, <2>7 DEF Appending
  <1>4. ASSUME OverwriteMode = "resume" PROVE Continuing'
    <2>1. /\ Params # "cpAppend" /\ before # NoFile /\ Len(before) <= used
          /\ local["dest"] = before \o Remote(Len(before), used - Len(before))
      <3>1. ~(LocallyUsed = RealSize)
        BY <1>0, SizeFacts
      <3>2. QED
        BY <1>4, <3>1 DEF AppendInv, Continuing
    <2> DEFINE kept == Len(before)
               size == used - kept
    <2>2. before \in Seq(Nat) /\ kept \in Nat
      BY <2>1 DEF DownloadTypeOK
    <2>3. size \in Nat /\ kept + size = used /\ size + length = (used + length) - kept /\ kept <= used + length
      BY <1>0, <2>1, <2>2
    <2> HIDE DEF kept
    <2>4. Remote(kept, size) \o Remote(kept + size, length) = Remote(kept, size + length)
      <3> HIDE DEF size
      <3>1. QED
        BY <1>0, <2>2, <2>3, RemoteAppended
    <2>5. Remote(kept, size) \in Seq(Nat)
      BY <2>2, <2>3, RemoteFacts
    <2>6. (before \o Remote(kept, size)) \o Remote(used, length) = before \o (Remote(kept, size) \o Remote(used, length))
      BY ONLY <1>2, <2>2, <2>5, ConcatThree, ZenonT(30)
    <2>7. local'["dest"] = before \o Remote(kept, LocallyUsed' - kept)
      <3>1. local["dest"] = before \o Remote(kept, size)
        BY <2>1 DEF kept
      <3>2. LocallyUsed' - kept = size + length
        BY <1>1, <2>3
      <3> HIDE DEF size
      <3>3. QED
        BY <1>1, <2>3, <2>4, <2>6, <3>1, <3>2
    <2>8. UNCHANGED <<Params, before, RealSize, ListedSize>> /\ kept <= LocallyUsed'
      BY <1>1, <2>3 DEF choiceVars
    <2>9. QED
      BY <2>1, <2>7, <2>8 DEF Continuing, kept
  <1>5. QED
    BY <1>3, <1>4

\* The file appended to is continued without a hole.
LEMMA AppendStep ==
  ASSUME DownloadTypeOK, PlaceInv, QueueInv, ProgressInv, PartialInv, AppendInv, DestInv, Next
  PROVE  AppendInv'
  <1>0. /\ UNCHANGED choiceVars /\ LocallyUsed \in Nat /\ DOMAIN local = {"dest", "partial"} /\ drops \in Nat
        /\ Preparing => OverwriteMode = "overwrite"
    BY StepShape, SizeFacts, BoundsAssumption DEF Shape, DownloadTypeOK, PlaceInv
  <1>1. ASSUME UNCHANGED <<local, LocallyUsed, OverwriteMode>>, drops' \in {drops, drops + 1}
        PROVE  (OverwriteMode = "append" => Appending') /\ (OverwriteMode = "resume" => Continuing')
    <2>1. UNCHANGED <<Params, RealSize, ListedSize, before>>
      BY <1>0 DEF choiceVars
    <2>2. \A base : Grown(base)' <=> Grown(base)
      BY <2>1 DEF Grown, Complete, AppendedTo, Starts
    <2>3. drops' = 0 => drops = 0
      BY <1>0, <1>1
    <2>4. OverwriteMode = "append" => Appending'
      BY <1>1, <2>1, <2>2, <2>3 DEF AppendInv, Appending
    <2>5. OverwriteMode = "resume" => Continuing'
      BY <1>1, <2>1 DEF AppendInv, Continuing
    <2>6. QED
      BY <2>4, <2>5
  <1>2. CASE Keeps /\ ~Drop
    <2>1. /\ UNCHANGED <<local, choiceVars, LocallyUsed, OverwriteMode, cpNoConfirmation, DestFileExists, drops>>
          /\ Preparing' => Preparing
          /\ pc' \in {"unwind", "lost"} => drops' > 0
          /\ pc' \in {"open", "fstat", "confirm"} => pc \in {"open", "fstat", "confirm"}
      BY <1>0, <1>2, DropsStep DEF Keeps, AppendInv, attemptVars, progressVars
    <2>2. QED
      BY <1>1, <2>1 DEF AppendInv, choiceVars
  <1>11. CASE Drop
    <2>1. /\ UNCHANGED <<local, choiceVars, LocallyUsed, OverwriteMode>> /\ drops' = drops + 1 /\ drops' > 0
          /\ pc' \in {"over", "unwind"}
      BY <1>0, <1>11 DEF Drop, Lost, attemptVars, progressVars
    <2>2. QED
      BY <1>0, <1>1, <2>1 DEF AppendInv, choiceVars, Preparing
  <1>3. ASSUME OverwriteMode' = "overwrite", UNCHANGED <<choiceVars, drops>>, pc' \notin {"unwind", "lost"},
               Preparing' => /\ UNCHANGED <<cpNoConfirmation>> /\ local'["dest"] = local["dest"] /\ Preparing
                             /\ pc' = "create" \/ DestFileExists' = (local["dest"] # NoFile)
        PROVE  AppendInv'
    BY <1>0, <1>3 DEF AppendInv, choiceVars, Preparing
  <1>4. CASE Check
    <2>1. /\ local'["dest"] = local["dest"] /\ DestFileExists' = (local["dest"] # NoFile)
          /\ UNCHANGED <<cpNoConfirmation, OverwriteMode, drops>> /\ Preparing /\ pc' \in {"open", "cleanup"}
      BY <1>0, <1>4 DEF Check, Preparing, Goes, Fails
    <2>2. QED
      BY <1>0, <1>3, <2>1
  <1>5. CASE Confirm
    <2>1. /\ UNCHANGED <<local, cpNoConfirmation, drops>> /\ Preparing /\ pc = "confirm"
          /\ pc' \in {"create", "init", "cleanup"}
      BY <1>5 DEF Confirm, Preparing, Goes, Fails
    <2>2. CASE OverwriteMode' = "overwrite"
      BY <1>0, <1>3, <2>1, <2>2 DEF Preparing
    <2>3. CASE OverwriteMode' # "overwrite"
      <3> DEFINE dest == local["dest"]
      <3>1. UNCHANGED <<Params, RealSize, ListedSize, before>>
        BY <1>0 DEF choiceVars
      <3>2. dest \in Seq(Nat) /\ LocallyUsed = 0
        BY <1>5, <2>3, ConfirmFacts
      <3>3. ~Preparing'
        <4>1. OverwriteMode' = "append" \/ OverwriteMode' = "resume"
          BY <1>5, <2>3, ConfirmFacts
        <4>2. QED
          BY <1>0, <1>5, <2>1, <4>1 DEF Confirm, Preparing, Goes
      <3>4. CASE OverwriteMode' = "append"
        <4>1. /\ LocallyUsed' = 0 /\ Grown(dest) /\ (drops = 0 \/ Params # "cpAppend" => dest = before)
              /\ Params = "cpResume" => Len(dest) >= ListedSize
          BY <1>5, <2>3, <3>2, <3>4, ConfirmFacts DEF progressVars
        <4>2. dest = dest \o Remote(0, 0)
          <5>1. Remote(0, 0) = <<>>
            BY RemoteFacts
          <5>2. QED
            BY <3>2, <5>1
        <4>3. Grown(dest)' <=> Grown(dest)
          BY <2>1, <3>1 DEF Grown, Complete, AppendedTo, Starts
        <4>4. Appending'
          BY <2>1, <3>1, <3>2, <4>1, <4>2, <4>3 DEF Appending
        <4>5. QED
          BY <2>1, <3>1, <3>3, <3>4, <4>4 DEF AppendInv
      <3>5. CASE OverwriteMode' = "resume"
        <4>1. LocallyUsed' = Len(dest) /\ Params # "cpAppend" /\ Resumed(dest)
          BY <1>5, <2>3, <3>5, ConfirmFacts DEF Begins
        <4>2. CASE dest = Remote(0, RealSize)
          <5>1. LocallyUsed' = RealSize
            BY <4>1, <4>2, RemoteFacts, SizeFacts
          <5>2. QED
            BY <2>1, <3>1, <3>3, <3>5, <4>1, <4>2, <5>1 DEF AppendInv, Continuing
        <4>3. CASE dest # Remote(0, RealSize)
          BY <2>1, <3>1, <3>3, <3>5, <4>1, <4>3 DEF AppendInv, Continuing, Resumed
        <4>4. QED
          BY <4>2, <4>3
      <3>6. QED
        BY <1>5, <2>3, <3>4, <3>5, ConfirmFacts
    <2>4. QED
      BY <2>2, <2>3
  <1>6. CASE Create \/ Replace \/ Rename
    <2>1. OverwriteMode = "overwrite" /\ UNCHANGED <<OverwriteMode, drops>> /\ ~Preparing' /\ pc' \notin {"unwind", "lost"}
      BY <1>0, <1>6 DEF Create, Replace, Rename, LocalStep, PlaceInv, ResumeAllowed, Preparing, Goes, Fails, attemptVars
    <2>2. QED
      BY <1>0, <1>3, <2>1
  <1>7. CASE Process
    <2>1. /\ DataPacket.offset = TransferedSize \/ OverwriteMode = "overwrite"
          /\ DataPacket.length \in Nat \ {0} /\ pc = "data" /\ ~Preparing' /\ UNCHANGED <<OverwriteMode, drops>>
          /\ TransferedSize + DataPacket.length <= RealSize /\ pc' \notin {"unwind", "lost"}
      <3>1. DataPacket.offset = TransferedSize /\ DataPacket.length \in Nat \ {0}
              /\ TransferedSize + DataPacket.length <= RealSize
        BY <1>7, ProcessFacts, SizeFacts
      <3>2. pc = "data" /\ pc' \in {"dispose", "fill", "reading"} /\ UNCHANGED <<OverwriteMode, drops>>
        BY <1>7 DEF Process, Continues, Goes, Fails, attemptVars
      <3>3. QED
        BY <3>1, <3>2 DEF Preparing
    <2>2. CASE OverwriteMode = "overwrite"
      BY <1>0, <1>3, <2>1, <2>2
    <2>3. CASE OverwriteMode # "overwrite" /\ UNCHANGED <<local, LocallyUsed>>
      BY <1>0, <1>1, <2>1, <2>3 DEF AppendInv, choiceVars, Preparing
    <2>4. CASE OverwriteMode # "overwrite" /\ local' = [local EXCEPT !["dest"] = local["dest"] \o Units]
                 /\ LocallyUsed' = LocallyUsed + DataPacket.length
      <3>1. (OverwriteMode = "append" => Appending') /\ (OverwriteMode = "resume" => Continuing')
        BY <1>0, <2>1, <2>4, BlockAppended
      <3>2. QED
        BY <1>0, <2>1, <3>1 DEF AppendInv, choiceVars, Preparing
    <2>5. QED
      BY <1>7, <2>2, <2>3, <2>4 DEF Process, Target
  <1>8. CASE CleanUp \/ Unwound
    <2>1. UNCHANGED <<OverwriteMode, LocallyUsed, drops>> /\ ~Preparing' /\ (OverwriteMode = "overwrite" \/ UNCHANGED local)
      BY <1>8 DEF CleanUp, Unwound, LocalAfterwards, DeletedOnFailure, Goes, Preparing, attemptVars, progressVars
    <2>2. pc' \in {"unwind", "lost"} => drops' > 0
      BY <1>8 DEF CleanUp, Unwound, Goes, AppendInv
    <2>3. CASE OverwriteMode = "overwrite"
      BY <1>0, <2>1, <2>2, <2>3 DEF AppendInv, choiceVars, Preparing
    <2>4. CASE OverwriteMode # "overwrite"
      BY <1>0, <1>1, <2>1, <2>2, <2>4 DEF AppendInv, choiceVars, Preparing
    <2>5. QED
      BY <2>3, <2>4
  <1>9. CASE Reopen
    <2>1. cpNoConfirmation' = TRUE /\ pc' = "check" /\ OverwriteMode' = "overwrite" /\ drops' = drops /\ drops > 0
      BY <1>9 DEF Reopen, AppendInv
    <2>2. QED
      BY <1>0, <2>1 DEF AppendInv, choiceVars
  <1>12. QED
    BY <1>2, <1>4, <1>5, <1>6, <1>7, <1>8, <1>9, <1>11, KeepsFiles

\* A complete file is sound, and so is the old one.
LEMMA CompleteSound ==
  DownloadTypeOK => \A contents \in Complete : Sound(contents) /\ contents # NoFile
  <1> SUFFICES ASSUME DownloadTypeOK, NEW contents \in Complete PROVE Sound(contents) /\ contents # NoFile
    OBVIOUS
  <1>1. /\ contents \in Seq(Nat)
        /\ contents = Remote(0, RealSize) \/ Len(contents) = ListedSize
    <2>1. CASE contents = Remote(0, RealSize)
      BY <2>1, RemoteFacts, SizeFacts
    <2>2. CASE contents = Remote(0, ListedSize)
      BY <2>2, RemoteFacts, SizeFacts
    <2>3. QED
      BY <2>1, <2>2 DEF Complete
  <1>2. Grown(contents) /\ contents # NoFile
    BY <1>1, AppendedItself DEF Grown
  <1>3. QED
    BY <1>1, <1>2, SizeFacts DEF Sound, Kept, Resumed

\* What has been appended to, or continued, is sound.
LEMMA AppendedSound ==
  DownloadTypeOK /\ AppendInv /\ OverwriteMode # "overwrite" /\ LocallyUsed <= RealSize =>
    Sound(local["dest"]) /\ local["dest"] # NoFile
  <1> SUFFICES ASSUME DownloadTypeOK, AppendInv, OverwriteMode # "overwrite", LocallyUsed <= RealSize
               PROVE  Sound(local["dest"]) /\ local["dest"] # NoFile
    OBVIOUS
  <1> DEFINE dest == local["dest"]
  <1>0. LocallyUsed \in Nat /\ OverwriteMode \in {"append", "resume"} /\ dest \in Seq(Nat) /\ dest # NoFile
    BY SizeFacts, AppendedTyped, NoFileAssumption DEF DownloadTypeOK
  <1>1. CASE OverwriteMode = "append"
    <2>1. PICK base \in Seq(Nat) : /\ Grown(base) /\ dest = base \o Remote(0, LocallyUsed)
                                   /\ Params = "cpResume" => Len(base) >= ListedSize
      BY <1>1 DEF AppendInv, Appending
    <2>2. PICK first \in Complete \union {before} : AppendedTo(first, base)
      BY <2>1 DEF Grown
    <2>3. first \in Seq(Nat)
      <3>1. CASE first = before
        BY <2>2, <3>1 DEF DownloadTypeOK, AppendedTo, Starts
      <3>2. CASE first = Remote(0, RealSize)
        BY <3>2, RemoteFacts, SizeFacts
      <3>3. CASE first = Remote(0, ListedSize)
        BY <3>3, RemoteFacts, SizeFacts
      <3>4. QED
        BY <2>2, <3>1, <3>2, <3>3 DEF Complete
    <2>4. Grown(dest)
      BY <1>0, <2>1, <2>2, <2>3, AppendedGoesOn DEF Grown
    <2>5. Len(dest) >= Len(base) /\ Len(dest) \in Nat /\ Len(base) \in Nat
      <3>1. Remote(0, LocallyUsed) \in Seq(Nat)
        BY <1>0, RemoteFacts
      <3>2. QED
        BY <1>0, <2>1, <3>1
    <2>6. Params = "cpResume" => Len(dest) >= ListedSize
      BY <2>1, <2>5, SizeFacts
    <2>7. QED
      BY <1>0, <2>4, <2>6 DEF Sound, Kept
  <1>2. CASE OverwriteMode = "resume"
    <2>1. CASE dest = Remote(0, RealSize)
      BY <1>0, <2>1, CompleteSound DEF Complete
    <2>2. CASE /\ before # NoFile /\ Len(before) <= LocallyUsed /\ Params # "cpAppend"
               /\ dest = before \o Remote(Len(before), LocallyUsed - Len(before))
      <3>1. before \in Seq(Nat) /\ Len(before) \in Nat
        BY <2>2 DEF DownloadTypeOK
      <3>2. LocallyUsed - Len(before) \in Nat
        BY <1>0, <2>2, <3>1
      <3>3. Continued(dest) /\ Len(dest) = Len(before) + (LocallyUsed - Len(before))
        BY <2>2, <3>1, <3>2, ContinuedRest
      <3>4. Len(dest) = LocallyUsed
        BY <1>0, <3>1, <3>3
      <3>5. Resumed(dest)
        BY <1>0, <2>2, <3>4 DEF Resumed
      <3>6. QED
        BY <1>0, <2>2, <3>3, <3>5 DEF Sound, Kept
    <2>3. QED
      BY <1>2, <2>1, <2>2 DEF AppendInv, Continuing
  <1>3. QED
    BY <1>0, <1>1, <1>2

\* The final name never has a part of the new file that is not being written.
LEMMA DestStep ==
  ASSUME DownloadTypeOK, PlaceInv, QueueInv, ProgressInv, PartialInv, AppendInv, DestInv, Next, DownloadTypeOK', AppendInv'
  PROVE  DestInv'
  <1> DEFINE Torn == ~Resumable /\ OverwriteMode = "overwrite" /\ (Writing \/ pc = "finished")
             Wanted == Resumable /\ RealSize <= ListedSize /\ before # NoFile
  <1>0. /\ UNCHANGED choiceVars /\ Complete' = Complete /\ DOMAIN local = {"dest", "partial"}
        /\ LocalFileName = IF Resumable THEN "partial" ELSE "dest"
        /\ RealSize \in Nat \ {0} /\ ListedSize \in Nat /\ LocallyUsed \in Nat
    BY StepShape, SizeFacts DEF Shape, choiceVars, Complete, DownloadTypeOK, LocalFileName
  <1>1. /\ Intact \/ Torn
        /\ Wanted /\ local["dest"] = NoFile => local["partial"] = Remote(0, RealSize)
    BY DEF DestInv
  <1>2. ASSUME Intact' \/ Torn',
               Wanted /\ local'["dest"] = NoFile => local'["partial"] = Remote(0, RealSize),
               OverwriteMode' = "overwrite" /\ (pc' = "finished" \/ (pc' = "cleanup" /\ ~error') \/ result' = "done") =>
                 local'["dest"] \in Complete
        PROVE  DestInv'
    BY <1>0, <1>2 DEF DestInv, choiceVars
  <1>3. ASSUME local'["dest"] = local["dest"] PROVE Intact => Intact'
    <2>1. UNCHANGED <<Params, RealSize, ListedSize, before>>
      BY <1>0 DEF choiceVars
    <2>2. QED
      BY <1>3, <2>1 DEF Intact, Sound, Kept, Grown, Complete, AppendedTo, Continued, Starts, Resumed
  <1>4. ASSUME local'["dest"] = NoFile PROVE Intact'
    BY <1>4 DEF Intact
  <1>5. /\ Remote(0, RealSize) # NoFile /\ NoFile \notin Complete
        /\ (local["dest"] \in Complete => Intact) /\ (local'["dest"] \in Complete => Intact')
    <2>1. (DownloadTypeOK => \A contents \in Complete : Sound(contents) /\ contents # NoFile)'
      BY CompleteSound, PTL
    <2>2. local'["dest"] \in Complete => Intact'
      BY <1>0, <2>1 DEF Intact
    <2>3. local["dest"] \in Complete => Intact
      BY CompleteSound DEF Intact
    <2>4. QED
      BY <1>0, <2>2, <2>3, RemoteFacts DEF Complete
  <1> HIDE DEF Torn, Wanted
  <1>6. CASE Keeps
    <2>1. /\ UNCHANGED <<local, OverwriteMode, LocallyUsed>> /\ result' \in {result, "failed"}
          /\ Writing \/ pc = "finished" => Writing' \/ pc' = "finished" \/ pc = "finished"
          /\ pc' = "finished" => pc = "finished" \/ (pc = "dispose" /\ ~error /\ ~ResumeAllowed)
          /\ pc' = "cleanup" /\ ~error' => (pc = "cleanup" /\ ~error) \/ pc = "finished"
      BY <1>6 DEF Keeps, attemptVars, progressVars
    <2>2. ASSUME OverwriteMode = "overwrite", pc = "finished" PROVE Intact
      BY <1>5, <2>2 DEF DestInv
    <2>3. Intact' \/ Torn'
      BY <1>0, <1>1, <1>3, <2>1, <2>2 DEF Torn, choiceVars
    <2>4. ASSUME OverwriteMode = "overwrite", pc = "dispose", ~error, ~ResumeAllowed PROVE local["dest"] \in Complete
      BY <1>0, <2>4 DEF PartialInv, ProgressInv, Writing, ResumeAllowed, Complete
    <2>5. OverwriteMode' = "overwrite" /\ (pc' = "finished" \/ (pc' = "cleanup" /\ ~error') \/ result' = "done") =>
            local'["dest"] \in Complete
      BY <2>1, <2>4 DEF DestInv
    <2>6. QED
      BY <1>1, <1>2, <2>1, <2>3, <2>5
  <1>7. CASE Check
    <2>1. /\ ~Writing /\ pc = "check" /\ pc' \in {"open", "cleanup"} /\ (pc' = "cleanup" => error')
          /\ result # "done" /\ UNCHANGED result
      BY <1>7 DEF Check, Goes, Fails, PlaceInv, Preparing, Writing, Queueing
    <2>2. \/ UNCHANGED local
          \/ /\ local' = [local EXCEPT !["partial"] = NoFile] /\ Resumable
             /\ ~cpNoConfirmation \/ Len(local["partial"]) > ListedSize
      BY <1>7 DEF Check
    <2>3. local'["dest"] = local["dest"] /\ Intact
      BY <1>0, <1>1, <2>1, <2>2 DEF Torn
    <2>4. Wanted /\ local'["dest"] = NoFile => UNCHANGED local
      <3> SUFFICES ASSUME Wanted, local'["dest"] = NoFile, ~UNCHANGED local PROVE FALSE
        OBVIOUS
      <3>1. local["partial"] = Remote(0, RealSize) /\ RealSize <= ListedSize /\ before # NoFile
        BY <1>1, <2>3 DEF Wanted
      <3>2. Len(local["partial"]) = RealSize
        BY <1>0, <3>1, RemoteFacts
      <3>3. ~cpNoConfirmation
        BY <1>0, <2>2, <3>1, <3>2
      <3>4. QED
        BY <2>1, <2>3, <3>1, <3>3 DEF AppendInv, Preparing
    <2>5. QED
      BY <1>1, <1>2, <1>3, <2>1, <2>3, <2>4
  <1>8. CASE Confirm \/ Reopen
    <2>1. /\ ~Writing /\ pc # "finished" /\ UNCHANGED local /\ pc' \notin {"finished"} /\ (pc' = "cleanup" => error')
          /\ result # "done" /\ UNCHANGED result
      BY <1>8 DEF Confirm, Reopen, Goes, Fails, PlaceInv, Preparing, Writing, Queueing
    <2>2. QED
      BY <1>1, <1>2, <1>3, <2>1 DEF Torn
  <1>9. CASE Create
    <2>1. /\ pc = "create" /\ ~Writing /\ pc' \in {"init", "cleanup"} /\ (pc' = "cleanup" => error')
          /\ result # "done" /\ UNCHANGED <<result, OverwriteMode>> /\ OverwriteMode = "overwrite"
          /\ (pc' = "cleanup" => UNCHANGED local)
          /\ pc' = "init" => local' = IF ResumeTransfer THEN local ELSE [local EXCEPT ![LocalFileName] = <<>>]
      BY <1>9 DEF Create, Goes, Fails, PlaceInv, Preparing, Writing, Queueing, attemptVars
    <2>2. CASE UNCHANGED local
      BY <1>1, <1>2, <1>3, <2>1, <2>2 DEF Torn
    <2>3. CASE pc' = "init" /\ ~ResumeTransfer /\ Resumable
      <3>1. local'["dest"] = local["dest"] /\ local["partial"] = NoFile
        BY <1>0, <2>1, <2>3 DEF PartialInv
      <3>2. Intact' /\ ~(Wanted /\ local["dest"] = NoFile)
        BY <1>1, <1>3, <1>5, <2>3, <3>1 DEF Torn
      <3>3. QED
        BY <1>2, <2>1, <3>1, <3>2
    <2>4. CASE pc' = "init" /\ ~Resumable
      <3>1. Torn' /\ ~Wanted
        BY <1>0, <2>1, <2>4 DEF Torn, Wanted, Writing, choiceVars
      <3>2. QED
        BY <1>2, <2>1, <3>1
    <2>5. QED
      BY <2>1, <2>2, <2>3, <2>4
  <1>10. CASE Process
    <2>1. /\ TransferedSize + DataPacket.length <= RealSize /\ LocallyUsed = TransferedSize
          /\ DataPacket.length \in Nat \ {0}
          /\ pc = "data" /\ pc' \in {"dispose", "fill", "reading"} /\ UNCHANGED <<OverwriteMode, result>>
          /\ result # "done"
      <3>1. TransferedSize + DataPacket.length <= RealSize /\ DataPacket.length \in Nat \ {0}
        BY <1>10, ProcessFacts, SizeFacts
      <3>2. pc = "data" /\ pc' \in {"dispose", "fill", "reading"} /\ UNCHANGED <<OverwriteMode, result>>
        BY <1>10 DEF Process, Continues, Goes, Fails, attemptVars
      <3>3. QED
        BY <3>1, <3>2 DEF ProgressInv, Queueing, PlaceInv
    <2>2. local' \in {local, [local EXCEPT ![Target] = local[Target] \o Units]}
      BY <1>10 DEF Process
    <2>3. CASE OverwriteMode = "overwrite" /\ Resumable
      <3>1. local'["dest"] = local["dest"] /\ local[LocalFileName] = Remote(0, LocallyUsed)
        BY <1>0, <2>1, <2>2, <2>3 DEF Target, PartialInv, Writing, Queueing
      <3>2. local["partial"] # Remote(0, RealSize)
        BY <1>0, <2>1, <2>3, <3>1, RemoteSize
      <3>3. QED
        BY <1>1, <1>2, <1>3, <2>1, <2>3, <3>1, <3>2 DEF Torn
    <2>4. CASE OverwriteMode = "overwrite" /\ ~Resumable
      <3>1. Torn' /\ ~Wanted
        BY <1>0, <2>1, <2>4 DEF Torn, Wanted, Writing, Queueing, choiceVars
      <3>2. QED
        BY <1>2, <2>1, <3>1
    <2>5. CASE OverwriteMode # "overwrite"
      <3>1. LocallyUsed' \in {LocallyUsed, LocallyUsed + DataPacket.length}
        BY <1>10 DEF Process
      <3>2. LocallyUsed' <= RealSize' /\ OverwriteMode' # "overwrite"
        BY <1>0, <2>1, <2>5, <3>1 DEF choiceVars
      <3>3. (DownloadTypeOK /\ AppendInv /\ OverwriteMode # "overwrite" /\ LocallyUsed <= RealSize =>
               Sound(local["dest"]) /\ local["dest"] # NoFile)'
        BY AppendedSound, PTL
      <3>4. Sound(local["dest"])' /\ local'["dest"] # NoFile
        BY <3>2, <3>3
      <3>5. Intact'
        BY <3>4 DEF Intact
      <3>6. QED
        BY <1>2, <2>1, <2>5, <3>4, <3>5
    <2>6. QED
      BY <2>3, <2>4, <2>5
  <1>11. CASE Replace \/ Rename
    <2>1. /\ Resumable /\ Writing /\ Intact /\ UNCHANGED result /\ result # "done"
          /\ local["partial"] = Remote(0, LocallyUsed) /\ LocallyUsed \in {RealSize, ListedSize}
      BY <1>0, <1>1, <1>11 DEF Replace, Rename, LocalStep, PlaceInv, ResumeAllowed, Writing, Torn, PartialInv,
         ProgressInv, Completing
    <2>2. LocallyUsed <= RealSize
      <3>1. PICK k \in 0..RealSize : local["partial"] = Remote(0, k)
        BY <1>0, <2>1, RemoteFacts DEF PartialInv
      <3>2. k = LocallyUsed
        BY <1>0, <2>1, <3>1, RemoteSize
      <3>3. QED
        BY <3>2
    <2>3. Wanted => local["partial"] = Remote(0, RealSize)
      BY <1>0, <2>1, <2>2 DEF Wanted
    <2>4. CASE UNCHANGED local /\ pc' \in {"replace", "cleanup"} /\ (pc' = "cleanup" => error')
      BY <1>1, <1>2, <1>3, <2>1, <2>4
    <2>5. CASE local' = [local EXCEPT !["dest"] = NoFile] /\ pc' = "rename"
      <3>1. local'["dest"] = NoFile /\ local'["partial"] = local["partial"]
        BY <1>0, <2>5
      <3>2. QED
        BY <1>2, <1>4, <2>1, <2>3, <2>5, <3>1
    <2>6. CASE local' = [dest |-> local["partial"], partial |-> NoFile] /\ pc' = "finished"
      <3>1. local'["dest"] \in Complete
        BY <2>1, <2>6 DEF Complete
      <3>2. Intact'
        BY <1>5, <3>1
      <3>3. QED
        BY <1>2, <1>5, <3>1, <3>2
    <2>7. QED
      BY <1>11, <2>4, <2>5, <2>6 DEF Replace, Rename, Goes, Fails
  <1>12. CASE CleanUp \/ Unwound
    <2>1. /\ pc \in {"cleanup", "unwind"} /\ pc' \in {"idle", "lost"} /\ local' = LocalAfterwards
          /\ UNCHANGED OverwriteMode /\ result # "done"
          /\ result' = "done" => pc = "cleanup" /\ ~error /\ ~DeleteLocalFile
      BY <1>12 DEF CleanUp, Unwound, Goes, PlaceInv, attemptVars
    <2>2. CASE DeletedOnFailure
      <3>1. /\ local' = [local EXCEPT ![LocalFileName] = NoFile] /\ Writing /\ OverwriteMode = "overwrite"
            /\ result' # "done" /\ (Resumable => LocallyUsed = 0)
        BY <2>1, <2>2 DEF LocalAfterwards, DeletedOnFailure, Writing, ResumeAllowed
      <3>2. CASE ~Resumable
        <4>1. local'["dest"] = NoFile /\ ~Wanted
          BY <1>0, <3>1, <3>2 DEF Wanted
        <4>2. QED
          BY <1>2, <1>4, <2>1, <3>1, <4>1
      <3>3. CASE Resumable
        <4>1. local'["dest"] = local["dest"] /\ local["partial"] = Remote(0, 0)
          BY <1>0, <3>1, <3>3 DEF PartialInv
        <4>2. local["partial"] # Remote(0, RealSize)
          BY <1>0, <4>1, RemoteSize
        <4>3. QED
          BY <1>1, <1>2, <1>3, <2>1, <3>1, <3>3, <4>1, <4>2 DEF Torn
      <3>4. QED
        BY <3>2, <3>3
    <2>3. CASE ~DeletedOnFailure
      <3>1. UNCHANGED local /\ ~Torn
        BY <2>1, <2>3 DEF LocalAfterwards, DeletedOnFailure, Torn, Writing, Queueing, ResumeAllowed
      <3>2. OverwriteMode = "overwrite" /\ result' = "done" => local["dest"] \in Complete
        BY <2>1 DEF DestInv
      <3>3. QED
        BY <1>1, <1>2, <1>3, <2>1, <3>1, <3>2
    <2>4. QED
      BY <2>2, <2>3
  <1>13. QED
    BY <1>6, <1>7, <1>8, <1>9, <1>10, <1>11, <1>12, KeepsFiles

----------------------------------------------------------------------------
(* Theorems                                                                *)

\* The first state.
LEMMA InvInit ==
  ASSUME Init
  PROVE  IInv
  <1> USE DEF Init
  <1>1. RealSize \in Nat \ {0} /\ ListedSize \in Nat \ {0} /\ BlockSize \in Nat \ {0}
    BY SizesAssumption
  <1>2. before \in {NoFile, <<0>>} /\ <<0>> \in Seq(Nat)
    OBVIOUS
  <1>3. PICK left \in {NoFile} \union {Remote(0, k) : k \in 0..RealSize} :
          local = [dest |-> before, partial |-> IF Resumable THEN left ELSE NoFile]
    OBVIOUS
  <1>4. left \in Seq(Nat) \union {NoFile}
    BY <1>1, RemoteFacts
  <1>5. FlagsOK /\ QueueOK
    BY EmptySeq DEF FlagsOK, QueueOK
  <1>6. SizesOK
    BY <1>1, BoundsAssumption DEF SizesOK, NULL
  <1>7. DataOK
    <2>1. 0 \in 0..BlockSize
      BY <1>1
    <2>2. QED
      BY <2>1 DEF DataOK, NoData
  <1>8. FilesOK
    <2>1. before \in Seq(Nat) \union {NoFile}
      BY <1>2
    <2>2. DOMAIN local = {"dest", "partial"} /\ local["dest"] = before /\ local["partial"] \in {left, NoFile}
      BY <1>3
    <2>3. QED
      BY <1>4, <2>1, <2>2 DEF FilesOK
  <1>9. DownloadTypeOK
    BY <1>5, <1>6, <1>7, <1>8, TypeParts
  <1>10. RequestsOK /\ ResponsesOK /\ NumbersOK
    BY FreshOK DEF PacketsInit, NumbersOK, Due, Positions
  <1>11. PlaceInv /\ QueueInv /\ ProgressInv
    BY DEF PlaceInv, QueueInv, ProgressInv, Preparing, Queueing, Completing, NULL
  <1>12. DueInv /\ ReadInv
    BY DEF DueInv, ReadInv, PacketsInit, Due, Elements, Positions, NULL
  <1>13. PartialInv
    BY <1>3 DEF PartialInv, Writing, Queueing
  <1>14. AppendInv
    BY <1>2, <1>3 DEF AppendInv
  <1>15. DestInv
    <2>1. local["dest"] = before
      BY <1>3
    <2>2. before # NoFile => Sound(before)
      <3> SUFFICES ASSUME before # NoFile PROVE Sound(before)
        OBVIOUS
      <3>1. before = <<0>> /\ before \in Seq(Nat) /\ Len(before) = 1
        BY <1>2
      <3>2. before = before \o Remote(Len(before), Len(before) - Len(before))
        <4>1. Remote(1, 0) = <<>>
          BY RemoteFacts
        <4>2. QED
          BY <3>1, <4>1
      <3>3. Resumed(before)
        BY <1>1, <3>1, <3>2 DEF Resumed
      <3>4. Grown(before)
        BY <3>1, AppendedItself DEF Grown
      <3>5. QED
        BY <3>3, <3>4 DEF Sound, Kept
    <2>3. QED
      BY <2>1, <2>2 DEF DestInv, Intact
  <1>16. QED
    BY <1>9, <1>10, <1>11, <1>12, <1>13, <1>14, <1>15 DEF IInv

\* Every step.
LEMMA InvStep ==
  ASSUME IInv, [Next]_vars
  PROVE  IInv'
  <1> USE DEF IInv
  <1>1. CASE Next
    <2>1. Shape
      BY <1>1, StepShape
    <2>2. RequestsOK' /\ ResponsesOK' /\ NumbersOK'
      BY <2>1, RequestsStep, ResponsesStep, NumbersStep
    <2>3. DueInv' /\ ReadInv'
      BY <2>1, DueStep, ReadStep
    <2>4. DownloadTypeOK' /\ PlaceInv'
      BY <1>1, TypeStep, PlaceStep
    <2>5. QueueInv' /\ ProgressInv' /\ PartialInv' /\ AppendInv'
      BY <1>1, QueueStep, ProgressStep, PartialStep, AppendStep
    <2>6. DestInv'
      BY <1>1, <2>4, <2>5, DestStep
    <2>7. QED
      BY <2>2, <2>3, <2>4, <2>5, <2>6
  <1>2. CASE UNCHANGED vars
    <2>1. UNCHANGED <<packetVars, choiceVars, attemptVars, progressVars, blockVars, queueVars, serverVars,
                      pc, DeleteLocalFile, call, RemoteHandle, error, result, local, drops>>
      BY <1>2 DEF vars
    <2>2. UNCHANGED <<FMessageCounter, outgoing, incoming, FPacketReservations, FPacketNumbers, stored>>
      BY <2>1 DEF packetVars
    <2>3. UNCHANGED <<Resumable, Params, RealSize, ListedSize, before, cpNoConfirmation, DestFileExists, ResumeTransfer,
                      OverwriteMode, TransferSize, TransferedSize, LocallyUsed>>
      BY <2>1 DEF choiceVars, attemptVars, progressVars
    <2>4. UNCHANGED <<Missing, PrevIncomplete, DataPacket, shorts, FRequests, FTransfered, FMissedRequests,
                      handle, failures>>
      BY <2>1 DEF blockVars, queueVars, serverVars
    <2>5. (RequestsOK /\ ResponsesOK /\ NumbersOK)'
      BY <2>2 DEF RequestsOK, ResponsesOK, StoredInOwnPacket, IsReserved, Contains, NumbersOK, Due, Positions
    <2>6. DownloadTypeOK' /\ PlaceInv' /\ DueInv'
      BY <2>1, <2>2, <2>3, <2>4 DEF DownloadTypeOK, PlaceInv, Preparing, Queueing, Completing, ResumeAllowed, DueInv,
         Due, Noted, IsReserved, Contains, Elements, Positions
    <2>7. ReadInv' /\ QueueInv' /\ ProgressInv'
      BY <2>1, <2>2, <2>3, <2>4 DEF ReadInv, ReadAt, QueueInv, Consecutive, StageInv, HandInv, NoHole, NextOffset,
         InHand, ProgressInv, Queueing, Completing, Elements, Positions
    <2>8. PartialInv' /\ AppendInv'
      <3>1. PartialInv'
        BY <2>1, <2>3 DEF PartialInv, Writing, Queueing, Preparing, LocalFileName
      <3>2. \A base : Grown(base)' <=> Grown(base)
        BY <2>3 DEF Grown, Complete, AppendedTo, Starts
      <3>3. (OverwriteMode = "append" => Appending') /\ (OverwriteMode = "resume" => Continuing')
        BY <2>1, <2>3, <3>2 DEF AppendInv, Appending, Continuing
      <3>4. AppendInv'
        BY <2>1, <2>3, <3>3 DEF AppendInv, Preparing
      <3>5. QED
        BY <3>1, <3>4
    <2>9. DestInv'
      BY <2>1, <2>3 DEF DestInv, Intact, Sound, Kept, Grown, Continued, Resumed, Complete, AppendedTo, Starts, Writing,
         Queueing
    <2>10. QED
      BY <2>5, <2>6, <2>7, <2>8, <2>9
  <1>3. QED
    BY <1>1, <1>2

\* The inductive invariant holds in every state.
THEOREM Invariance == Spec => []IInv
  BY InvInit, InvStep, PTL DEF Spec

\* TypeOK: the variables keep their types, whatever the sizes of the remote
\* file, of a block and of the queue.
THEOREM TypeCorrectness == Spec => []TypeOK
  <1>1. IInv => TypeOK
    BY Halves DEF IInv, TypeOK
  <1>2. QED
    BY <1>1, Invariance, PTL

\* ReadsOwnResponse: whoever waits for a response in SFTPSink or its queue gets
\* the one to his own request, and the check of SFTP_MESSAGE_NUMBER never fails.
THEOREM OwnResponseRead == Spec => []ReadsOwnResponse
  <1>1. ASSUME IInv PROVE ReadsOwnResponse
    <2> USE <1>1 DEF IInv
    <2> SUFFICES ASSUME Awaited # NULL, NEW p \in Acceptable(Awaited) PROVE Verdict(Awaited, p) # "fatal"
      BY DEF ReadsOwnResponse
    <2>1. CASE pc \in {"reading", "dispose"} /\ FRequests # <<>>
      <3>1. Awaited = FRequests[1].number /\ FRequests[1] \in Elements(FRequests)
        BY <2>1, RequestFacts DEF Awaited
      <3>2. call = NULL
        BY <2>1, CallFacts DEF PlaceInv
      <3>3. Awaited \in Nat \ {NULL}
        BY <3>1, NumberFacts DEF DueInv, NULL
      <3>4. \A n \in Due : Noted(n)
        BY <3>2 DEF DueInv, NumbersOK, NULL
      <3>5. p.number = Awaited
        BY <3>3, <3>4, OwnResponse
      <3>6. QED
        BY <3>5 DEF Verdict
    <2>2. CASE ~(pc \in {"reading", "dispose"} /\ FRequests # <<>>)
      <3>1. Awaited = call
        BY <2>2 DEF Awaited
      <3>2. Awaited \in Nat \ {NULL}
        BY <3>1, SizeFacts
      <3>3. p.number = Awaited
        BY <3>1, <3>2, OwnResponse DEF DueInv
      <3>4. QED
        BY <3>3 DEF Verdict
    <2>3. QED
      BY <2>1, <2>2
  <1>2. QED
    BY <1>1, Invariance, PTL

\* So much of the remote file has been appended, or the file continued so far.
LEMMA AppendedSize ==
  ASSUME DownloadTypeOK, AppendInv
  PROVE  /\ OverwriteMode = "append" => AppendedOnce(LocallyUsed)
         /\ OverwriteMode = "resume" => ContinuedTo(LocallyUsed)
  <1>1. ASSUME OverwriteMode = "append" PROVE AppendedOnce(LocallyUsed)
    <2> DEFINE rest == Remote(0, LocallyUsed)
    <2>1. PICK base \in Seq(Nat) : /\ Grown(base) /\ local["dest"] = base \o rest
                                   /\ drops = 0 \/ Params # "cpAppend" => base = before
      BY <1>1 DEF AppendInv, Appending
    <2>2. rest \in Seq(Nat) /\ Len(rest) = LocallyUsed
      BY RemoteFacts, SizeFacts
    <2> DEFINE dest == local["dest"]
               kept == Len(dest) - LocallyUsed
    <2> HIDE DEF rest, dest
    <2>3. dest = base \o rest
      BY <2>1 DEF dest
    <2>4. /\ Len(dest) = Len(base) + LocallyUsed /\ Len(base) \in Nat /\ SubSeq(dest, 1, Len(base)) = base
          /\ SubSeq(dest, Len(base) + 1, Len(base) + LocallyUsed) = rest
      BY <2>2, <2>3, Behind
    <2>5. kept = Len(base)
      <3> DEFINE b == Len(base)
      <3>1. b \in Nat /\ LocallyUsed \in Nat
        BY <2>4, SizeFacts
      <3> HIDE DEF b
      <3>2. (b + LocallyUsed) - LocallyUsed = b
        BY <3>1
      <3>3. QED
        BY <2>4, <3>2 DEF b
    <2>6. kept \in Nat /\ SubSeq(dest, 1, kept) = base /\ SubSeq(dest, kept + 1, kept + LocallyUsed) = rest
      BY <2>4, <2>5
    <2>7. QED
      BY <2>1, <2>6 DEF AppendedOnce, dest, rest
  <1>2. ASSUME OverwriteMode = "resume" PROVE ContinuedTo(LocallyUsed)
    BY <1>2 DEF AppendInv, Continuing, ContinuedTo
  <1>3. QED
    BY <1>1, <1>2

\* WrittenInPlace: what the loop of SFTPSink has written is an unbroken part of
\* the remote file that ends where the transfer is, behind the file that was
\* there - and, if the parameters force appending, behind what lost attempts
\* have appended before.
THEOREM InPlace == Spec => []WrittenInPlace
  <1>1. ASSUME IInv PROVE WrittenInPlace
    <2> SUFFICES ASSUME Transferring
                 PROVE  /\ OverwriteMode = "overwrite" => local[Target] = Remote(0, TransferedSize)
                        /\ OverwriteMode = "append" => AppendedOnce(TransferedSize)
                        /\ OverwriteMode = "resume" => ContinuedTo(TransferedSize)
      BY DEF WrittenInPlace
    <2>1. LocallyUsed = TransferedSize
      BY <1>1 DEF IInv, Transferring, ProgressInv, Queueing
    <2>2. OverwriteMode = "overwrite" => local[Target] = Remote(0, TransferedSize)
      BY <1>1, <2>1 DEF IInv, Transferring, PartialInv, Writing, Queueing, Target
    <2>3. QED
      BY <1>1, <2>1, <2>2, AppendedSize DEF IInv
  <1>2. QED
    BY <1>1, Invariance, PTL

\* DoneIsComplete: a download that SFTPSinkRobust reports done has brought the
\* whole file, or as much of it as the listing has promised.
THEOREM Completeness == Spec => []DoneIsComplete
  <1>1. ASSUME IInv PROVE DoneIsComplete
    <2>1. OverwriteMode = "overwrite" /\ result = "done" => local["dest"] \in Complete
      BY <1>1 DEF IInv, DestInv
    <2>2. result = "done" /\ RealSize = ListedSize => LocallyUsed = RealSize
      BY <1>1 DEF IInv, ProgressInv
    <2>3. /\ OverwriteMode = "append" => AppendedOnce(LocallyUsed)
          /\ OverwriteMode = "resume" => ContinuedTo(LocallyUsed)
      BY <1>1, AppendedSize DEF IInv
    <2>4. QED
      BY <2>1, <2>2, <2>3 DEF DoneIsComplete
  <1>2. QED
    BY <1>1, Invariance, PTL

\* NewOrOld: at every moment of a resumable download there is one complete file,
\* whatever has failed, been cancelled or got lost.
THEOREM OneCompleteFile == Spec => []NewOrOld
  <1>1. ASSUME IInv PROVE NewOrOld
    <2> USE <1>1 DEF IInv
    <2> SUFFICES ASSUME Resumable, RealSize <= ListedSize
                 PROVE  \/ Kept(local["dest"])
                        \/ local["dest"] = NoFile /\ (before = NoFile \/ local["partial"] \in Complete)
      BY DEF NewOrOld
    <2>1. Kept(local["dest"]) \/ local["dest"] = NoFile
      BY DEF DestInv, Intact, Sound
    <2>2. local["dest"] = NoFile => before = NoFile \/ local["partial"] = Remote(0, RealSize)
      BY DEF DestInv
    <2>3. Remote(0, RealSize) \in Complete
      BY DEF Complete
    <2>4. QED
      BY <2>1, <2>2, <2>3
  <1>2. QED
    BY <1>1, Invariance, PTL

\* NoTornFile: a download that is over, or waits for the connection, leaves no
\* beginning of the remote file under the name of the whole.
THEOREM NothingTorn == Spec => []NoTornFile
  <1>1. IInv => NoTornFile
    BY DEF IInv, NoTornFile, DestInv, Intact, Sound, Writing, Queueing
  <1>2. QED
    BY <1>1, Invariance, PTL
=============================================================================
