---------------------------- MODULE SecureShell ----------------------------
(***************************************************************************)
(* How TSecureShell (source/core/SecureShell.cpp) moves bytes between an   *)
(* upload and the socket: Receive, WaitForData and PoolForData, Send and   *)
(* DispatchSendBuffer, FromBackend with the receive handler, and Idle.     *)
(*                                                                         *)
(* All of it runs in one thread at a time, so the hazard is nesting: while *)
(* a function waits, the event loop of a dialog runs timers that read the  *)
(* same socket.  Above is TSFTPUploadQueue, which sends write requests     *)
(* while its handler takes the responses and then receives the remaining   *)
(* ones; a question about the local file may interrupt it, during which    *)
(* TSFTPFileSystem::Idle runs and may send a dummy command.                *)
(*                                                                         *)
(* The bytes of the server are numbered in the order it sends them; it     *)
(* answers each request with a packet of PacketLen bytes.  Below are       *)
(* Winsock's event records and PuTTY's output buffer, as far as the code   *)
(* relies on them.                                                         *)
(*                                                                         *)
(* Left out: stderr, lines, port forwarding sockets and local proxies,     *)
(* keep-alives below SFTP, the opening of the connection, FDataWhileFrozen *)
(* (nothing the handler calls reads the socket), and the close request of  *)
(* the upload, whose sending the handler interrupts as that of a block.    *)
(***************************************************************************)
EXTENDS FiniteSets, Lists

CONSTANTS
  HeaderLen, PayloadLen, \* bytes of a packet: its length, the rest
  Writes,                \* write requests of the upload
  MaxBufSize,            \* requests Send may leave in the output buffer: MAX_BUFSIZE
  Window,                \* requests the network holds
  MaxDummies             \* bound: dummy commands

ASSUME LengthsAssumption == HeaderLen \in Nat \ {0} /\ PayloadLen \in Nat \ {0}
ASSUME LimitsAssumption ==
  /\ Writes \in Nat \ {0} /\ Window \in Nat \ {0}
  /\ MaxBufSize \in Nat /\ MaxDummies \in Nat

VARIABLES
  \* the upload
  pc,
  asked,       \* kinds of the requests sent, in order
  FRequests,   \* the write requests of the queue
  awaited,     \* the request a blocking call waits for, or NULL
  stored,      \* requests whose response was stored in its reserved packet
  discarded,   \* requests whose packet was destroyed before its response came
  packets,     \* packets read
  \* TSecureShell
  OutLen,      \* bytes Receive still needs (0: OutPtr is NULL or satisfied)
  Buf,         \* the bytes received of the packet being read
  Pending,
  FOnReceive,  \* is the handler registered?
  FFrozen,     \* is it running?
  behind,      \* network events enumerated with the one it runs in, handled after it
  BufSize,     \* what send() has returned
  Events,      \* network events captured by PoolForData
  \* the socket
  flushed,     \* requests that have left the output buffer
  writable, blocked, \* PuTTY may send; Winsock owes a write event
  answered,    \* requests executed and answered by the server, in this order
  arrived,     \* bytes of the answers that have reached the socket
  delivered,   \* bytes read from it
  armed,       \* would new data be recorded as a read event?
  recorded,    \* network events recorded and not enumerated yet
  closed,      \* is the connection lost?
  \* history
  confused,    \* a packet was misread, or overwritten while it was received
  forgotten    \* an event was captured or enumerated, and not handled

uploadVars == <<asked, FRequests, awaited, stored, discarded, packets>>
receiveVars == <<OutLen, Buf, Pending, FFrozen, behind, delivered>>
outputVars == <<flushed, writable, blocked>>
socketVars == <<armed, recorded>>
serverVars == <<answered, arrived, closed>>
historyVars == <<confused, forgotten>>
vars == <<pc, uploadVars, receiveVars, FOnReceive, BufSize, Events, outputVars, socketVars,
          serverVars, historyVars>>

NULL == 0
PacketLen == HeaderLen + PayloadLen
Packet(byte) == answered[(byte - 1) \div PacketLen + 1]  \* the request it answers
StartsPacket(byte) == (byte - 1) % PacketLen = 0
Remaining == Len(asked) - flushed  \* FBackend->sendbuffer

Prefix(s, n) == SubSeq(s, 1, n)
Suffix(s, n) == SubSeq(s, n + 1, Len(s))
Fewer(m, n) == IF m < n THEN m ELSE n

----------------------------------------------------------------------------
(* Reading from the socket                                                 *)

\* Mutant: more is taken than Receive has asked for.
NotLimited(data) ==
  /\ OutLen' = OutLen - Len(data)
  /\ Buf' = Buf \o data
  /\ UNCHANGED Pending

\* Mutant: what the buffer of Receive takes is kept as pending, too.
KeptTwice(data) ==
  /\ OutLen' = OutLen - Fewer(OutLen, Len(data))
  /\ Buf' = Buf \o Prefix(data, Fewer(OutLen, Len(data)))
  /\ Pending' = Pending \o data

\* FromBackend: the buffer of Receive first, the rest is pending.
Distribute(data) ==
  LET Used == Fewer(OutLen, Len(data))
  IN /\ OutLen' = OutLen - Used
     /\ Buf' = Buf \o Prefix(data, Used)
     /\ Pending' = Pending \o Suffix(data, Used)

\* Then the handler runs, before the events behind this one are handled.
FromBackend(data, others) ==
  /\ Distribute(data)
  /\ FFrozen' = FOnReceive
  /\ behind' = IF FOnReceive THEN others ELSE {}
  /\ delivered' = delivered + Len(data)

\* The backend reads; Winsock records what is left as a new event.
HandleRead(others, next) ==
  /\ IF arrived > delivered
       THEN \E n \in 1..(arrived - delivered) :
              FromBackend([k \in 1..n |-> delivered + k], others)
       ELSE UNCHANGED receiveVars
  /\ armed' = (delivered' = arrived)
  /\ recorded' = next \union IF armed' THEN {} ELSE {"read"}

\* PuTTY's try_send, with `total' requests: Winsock takes what there is room for,
\* and owes an event when it had to refuse the rest.
TrySend(total) ==
  /\ flushed' = Fewer(total, Len(answered) + Window)
  /\ writable' = (flushed' = total)
  /\ blocked' = ~writable'

\* The events after a read.  A closed connection is fatal.
HandleOthers(events, next) ==
  /\ IF "write" \in events THEN TrySend(Len(asked)) ELSE UNCHANGED outputVars
  /\ pc' = IF "close" \in events THEN "failed" ELSE next

\* HandleNetworkEvents; `others' stay recorded.
HandleNetworkEvents(events, others, next) ==
  /\ IF "read" \in events THEN HandleRead(events \ {"read"}, others)
                          ELSE recorded' = others /\ UNCHANGED <<receiveVars, armed>>
  /\ IF FFrozen' THEN pc' = next /\ UNCHANGED outputVars
                 ELSE HandleOthers(events, next)

\* EventSelectLoop with no Events: enumerates and handles what is recorded.
EventSelectLoop(next) ==
  /\ HandleNetworkEvents(recorded, {}, next)
  /\ UNCHANGED <<uploadVars, FOnReceive, BufSize, Events, serverVars, historyVars>>

----------------------------------------------------------------------------
(* TSFTPAsynchronousQueue::ReceiveHandler                                  *)

\* PeekPacket
Peeked == Len(Pending) >= PacketLen /\ StartsPacket(Pending[1])

\* Its length would be beyond SFTP_MAX_PACKET_LEN: the first of these bytes is
\* the type of a packet.
LengthInvalid == Len(Pending) >= HeaderLen /\ ~StartsPacket(Pending[1])

\* Mutant: the handler takes one response, whatever has arrived.
HandlesOnce == FALSE

\* ReceivePacketAsynchronously returns TRUE.
HandlesMore == TRUE

\* ReceivePacket reads a packet that is pending.
TakePacket ==
  /\ Pending' = Suffix(Pending, PacketLen)
  /\ packets' = packets + 1

\* The response to another request is stored, or discarded when its packet has
\* been destroyed; with `gone', the requests whose packets are destroyed now.
StoreReserved(q, gone) ==
  /\ stored' = IF q \in discarded THEN stored ELSE stored \union {q}
  /\ discarded' = (discarded \ {q}) \union gone

\* What the handler does next; nothing is reserved for a dummy command.
HandlerRuns == pc # "failed" /\ FFrozen /\ FRequests # <<>> /\ Peeked
Oldest == Head(FRequests)
OfDummy == asked[Packet(Pending[1])] = "dummy"

\* The response to the oldest request, which may have been stored before.
HandlerReceives ==
  /\ HandlerRuns
  /\ \/ /\ Oldest \in stored
        /\ stored' = stored \ {Oldest}
        /\ UNCHANGED <<Pending, packets>>
     \/ /\ Oldest \notin stored /\ Packet(Pending[1]) = Oldest
        /\ TakePacket /\ UNCHANGED stored
  /\ FRequests' = Tail(FRequests)
  /\ FFrozen' = HandlesMore
  /\ UNCHANGED <<pc, asked, awaited, discarded, OutLen, Buf, behind, delivered, FOnReceive, BufSize,
                 Events, outputVars, socketVars, serverVars, historyVars>>

\* Mutant: the handler stays registered.
StaysRegistered == FOnReceive

\* UnregisterReceiveHandler
Unregistered == FALSE

\* The exception of ReceivePacket that finds no other packet pending, behind one
\* that was not for it: the packets of the oldest request are destroyed, and the
\* events behind are lost.  Out of Send it ends the upload, which disposes its
\* queue; the timer of a dialog shows it.  What comes of it is not followed when
\* PuTTY loses other data it has read, or when it ends a dummy command.
HandlerThrows ==
  /\ FRequests' = Tail(FRequests)
  /\ FFrozen' = FALSE /\ behind' = {}
  /\ forgotten' = (forgotten \/ behind # {})
  /\ \/ awaited = NULL /\ pc \in {"sent", "dispatch"} /\ pc' = "read" /\ FOnReceive' = Unregistered
     \/ awaited = NULL /\ pc \in {"question", "stalled"} /\ UNCHANGED <<pc, FOnReceive>>
     \/ pc' = "failed" /\ UNCHANGED FOnReceive

\* The response to another request, and then another packet or the exception.
HandlerStores ==
  /\ HandlerRuns
  /\ Oldest \notin stored /\ Packet(Pending[1]) # Oldest /\ ~OfDummy
  /\ TakePacket
  /\ IF Peeked' \/ LengthInvalid'
       THEN /\ StoreReserved(Packet(Pending[1]), {})
            /\ UNCHANGED <<pc, FRequests, FFrozen, behind, FOnReceive, forgotten>>
       ELSE StoreReserved(Packet(Pending[1]), {Oldest}) /\ HandlerThrows
  /\ UNCHANGED <<asked, awaited, OutLen, Buf, delivered, BufSize, Events, outputVars, socketVars,
                 serverVars, confused>>

\* The length is fatal; or the response to a dummy command is taken for the one
\* to the oldest request, which is fatal, too.
HandlerMisreads ==
  /\ pc # "failed" /\ FFrozen
  /\ LengthInvalid \/ (HandlerRuns /\ Oldest \notin stored /\ OfDummy)
  /\ pc' = "failed" /\ confused' = TRUE
  /\ UNCHANGED <<uploadVars, receiveVars, FOnReceive, BufSize, Events, outputVars, socketVars,
                 serverVars, forgotten>>

HandlerEnds ==
  /\ pc # "failed" /\ FFrozen
  /\ ~LengthInvalid /\ (FRequests = <<>> \/ ~Peeked)
  /\ FFrozen' = FALSE /\ behind' = {}
  /\ HandleOthers(behind, pc)
  /\ UNCHANGED <<uploadVars, OutLen, Buf, Pending, delivered, FOnReceive, BufSize, Events,
                 socketVars, serverVars, historyVars>>

----------------------------------------------------------------------------
(* Sending                                                                 *)

\* FBackend->send, the first thing Send does.
SendPacket(kind) ==
  /\ asked' = Append(asked, kind)
  /\ IF writable THEN TrySend(Len(asked) + 1) ELSE UNCHANGED outputVars
  /\ BufSize' = Len(asked) + 1 - flushed'
  /\ pc' = "send"

WriteRequests == {k \in Positions(asked) : asked[k] = "write"}

\* TSFTPUploadQueue::SendRequest
SendWrite ==
  /\ pc = "sending" /\ Cardinality(WriteRequests) < Writes
  /\ SendPacket("write")
  /\ FRequests' = Append(FRequests, Len(asked) + 1)
  /\ UNCHANGED <<awaited, stored, discarded, packets, receiveVars, FOnReceive, Events, socketVars,
                 serverVars, historyVars>>

\* Among others, forces receiving of pending data.
SendSelects == pc = "send" /\ EventSelectLoop("sent")

\* The call that Send was part of goes on.
Return == IF awaited = NULL THEN "sending" ELSE "read"

Sent ==
  /\ pc = "sent" /\ ~FFrozen
  /\ pc' = IF BufSize > MaxBufSize THEN "dispatch" ELSE Return
  /\ UNCHANGED <<uploadVars, receiveVars, FOnReceive, BufSize, Events, outputVars, socketVars,
                 serverVars, historyVars>>

\* DispatchSendBuffer; a prompt that finds the buffer flushed answers itself.
Dispatches == pc = "dispatch" /\ ~FFrozen /\ recorded # {} /\ EventSelectLoop("dispatch")

Dispatched ==
  /\ pc \in {"dispatch", "stalled"} /\ ~FFrozen
  /\ Remaining <= MaxBufSize
  /\ pc' = Return
  /\ UNCHANGED <<uploadVars, receiveVars, FOnReceive, BufSize, Events, outputVars, socketVars,
                 serverVars, historyVars>>

----------------------------------------------------------------------------
(* Receiving                                                               *)

\* The beginning of Receive: n bytes, of which some may be pending already.
Receive(n) ==
  LET Used == Fewer(n, Len(Pending))
  IN /\ Buf' = Buf \o Prefix(Pending, Used)
     /\ Pending' = Suffix(Pending, Used)
     /\ OutLen' = n - Used

\* The request that is waited for: of the dummy command, or of the queue.
Target == IF awaited # NULL THEN awaited ELSE Head(FRequests)

Receiving == pc \in {"read", "receive"} /\ ~FFrozen /\ OutLen = 0

ReceiveHeader ==
  /\ Receiving /\ pc = "read"
  /\ awaited # NULL \/ FRequests # <<>>
  /\ Target \notin stored
  /\ pc' = "receive"
  /\ Receive(HeaderLen)
  /\ UNCHANGED <<uploadVars, FFrozen, behind, delivered, FOnReceive, BufSize, Events, outputVars,
                 socketVars, serverVars, historyVars>>

ReceivePayload ==
  /\ Receiving /\ Len(Buf) = HeaderLen
  /\ Receive(PayloadLen)
  /\ UNCHANGED <<pc, uploadVars, FFrozen, behind, delivered, FOnReceive, BufSize, Events, outputVars,
                 socketVars, serverVars, historyVars>>

\* ReceivePacket returns: Dispose goes on with the next request, and after the
\* dummy command Idle returns to the question.
ResponseReceived ==
  IF awaited # NULL
    THEN awaited' = NULL /\ pc' = "question" /\ UNCHANGED FRequests
    ELSE FRequests' = Tail(FRequests) /\ pc' = "read" /\ UNCHANGED awaited

PacketReceived ==
  /\ Receiving /\ Len(Buf) = PacketLen
  /\ Buf' = <<>> /\ packets' = packets + 1
  /\ IF Packet(Buf[1]) = Target
       THEN ResponseReceived /\ UNCHANGED <<stored, discarded>>
       ELSE /\ StoreReserved(Packet(Buf[1]), {})
            /\ pc' = "read"
            /\ UNCHANGED <<FRequests, awaited>>
  /\ UNCHANGED <<asked, OutLen, Pending, FFrozen, behind, delivered, FOnReceive, BufSize, Events,
                 outputVars, socketVars, serverVars, historyVars>>

StoredBefore ==
  /\ Receiving /\ pc = "read"
  /\ awaited # NULL \/ FRequests # <<>>
  /\ Target \in stored
  /\ stored' = stored \ {Target}
  /\ ResponseReceived
  /\ UNCHANGED <<asked, discarded, packets, receiveVars, FOnReceive, BufSize, Events, outputVars,
                 socketVars, serverVars, historyVars>>

\* WaitForData
Waits == pc = "receive" /\ OutLen > 0 /\ ~FFrozen /\ recorded # {} /\ EventSelectLoop("receive")

\* PoolForData, by the timer of the prompt: the events are only captured.
PoolForData ==
  /\ pc = "timeout" /\ recorded # {}
  /\ Events' = Events \union recorded
  /\ recorded' = {}
  /\ pc' = IF Events' \intersect {"read", "close"} # {} THEN "answered" ELSE "timeout"
  /\ UNCHANGED <<uploadVars, receiveVars, FOnReceive, BufSize, outputVars, armed, serverVars,
                 historyVars>>

\* The prompt has answered itself: what was captured is handled now.
HandleCaptured ==
  /\ pc = "answered"
  /\ HandleNetworkEvents(Events, recorded, "receive")
  /\ Events' = {}
  /\ UNCHANGED <<uploadVars, FOnReceive, BufSize, serverVars, historyVars>>

----------------------------------------------------------------------------
(* Questions                                                               *)

\* Mutant: Idle reads the socket while WaitForData asks.
IdleSelectsAlways == pc \in {"question", "stalled", "timeout"}

\* FWaitingForData <= 0
IdleSelects == pc \in {"question", "stalled"}

\* TSecureShell::Idle, by the timer of the main window; not from a dummy command
\* (FNesting of TTerminal).
Idle ==
  /\ IdleSelects /\ awaited = NULL /\ ~FFrozen /\ recorded # {}
  /\ EventSelectLoop(pc)

\* TSFTPFileSystem::Idle while nobody waits for the server (Ready): a dummy command.
Dummies == Cardinality({k \in Positions(asked) : asked[k] = "dummy"})
SendDummy ==
  /\ pc = "question" /\ ~FFrozen
  /\ Dummies < MaxDummies
  /\ SendPacket("dummy")
  /\ awaited' = Len(asked) + 1
  /\ UNCHANGED <<FRequests, stored, discarded, packets, receiveVars, FOnReceive, Events, socketVars,
                 serverVars, historyVars>>

\* A block of the local file cannot be read.
Ask ==
  /\ pc = "sending" /\ Cardinality(WriteRequests) < Writes
  /\ pc' = "question"
  /\ UNCHANGED <<uploadVars, receiveVars, FOnReceive, BufSize, Events, outputVars, socketVars,
                 serverVars, historyVars>>

Retry ==
  /\ pc = "question" /\ ~FFrozen
  /\ pc' = "sending"
  /\ UNCHANGED <<uploadVars, receiveVars, FOnReceive, BufSize, Events, outputVars, socketVars,
                 serverVars, historyVars>>

\* TSFTPAsynchronousQueue::Dispose, of a complete upload or of one that is given up.
Dispose ==
  /\ ~FFrozen
  /\ \/ pc = "sending" /\ Cardinality(WriteRequests) = Writes
     \/ pc = "question"
  /\ pc' = "read" /\ FOnReceive' = Unregistered
  /\ UNCHANGED <<uploadVars, receiveVars, BufSize, Events, outputVars, socketVars, serverVars,
                 historyVars>>

Disposed ==
  /\ Receiving /\ pc = "read" /\ awaited = NULL /\ FRequests = <<>>
  /\ pc' = "done"
  /\ UNCHANGED <<uploadVars, receiveVars, FOnReceive, BufSize, Events, outputVars, socketVars,
                 serverVars, historyVars>>

\* TimeoutPrompt, of WaitForData and of DispatchSendBuffer.
TimesOut ==
  /\ ~FFrozen /\ recorded = {}
  /\ \/ pc = "receive" /\ OutLen > 0 /\ pc' = "timeout"
     \/ pc = "dispatch" /\ pc' = "stalled"
  /\ UNCHANGED <<uploadVars, receiveVars, FOnReceive, BufSize, Events, outputVars, socketVars,
                 serverVars, historyVars>>

\* To wait again: what PoolForData has captured is forgotten.  Or to abort.
Prolong ==
  /\ ~FFrozen
  /\ \/ pc = "timeout" /\ pc' = "receive"
     \/ pc = "stalled" /\ pc' = "dispatch"
     \/ pc \in {"timeout", "stalled"} /\ pc' = "failed"
  /\ Events' = {}
  /\ forgotten' = (forgotten \/ "write" \in Events)
  /\ UNCHANGED <<uploadVars, receiveVars, FOnReceive, BufSize, outputVars, socketVars,
                 serverVars, confused>>

----------------------------------------------------------------------------
(* The network and the server                                              *)

Records(event) == recorded' = recorded \union {event}

\* A request is executed and answered; there is room for another one.
Answer ==
  /\ ~closed
  /\ \E q \in 1..flushed : ~Contains(answered, q) /\ answered' = Append(answered, q)
  /\ IF blocked THEN Records("write") ELSE UNCHANGED recorded
  /\ blocked' = FALSE
  /\ UNCHANGED <<pc, uploadVars, receiveVars, FOnReceive, BufSize, Events, flushed, writable,
                 armed, arrived, closed, historyVars>>

\* Bytes arrive: of an answer, or others that nobody above the backend sees.
Arrive ==
  /\ ~closed
  /\ \E n \in 0..(Len(answered) * PacketLen - arrived) : arrived' = arrived + n
  /\ IF armed THEN Records("read") ELSE UNCHANGED recorded
  /\ armed' = FALSE
  /\ UNCHANGED <<pc, uploadVars, receiveVars, FOnReceive, BufSize, Events, outputVars,
                 answered, closed, historyVars>>

Close ==
  /\ ~closed
  /\ closed' = TRUE /\ Records("close")
  /\ UNCHANGED <<pc, uploadVars, receiveVars, FOnReceive, BufSize, Events, outputVars, armed,
                 answered, arrived, historyVars>>

----------------------------------------------------------------------------
Init ==
  /\ pc = "sending"
  /\ asked = <<>> /\ FRequests = <<>> /\ awaited = NULL /\ stored = {}
  /\ discarded = {} /\ packets = 0
  /\ OutLen = 0 /\ Buf = <<>> /\ Pending = <<>> /\ FOnReceive = TRUE /\ FFrozen = FALSE
  /\ behind = {}
  /\ BufSize = 0 /\ Events = {}
  /\ flushed = 0 /\ writable = TRUE /\ blocked = FALSE
  /\ answered = <<>> /\ arrived = 0 /\ delivered = 0
  /\ armed = TRUE /\ recorded = {} /\ closed = FALSE
  /\ confused = FALSE /\ forgotten = FALSE

Handler == HandlerReceives \/ HandlerStores \/ HandlerMisreads \/ HandlerEnds
Program ==
  \/ Handler \/ SendWrite \/ SendSelects \/ Sent \/ Dispatches \/ Dispatched
  \/ ReceiveHeader \/ ReceivePayload \/ PacketReceived \/ StoredBefore
  \/ Waits \/ PoolForData \/ HandleCaptured \/ Idle \/ Disposed
User == Ask \/ Retry \/ Dispose \/ SendDummy \/ TimesOut \/ Prolong
MoreArrives == arrived < Len(answered) * PacketLen /\ Arrive /\ arrived' > arrived

Next == Program \/ User \/ Answer \/ Arrive \/ Close

Spec == Init /\ [][Next]_vars

\* The thread runs and its timers fire (the output buffer is looked at after each
\* pass), the server answers and its answers arrive unless the connection is lost;
\* the user need not answer anything.
FairSpec ==
  /\ Spec
  /\ WF_vars(Program) /\ WF_vars(Dispatched)
  /\ WF_vars(Answer) /\ WF_vars(MoreArrives)

----------------------------------------------------------------------------
Requests == 1..(Writes + MaxDummies)
Bytes == 1..((Writes + MaxDummies) * PacketLen)
NetworkEvents == SUBSET {"read", "write", "close"}

TypeOK ==
  /\ pc \in {"sending", "question", "send", "sent", "dispatch", "stalled", "read", "receive",
             "timeout", "answered", "done", "failed"}
  /\ asked \in Seq({"write", "dummy"}) /\ FRequests \in Seq(Requests)
  /\ awaited \in Requests \union {NULL} /\ stored \subseteq Requests /\ discarded \subseteq Requests
  /\ packets \in 0..Len(asked) /\ OutLen \in 0..PacketLen
  /\ Buf \in Seq(Bytes) /\ Pending \in Seq(Bytes)
  /\ {FOnReceive, FFrozen, writable, blocked, armed, closed} \subseteq BOOLEAN
  /\ Events \in NetworkEvents /\ recorded \in NetworkEvents /\ behind \in NetworkEvents
  /\ BufSize \in Nat
  /\ flushed \in 0..Len(asked) /\ answered \in Seq(1..flushed)
  /\ arrived \in 0..(Len(answered) * PacketLen) /\ delivered \in 0..arrived
  /\ {confused, forgotten} \subseteq BOOLEAN

\* Every byte is handed on once and in its place, however the answers are cut
\* into pieces and whoever reads them: what is in the buffer of Receive and what
\* is pending are all the bytes that no packet read so far accounts for.
Consecutive(s) == \A k \in 2..Len(s) : s[k] = s[k - 1] + 1
StreamIntact ==
  pc # "failed" =>
    /\ Len(Buf) + Len(Pending) = delivered - packets * PacketLen
    /\ Consecutive(Buf) /\ Consecutive(Pending)
    /\ Buf # <<>> => StartsPacket(Buf[1])
    /\ Pending # <<>> => Pending[Len(Pending)] = delivered

\* Unless a dummy command interrupts the upload, the handler does not run between
\* the two calls of Receive that read a packet: nobody takes the middle of a
\* packet for its beginning or fills a packet that another one is filling.
NotConfused == confused => Dummies > 0

\* Whatever the order of the answers: the response to a request of the queue that
\* has arrived while requests are sent, or while the user is asked, is not left
\* behind in the pending bytes.
Complete(k) == StartsPacket(Pending[k]) /\ Len(Pending) - k + 1 >= PacketLen
ResponsesTaken ==
  pc # "failed" /\ FOnReceive /\ ~FFrozen /\ awaited = NULL =>
    \A k \in Positions(Pending) : Complete(k) => ~Contains(FRequests, Packet(Pending[k]))

\* A call that waits for the network ends, whether or not the user is asked in
\* the meantime and whatever he answers: Idle does not take the event that
\* WaitForData needs, and what PoolForData took is handled.  Excepted is a write
\* event that PoolForData has taken, while the prompt stays (its comment says so)
\* and when the user prolongs; an event that the exception of the handler loses;
\* and from a dummy command Idle is not run.
Waiting == pc \in {"receive", "timeout", "answered"}
Sending == pc \in {"send", "sent", "dispatch", "stalled"} /\ awaited = NULL
CallsEnd ==
  /\ Waiting ~> (~Waiting \/ "write" \in Events \/ forgotten)
  /\ Sending ~> (~Sending \/ forgotten)
=============================================================================
