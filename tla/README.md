# A model of WinSCP's transfer core

TLA+ modules that model the parts of WinSCP (`source/core`) where threads,
connections and servers meet: the background transfer queue, the worker that
executes a transfer while the user interferes with it, the session thread that
opens a connection while the main thread answers its questions, upload and
download of a file over SFTP with their pipelined requests, and the secure shell
that moves their bytes while dialogs, timers and callbacks nest.  Each module is
checked with TLC on small instances.  With TLAPS it is proved for every size that
the types are right and every safety property the runs check, some under a named
hypothesis: the pool of workers of the queue, what its items go through, up to the
refinement of an abstract queue, the worker's pointers and questions, the rendezvous of the
session thread, what an upload may resume from and leaves behind, where a download
writes and what it leaves behind, the order of the bytes in the secure shell.

## Inventory of the system

| Part | State | Operations | Meets | Hard about it |
|---|---|---|---|---|
| Background queue, `Queue.cpp` `TTerminalQueue` | `FItems`, `FDoneItems`, `FItemsInProcess`, `FForcedItems`, `FTerminals`, `FFreeTerminals`, `FTemporaryTerminals`, limits, `FEnabled`, `FTerminated` | AddItem, ItemMove, ItemExecuteNow, ItemDelete, SetTransfersLimit, SetKeepDoneItemsFor, SetEnabled, Idle, ProcessEvent, RetryItem, DeleteItem, TerminalFree, TerminalFinished, destructor | workers (calls both ways), user interface (events, proxies) | one critical section, flags read outside of it, indices into lists that others change |
| Worker, `TTerminalItem` with `TSignalThread` | `FItem`, `FCancel`, `FPause`, `FUserAction`, the auto-reset event | Process, ProcessEvent, questions, Pause, Resume, Cancel, ProcessUserAction, Idle | queue, user interface, its own `TTerminal` | one event for three purposes, pointers used after the section is left |
| Transfer, `TQueueItem` | `FStatus`, `FTerminalItem`, `FCompleteEvent`, progress | SetStatus, Complete, Execute | worker, monitors | freed from several places |
| Session thread, `TTerminalThread` | `FAction`, `FUserAction`, `FCancel`, two exceptions, two events | RunAction, WaitForUserAction, Idle, Cancel | user interface, `TTerminal` | rendezvous of two threads, exceptions carried across, abandonment |
| SFTP packets, `TSFTPFileSystem` | `FPacketReservations`, `FPacketNumbers`, `FMessageCounter` | SendPacket, ReserveResponse, UnreserveResponse, ReceivePacket, ReceiveResponse | server through `TSecureShell`, queues | responses out of order, packets destroyed before their response |
| SFTP upload, `SFTPSource` and `TSFTPUploadQueue` | requests under way, close and properties packets, `TransferFinished`, resume state | check, open, write, close, delete, rename, set properties, retry, reopen | packets, server, user | pipelining, errors that arrive late, lost connections, resuming |
| SFTP download, `SFTPSinkRobust`, `SFTPSink` and `TSFTPDownloadQueue` | requests under way, gaps, counters of the progress, partial and final local file | check, open, confirm, read, fill gaps, close, dispose, replace, retry, reopen | packets, server, user | short responses, sizes that differ from the listing, resuming, what a failure leaves behind |
| Secure shell, `TSecureShell` and `PuttyIntf` | `Pending`, the buffer of Receive, `FFrozen`, `FWaitingForData`, network events, the output buffer | Send, DispatchSendBuffer, Receive, WaitForData, PoolForData, FromBackend, Idle | SSH engine, Winsock, file systems | nesting: callbacks and timers that read what somebody else waits for, events seen once |
| Terminal, `TTerminal` | session status, transactions, caches | Open, Reopen, Close, file operations, Synchronize | file systems, everyone above | reconnecting, nested operations |
| FTP, SCP, WebDAV file systems | their conversation | the same operations | their engines | FTP: messages between two threads |
| Scripting, settings, logs, masks, cryptography | configuration, files | parsing, storing, matching | terminal | data, hardly any control |
| Windows application, console, .NET library | windows, queue controller, editors | user operations | all of the core | user interface logic |

`PROJECT.json` lists all parts with what is not modelled and why, and the hazards
of the code with the property that covers each or the reason that none does.

## Modules

`Lists` holds the operations of `TList` as functions of the position.

`TransferQueue` is what the queue promises, without threads: transfers wait in
order, are started from the front, leave or go back to the end.

`TerminalQueue` is the queue.  A block under `FItemsSection` is one action
(`ProcessEvent`, `RetryItem`, `DeleteItem`, `TerminalFree`, `TerminalFinished`,
the user's operations), because a `TGuard` makes it one; the destructor, which
keeps the section while it waits, is split (`EnterItemsSection`,
`TerminateFirst`, `DeleteTerminal`, `FreeItems`).  A worker between two such
blocks is cut where another thread can tell: `Begin` (it takes its item and the
status changes), `Opened`, `StartTransfer`, `Detach` (status done, pointers
cleared).  The look at `FTerminated` that precedes the section in the code is a
step of its own at the only time it matters: `passed` are the workers that had
looked when `Close` set it.  `pc` says where a worker is, `qpc` and `uipc` where
the queue thread and the user interface thread are.  Undefined behaviour (a
freed item used, a pointer that is NULL), and a transfer that is taken on twice, is
recorded in the set `faults`; of the outcomes of the former the mildest is taken,
that nothing else happens.

`TerminalItem` is one worker in detail: the auto-reset event `FEvent`,
`ProcessEvent` statement by statement where threads can interleave,
`WaitForUserAction`, `OperationProgress` with its pause, and the user's requests
as they are in the code: the look-up under `FItemsSection`, then the act on the
worker outside of it (`ItemDelete` alone keeps the section).  `Resume` and `Cancel`
decide by the status whether to set the event, and the worker changes the status
only after it has been woken: `stray` records that they have set it for a wait that
was being left, or over the head of a question (`SetsEvent`).  The queue around the
worker is reduced to handing out an item while it is free.

`SftpPackets` is the packet layer: numbered requests, the two parallel lists of
reservations, storing and discarding of reserved responses.  A packet object that
takes a response is identified by the number of its request.  `StoreReserved` is
one turn of the loop of `ReceivePacket`, `Accept` its end, `Verdict` the checks of
`GotStatusPacket` and `ReceiveResponse`, in that order.  The kinds of requests and
the files they name are constants, so that other conversations can use it.

`SftpUpload` is one file uploaded on top of it: `SFTPSourceRobust` (`Reopen`,
`GiveUp`), `SFTPSource` and `SFTPCloseRemote`, with the server (`Serve`), the
connection (`Drop`) and the receive handler of the queue, which may take a response at
the three places where `SendPacket` runs while the queue is alive (`Sending`).  The
handler does not wait: when it has put aside a response that came first and nothing
else is complete, `ReceivePacket` throws (`HandleThrows`; `TSFTPPacket()` assigned at
line 2518 has no type to read), the packets of the oldest request are destroyed, and
the exception leaves `SendPacket` (`SendPacketThrows`): out of the transfer, or
ignored by `SFTPCloseRemote`, which then does not reserve the response to the close.
`overtaken` says that the handler is at that point.  A blocking call is two steps,
`SendCall` and the action that reads its response.  A fatal error (`Drop`,
`WrongNumber`) leaves all functions: the packets are destroyed one by one (`Unwind`,
`UnreserveResponse` of their destructors) before the question about reconnecting is
asked (`Unwound`).  A file's contents are the set of blocks written to it.

`SftpDownload` is one file downloaded on top of the same packet layer:
`SFTPSinkRobust` (`Reopen`, `GiveUp`), `SFTPSink` and `TSFTPDownloadQueue`.  A block
is received (`ReceiveData`, or `FillData` for the blocking request that fills a
gap), then as many requests are sent as were answered (`SendRequest`), then the
block is judged and written (`Process`).  `Missing` and `PrevIncomplete` are the two
local variables by which the code tells a short response from the end of the file;
`TransferSize`, `TransferedSize` and `LocallyUsed` are the counters of
`TFileOperationProgressType` it decides by.  `DataPacket` is the response in hand.
`Unwound` and `CleanUp` are the `__finally` of `SFTPSink`, with and without a
session.  The local files are sequences of the remote file's units.

`TerminalThread` is the rendezvous of two threads by which a session is opened:
`RunAction` on the main thread (`mpc`), `ProcessEvent` and `WaitForUserAction` on the
session thread (`wpc`), statement by statement where they touch the same variables.
`FEvent` and `FActionEvent` are auto-reset events.  `FSection` is not a variable:
`SectionFree` says when the session thread is outside of it, and every other use of
it is one step.  `TTerminal::Open` is any sequence of user actions, a connection and
a failure, with the Information call of its `__finally` last.  `waits` is the stack
of calls of `WaitForUserAction`, two deep when the upkeep asks.

`SecureShell` is the traffic between an upload and the socket.  Functions that wait
are states (`pc`): `receive` is `WaitForData` within `Receive`, `timeout` the prompt
it shows, `dispatch` and `stalled` the same for `DispatchSendBuffer`, `question` a
question of the upload about its local file.  `EventSelectLoop` enumerates the
recorded network events and handles them; `FromBackend` fills the buffer of
`Receive` first (`Distribute`), and runs the receive handler of the queue while
`FFrozen`.  Winsock's event records (`armed`, `recorded`, `blocked`) and PuTTY's
output buffer (`flushed`, `writable`) are external and modelled as far as the code
relies on them: an event is recorded once, and again only after the socket has
been used.

`MCTerminalQueue`, `MCTerminalItem`, `MCTerminalThread`, `MCSftpUpload`,
`MCSftpDownload` and `MCSecureShell` instantiate them for TLC.
`ListsProofs` and `SftpPacketsProofs` hold the lemmas about the lists and the
packet layer; the theorems about a component are in the module named after it,
`TerminalQueueProofs`, `TerminalItemProofs`, `TerminalThreadProofs`,
`SftpUploadProofs`, `SftpDownloadProofs` and `SecureShellProofs`.

The modules meet at these seams: `TerminalQueue` sees of a worker what
`TerminalItem` shows in detail; `SftpUpload` and `SftpDownload` are composed with
`SftpPackets` by EXTENDS and see the shell as a set of responses that have come;
`SecureShell` sees of the packets only their length and whose answer they are, and
takes the place of that set.

### What the models leave out

* Queue: texts, proxies and status snapshots, several queues; an item is added
  once.  Connections fail or are lost `MaxFailures` times.
* Worker: what a transfer does between two calls back to the worker.
* Session thread: the text of questions, the wrapping of exceptions in others, a
  user action called from the main thread itself (it is executed on the spot).
* Upload: ASCII mode, append and alternate resume, renaming in the overwrite
  prompt, the recycle bin, directories; the local file is read without retry; the
  two existence checks are one request.  `FMessageCounter` starts again with each
  connection.  A timeout counts as a lost connection.  The server
  answers in the order of the requests except for the kinds in `Overtaking`, a
  refused close closes the handle, and nobody else touches the files.
* Download: ASCII mode, renaming in the overwrite prompt, times and attributes,
  deleting the source, directories; all requests of the queue ask for the same
  number of units (the code adapts it to the speed), and the remote file does not
  change meanwhile.
* Secure shell: stderr, lines, port forwarding sockets, local proxies, opening and
  authentication, keep-alives below SFTP.  `FDataWhileFrozen` is not a variable:
  `TTerminal::Progress` and `ProcessGUI` hold `FNesting`, so that nothing the
  handler calls reads the socket.  An exception of the handler leaves PuTTY as well:
  what that had read beyond the last packet is lost, and from there on, and when the
  exception ends a dummy command, the model only says `failed`.
* Holes: the code loses track of refused writes (finding 3 and the section after
  it), and the user can have the file deleted that is being resumed (finding 4).
  `holed` records either, and the properties about contents hold as long as it is
  FALSE.

## Runs

| Run | Question | Bounds, and why they suffice |
|---|---|---|
| `queue_order` | does the queue implement `TransferQueue`, are the items in process a prefix, are free terminals idle | 3 items, 3 workers, limits none, 1 and 2, 1 failed or lost connection: one item in process, one forced past one that waits, a terminal that comes back without its session; `delete` and `move` are left out because the prefix is lost with them |
| `queue_completion` | is the pool sound, and a monitor told exactly when its transfer leaves, while items are moved, deleted and forced, and the queue is closed | 2 items, both forced up to twice, 2 workers, limit 1, 2 clicks: a temporary terminal and Idle compete, an item in a hand is moved or deleted, all four ways out of the queue; the limit stays and connections hold, which `queue_order` and the theorems are for |
| `queue_service` | does a forced item start, does every item leave | 3 items, one of them forced while the only worker is busy or idle |
| `item_requests` | do pointers between item, worker and question stay consistent; is every item given back | 2 items one after the other, 2 questions, 1 failure: a request for the first meets the second |
| `sftp_upload` | what is on the server at any moment, do responses find their packets, does the upload end | 3 blocks, 2 refusals, 1 lost connection: with three requests the responses arrive in any order around a stored one |
| `sftp_download` | what is on the disk at any moment, is every byte in its place, does the download end | files of 1 to 3 units listed as 1 to 3, blocks of 2, two requests under way, 1 short response, 1 refusal, 1 lost connection: a gap before, at and behind the listed end, filled while the next response has come; every partial file; every mode the caller can force, with the retry |
| `thread_open` | does each question reach the user once and its answer the session, does a cancellation arrive, does `RunAction` return | 3 user actions, one of them the last of Open: an exception and a cancellation each before, during and after an action |
| `shell_receive` | is the byte stream intact and does every wait end, however the answers are cut and whatever timers run | 3 writes, two on the network and the third in the buffer, which is over its limit then; packets of 2 and 2 bytes, 1 dummy command: answers in either order, a response in several pieces, several in one, the handler left by its exception in the middle of either |
| `queue_close_deadlock` | finding 1 | 2 items |
| `item_stale_event` | finding 2 | 2 items |
| `sftp_refused_write` | finding 3 | 2 blocks, 1 refused write |
| `sftp_delete_resumed` | finding 4 | 2 blocks, 1 refused open |

`CHECK_DEADLOCK FALSE` stands where the system may stop: the queue is closed, the
transfer is over, the session is opened, all questions of the instance have been
asked.

### Properties worth knowing

* `ImplementsTransferQueue`, `InProcessIsPrefix`: `FItemsInProcess` is only a
  number; that the first so many items are the ones some thread works on is what
  `ProcessEvent`, `DeleteItem`, `RetryItem` and `ItemExecuteNow` all assume.
* `FreeTerminalsAreIdle`, `PoolInvariant`: `ProcessEvent` and `Idle` take terminals
  out of the list without looking at them.
* `CompletionTracksList`: a transfer ends for those who monitor it when it leaves the
  queue, by any of four ways; excepted are histories in which moving an item has had
  it taken on twice.
* `LookUpFindsWorker`: whenever an item shows activity it has the worker that works on
  it.  This is at the moment of the look-up; `Pause` and `Resume` use the pointer after
  the section was left, and may then meet another item or none.  A cancellation,
  within the section, may not: `CancelHitsItsItem`.
* `QuestionOutlivesDialog`, `QuestionsAnswered`: the user interface executes an
  object on the worker's stack without a lock; that is right only as long as nothing
  but the answer ends the worker's wait.  No event of an earlier item, answer or pause
  does, whatever the user does, but a `Resume` or `Cancel` does (`stray`).
* `NewOrOld` of the upload: at every moment of a resumable upload, connection lost
  or not, the server holds a complete file.  `PartialIsPrefix`: the size of the
  partial file is a place to resume from.  Both except uploads that are `holed`.
  `UploadInvariant` says why: the write requests under way carry the blocks that
  follow, in order, and nothing that displaces a file is sent while its close is not.
* `DoneIsComplete` of the upload: what is reported done is on the server, and the
  connection is left usable: no file is open and every response that will still
  come is expected by somebody, also when the receive handler has thrown and a
  response to a block or to the close is never looked at.  (Except when that was while
  the properties request was sent: `orphaned`.)
* `WrittenInPlace`, `NoTornFile` of the download: the local file is, at every moment,
  what it was followed by an unbroken part of the remote file, although gaps are
  filled while the requests behind them are answered; an end or interruption leaves
  no beginning of a file under the name of the whole.
* `ReadsOwnResponse` of the download: every response still to come is reserved or
  waited for, also after each way out of the middle of the transfer.
* `ExecutesOnce`, `WokenByOwnAction`: the main thread finds a local variable of the
  other thread through an unlocked pointer; the event that wakes the session thread
  is the one for its own action and carries that action's exception.
* `CancelObeyed`, `CancelReported`: whenever the button is pressed, the session stops
  after the user action under way, and `RunAction` throws an abort, not an error.
* `ResponsesTaken`: whatever the order of the answers, and wherever the handler has
  thrown, no answer that is complete stays in the pending bytes, where no event would
  come for it.
* `StreamIntact`, `NotConfused`: whoever reads the socket, in `Receive`, in the
  handler or from a timer, the bytes keep their order and packets their limits.
* `CallsEnd`: a wait for the network is not robbed of its event by a timer; excepted
  are events that the user's answer or the handler's exception has thrown away
  (`forgotten`).

### Fairness

* Queue: `QueueFairSpec` assumes that the queue thread gets its turn, strongly,
  because `Idle` may take the free terminal away but only every other second while
  the queue thread wakes every second; that a worker that neither connects nor
  transfers goes on; and that an operation of the user interface that has begun is
  finished.  The user owes no operation.  `EveryItemLeaves` adds `TransfersEnd`:
  connection attempts and transfers end.  `ForcedItemStarts` does without it.
* Worker: `AttendedSpec` lets the threads run and has the user answer questions and
  resume paused transfers, and nothing else.
* Session thread: both threads run (weak fairness of `RunAction` and `Session`);
  strong fairness of `Executed`, the user ends every dialog, and of
  `MessagesProcessed`, since the main thread runs out of messages although the timer
  of the upkeep comes in between again and again.  Nothing is assumed of `Cancel`.
* Secure shell: the thread runs and its timers fire (`Program`); `Dispatched` has
  its own weak fairness because the loop looks at the buffer after every pass; the
  server answers what it has received and the answer arrives, unless the connection
  is lost.  The user need not answer, and the prompt's timer polls all the same.
* Upload and download: weak fairness of the transferring thread, whose waits the
  user ends by answering, and of the server, which answers what it has received.
  Lost connections are not promised to end; there are `MaxDrops` of them.

## Findings

1. `queue_close_deadlock`: the destructor keeps `FItemsSection` while it waits for
   a worker that waits for the section.
2. `item_stale_event`: a second Resume leaves the event set, and the worker runs
   `ProcessEvent` without an item.
3. `sftp_refused_write`: a write refused late is dropped, and the incomplete file
   is reported as uploaded.
4. `sftp_delete_resumed`: a partial file that cannot be opened is deleted at the
   user's request and opened again, but the upload goes on from where the partial file
   ended; the file with the hole replaces the destination and is reported as uploaded.

## What the models show besides

No document contradicts these, or they are known to the code's authors; they are
why some runs restrict an operation or a property has an exception.

* Queue.  An item that was handed to a worker which has not set its status yet still
  looks pending.  Moved back then (`Queue.cpp:759`), it is started again and
  `FItemsInProcess` no longer counts a prefix; deleted (line 835), it is used after
  it is freed.  `queue_order` leaves both operations out; `queue_completion` allows
  them, and its properties hold across them.  An item can be forced twice, and a
  temporary terminal may be kept in the place of a regular one.
* Worker.  A cancellation between the look at `FCancel` and the change of the status
  (line 1381) sets no event: the item waits until the user acts.  A `Cancel` or `Resume`
  during a question, or late for the wait before, ends the question without an answer
  (lines 1317, 1338), possibly while its dialog is shown: the dialog then executes an
  action whose variables are gone (line 1355).  Both come down to the status that says
  that the worker waits when it no longer does, or still does for something else.  And a
  `Pause` or `Resume` that has looked up the worker may meet its next item.
* Upload.  A response that overtakes makes the receive handler throw (line 2518): the
  transfer fails although no request did, unless it is being closed.  While the
  properties request is being sent, this leaves that request without a reservation,
  and so does a write refused then (`SftpFileSystem.cpp:4846`; `SendRequest`, line
  1336, reserves first), and the next call fails for the number of the message.  A
  close that is refused and repeated waits for a response that cannot come (line
  5280); the run leaves `close` out of `Retried`.
* Download.  A short response that ends exactly at the listed size, followed by the
  end of file, counts as complete, which is what `DoneIsComplete` allows for.
  A download that loses its connection is retried without confirmation: one that
  appended because the user said so overwrites the file it was appending to, and one
  that the caller forces to append (`cpAppend` precedes `cpNoConfirmation`,
  `Terminal.cpp:2230`) appends the whole file behind the part it has appended before.
  `DoneIsComplete` allows both.  A partial file
  larger than the listing says is deleted before the new one is there, hence the
  `RealSize <= ListedSize` of `NewOrOld`.
* Session thread.  The upkeep runs within `FSection` and may ask the user whether to
  wait for the host any longer.  The main thread may be waiting for `FSection` in
  `Idle` then: neither goes on.  When it is not, there are two waits for one
  `FUserAction`: the outer action is executed a second time, or the inner one is
  taken for executed.  `nested` records it, and the properties except it.
  `FPendingIdle` and, until `RunAction`, `FCancelled` are not initialised; both values
  are initial states, and neither does harm.  `FIdleException` stays behind when a user
  action has thrown as well, and is thrown at the end of a later wait.
* Secure shell.  A dummy command sent while an upload asks about its local file
  receives its answer while the handler of the queue is registered, and has not
  reserved it: the handler may read the middle of a packet as its beginning, or take
  the answer for the one to the oldest write, which is fatal (`NotConfused` excepts
  it).  A write event captured by
  `PoolForData` is thrown away when the user prolongs the wait, and is not handled
  while the prompt stays, as its comment says (`CallsEnd` excepts both).

## Proofs

`TerminalQueueProofs` proves, for any finite sets of items and workers, any limits
and bounds:

* `TypeCorrectness`: `Spec => []TypeOK`;
* `FreeTerminalsSound`: `Spec => []FreeTerminalsAreIdle`;
* `TerminalListExact`: `Spec => []TerminalsListed`, the list holds the terminals that
  run and no other;
* `PoolSound`: `Spec => []PoolInvariant`;
* `CompletionSound`: `"move" \notin Operations => (Spec => [](EventsTrackList /\
  CompletionTracksList))`, the event of a transfer tells exactly whether it is in the
  list;
* `WorkersLimited`: `"limit" \notin Operations => (Spec => []WorkersWithinLimit)`;
* `InProcessSound`: `Spec => []InProcessIsPrefix`, for a user who neither moves nor
  deletes items;
* `QueueImplements`: `Spec => ImplementsTransferQueue`, for a user who moves and
  deletes nothing and before the queue is destroyed.

`FreeTerminalsAreIdle` is not inductive: a terminal leaves the pool in the hands of
the queue thread or of `Idle` and comes back to it, and what it is meanwhile has to
be known.  `IInv == TypeOK /\ PoolInvariant` adds the parts `ListInv` (the list is
exact, also while the destructor takes it apart), `HandsInv` (a terminal in the
hands of a thread is idle and in one pair of hands), `WorkerInv` (when a worker has
an item, and which workers are told to terminate), `CountInv` (`FItemsInProcess`
counts at least the items in hands, so that it is an index) and `CloseInv`.  The
type lemmas take one group of variables each, `PoolInvariant` has one lemma per
action; a step local to one worker goes through `LocalStep`.  They rest on lemmas
about `Lists` (`DeleteAtFacts`, `MoveElements`, ...) and on the named assumptions of
`TerminalQueue`: the null values are not objects, limits are integers, bounds are
naturals, the sets are finite.

The last four are about the items.  `CarryInv` speaks of hands: the queue thread has
one, each worker has one, and what it holds is `Carried`.  No two hands hold the same
item, nothing beyond the first `FItemsInProcess` of the list is in a hand, and what is
in a hand is in the list or freed.  Every action has one of ten shapes (`StepShape`):
it rests, an item is taken, changes hands, is dropped, added, promoted, retried,
retired or deleted, or the list is emptied; the invariants are kept shape by shape.
`PrefixInv` adds, until the queue is closing, that each of the first `FItemsInProcess`
is in some hand.  The refinement reads the shapes as the steps of `TransferQueue`:
what waits is compared element by element (`RestFacts`, `LeavesWaiting`), what is
active hand by hand (`HandsMatch`).  The hypotheses on `Operations` are the
operations the code cannot bear there: an item moved while it is in a hand and still
looks pending is taken on twice, so that it is put back in the list after its monitor
was told of its end; an item deleted then leaves a hand with a freed item; the
destructor abandons what is in hand; and a lower limit takes away granted workers
that still run.  The runs restrict the user in the same way, except that
`queue_completion` has him move items and its property excepts what was taken on
twice.

`SftpUploadProofs` proves, for a local file of any number of blocks, any number of
refusals and lost connections, any kinds refused or retried and any order of the
responses that `Overtaking` allows:

* `TypeCorrectness`: `Spec => []TypeOK`, which includes that the two lists of
  reservations stay parallel;
* `ResponsesStayApart`: `Spec => []StoredInOwnPacket`, a stored response is in the
  packet that reserved it, and in no other;
* `ResumeSound`: `Spec => []PartialIsPrefix`;
* `UploadSound`: `Spec => []UploadInvariant`;
* `DestinationKept`: `InOrder => (Spec => []NewOrOld)`;
* `UploadComplete`: `InOrder => (Spec => []DoneIsComplete)`.

The packet layer is an argument of its own: `ReserveKeeps`, `UnreserveKeeps`,
`StoreKeeps`, `AcceptKeeps` and `ResetKeeps` say that each operation keeps
`RequestsOK` and `ResponsesOK`, whoever calls it.

`PartialIsPrefix` is not inductive: it holds of the next step only because of what
is under way.  `IInv == RequestsOK /\ ResponsesOK /\ UploadTypeOK /\
UploadInvariant` says it.  `WritesInv`: the blocks under way follow the end of the
file without a gap, and nothing is queued before them.  `TransferInv`: the block
that is read next follows the last one under way.  `ResumeInv`: the offset taken
from the answer to the check is still the size of the file when the file is open.
`EarlyInv`: until then a single blocking call is under way, so that nothing is left
from an earlier attempt.  `FileInv` and `CloseInv`: an open file is there, since
requests that remove or rename it come behind its close.  A step either sends
nothing and leaves the server alone, sends one request, loses the connection, or is
one of the server's (`StepShape`); each part has one lemma over these shapes and the
actions that matter to it.  The assumptions are the named ones of `SftpUpload`: the
kinds of requests, the two files, contents that can be told apart, bounds that are
naturals.

`PartialIsPrefix` and the parts of the invariant about blocks (`ResumeInv`,
`WritesInv`, `TransferInv`) except `holed`, because the code does not keep them then:
`sftp_refused_write` and `sftp_delete_resumed` show what comes of it.

`NewOrOld` and `DoneIsComplete` need to know what every response that is still to come
is for, and what each place of the thread says about the server.
`CompletionInvariance` proves `CompletionInv` next to `IInv`.  `ShutInv` holds
unconditionally: requests are served in the order of their numbers (`OrderInv`), there
is one close, and when its response is received it has been served, whatever was
refused before.  The rest holds as long as no properties request is `orphaned`, and
what it says of the files as long as the upload is not `holed`: `DueInv` (each
response to come is reserved, or of the call that is waited for, or of the request
that `SendPacket` has just sent, or that of a close it has thrown out
of), `QueueInv` (the queue has the writes that are not confirmed, and none is a
refusal), `CallInv` (whatever is not a block, a close or properties is the call that
is waited for), `EndInv` (how a transfer that ends with an error is told from one that
does not), `CompleteInv` (once the close is sent, the last block is written or under
way; what follows the close finds the file complete) and `DestinationInv` (the
destination is removed for a complete partial file only, and while it is missing the
partial file is neither discarded nor opened afresh). `PacketShape` and `LeavesShape`
say what a step does to the responses, `ServerStep` what the server does to the
files.  `InOrder`, the hypothesis of the two theorems, is about `Overtaking`: a
response to a close or to set properties does not overtake, as `SFTPCloseRemote` and
`SFTPSource` reserve these two only after `SendPacket` has returned, and the receive
handler would take one that did for a block's.  The runs have it (`Overtaking` is
`{"write"}`); the other theorems do not need it.

`SftpDownloadProofs` proves, for a file of any number of blocks, short responses,
refusals and lost connections within any bounds:

* `TypeCorrectness`: `Spec => []TypeOK`;
* `OwnResponseRead`: `Spec => []ReadsOwnResponse`;
* `InPlace`: `Spec => []WrittenInPlace`, with whatever `Params` the caller forces;
* `Completeness`: `Spec => []DoneIsComplete`, `OneCompleteFile`: `Spec => []NewOrOld`,
  `NothingTorn`: `Spec => []NoTornFile`.

The inductive invariant takes `RequestsOK`, `ResponsesOK` and `NumbersOK` from the
packet layer and adds: `DueInv` (every response that is still to come is taken by a
reservation or by the one call that is waited for); `ReadInv` (a request of the
queue reads at the offset it was queued for, and the server says that the file has
ended only where it does); `QueueInv` (the data in hand, the gap that a short response
has left and the head of the queue follow each other without a hole, and the
requests are for one block after the other); `ProgressInv` (how far the transfer is,
and that it ends only at the real or the listed size); `PartialInv` and `AppendInv`
(what the file that is written holds at each point); `DestInv` (what the
destination holds at any moment).  `PlaceInv` says what the local variables can be
at each place of the function.

`TerminalThreadProofs` proves, for any number of user actions and exceptions,
`TypeCorrectness`, `ActionsExecutedOnce` (`ExecutesOnce`), `WokenByItsAction`
(`WokenByOwnAction`), `IdleExceptionOfOne` (`IdleExceptionNotShared`),
`CancellationReported` (`CancelReported`) and the action property
`CancellationObeyed` (`CancelObeyed`).  `StepInv`: outside of `WaitForUserAction` the
two threads are in step, and the event is set for the start of the action or for its
end.  `WaitInv`: the event that ends a wait comes after all of the execution of its
action.  `QuestionInv`: how far the execution is, and where its exception is.
`ActionsInv`: actions to come have no outcome yet.  `CancelInv`: once the session
thread has been cancelled, an exception is on its way to the main thread.

`TerminalItemProofs` proves, for any items, questions and failures, `TypeCorrectness`,
`PointersSound` (`LookUpFindsWorker`), `EveryQuestionAnswered` (`QuestionsAnswered`),
`ShownQuestionLives` (`QuestionOutlivesDialog`) and the action property `CancelSound`
(`CancelHitsItsItem`), for a user who does whatever he likes. The ones about questions
except `stray`; `NoStaleEvent` says the same of what the run `item_stale_event`
refutes: `ProcessEvent` has an item unless a `Resume` or `Cancel` has set the event
for a wait that was being left.  `PlaceInv` says that the item a worker executes is
the one that names it; `StatusInv` that no other item shows activity; `QuestionInv`
that the question that can be seen is the last one, and is not answered; `CancelInv`
that the worker gets no further than the end of its item while `ItemDelete` is in the
critical section; `AnswerInv` what the event may be set for as long as none is stray.

`SecureShellProofs` proves, for packets of any length, any number of requests and any
size of the buffers, `TypeCorrectness`, `ByteOrder` (`StreamIntact`), `Unconfused`
(`NotConfused`) and `NoneLeftBehind` (`ResponsesTaken`).  The invariant follows the
bytes: `FlowInv` says what was flushed, answered, has arrived and was delivered;
`StreamInv` that what was delivered are the packets that were read, then the buffer of
`Receive`, then `Pending`, without a gap; `StageInv` that each call of `Receive` asks
for the rest of a header or of a packet; `CallInv` who is waiting when; `TakenInv`
that a request is in the queue, waited for, or was answered; `HandledInv` that the
receive handler leaves no complete packet behind, whether it ends or throws.
`CountInv` bounds the two kinds of requests.

Every safety and action property the runs check is a theorem.  Only model-checked is
liveness, which is out of the prover's reach: `ForcedItemStarts`, `EveryItemLeaves`,
`ItemIsGivenBack`, `UploadEnds`, `DownloadEnds`, `RunActionReturns` and `CallsEnd`.

## Not modelled

The components with no module are listed in `PROJECT.json`, each with the reason:
FTP, WebDAV and third-party code live in adapted or vendored engines, SCP and
scripting are sequential conversations that mostly parse, settings, logs, masks and
cryptography are data with hardly any control, the user interface only drives the
operations modelled here.

## Plan

1. `TransferQueue`, `TerminalQueue` and its proofs - done.
2. `TerminalItem` - done.
3. `SftpPackets`, `SftpUpload` and their proofs - done.
4. `TerminalThread`, `SftpDownload`, `SecureShell` and their proofs - done.
5. The queue's items: `CompletionTracksList`, `WorkersWithinLimit`, `InProcessIsPrefix`
   and the refinement of `TransferQueue` - done.
6. Further components: transactions and the directory caches of `Terminal`; the
   message exchange between the FTP file system and its engine; the console process.
7. Pure algorithms: file masks, synchronization decisions.
