--------------------------- MODULE TerminalQueue ---------------------------
(***************************************************************************)
(* The background transfer queue: TTerminalQueue and the life of its       *)
(* worker threads (TTerminalItem) and transfers (TQueueItem), from         *)
(* source/core/Queue.cpp.                                                  *)
(*                                                                         *)
(* Three kinds of threads run here: the user interface (one thread: every  *)
(* public operation of the queue, TTerminalQueue::Idle and the destructor  *)
(* are called from it), the queue thread (TTerminalQueue::ProcessEvent),   *)
(* and one thread per TTerminalItem.  A block guarded by FItemsSection is  *)
(* one action; only the destructor keeps FItemsSection from one step to    *)
(* the next.  What a worker does between two such blocks is cut where      *)
(* another thread can see the difference: the item's status, its           *)
(* FTerminalItem, FCancel.  The user actions, pauses and events inside one *)
(* worker are the subject of module TerminalItem.                          *)
(*                                                                         *)
(* Lists are 1-based here: position k is the code's index k - 1.           *)
(***************************************************************************)
EXTENDS Integers, Sequences, FiniteSets, Lists

CONSTANTS
  Items,        \* the TQueueItem objects that may be added, each once
  Terminals,    \* the TTerminalItem objects that may exist at one time
  NoItem, NoTerminal,
  InitialLimit, \* FTransfersLimit of the constructor (2 in the program)
  Limits,       \* values given to SetTransfersLimit (< 0: no limit)
  KeepTimes,    \* values given to SetKeepDoneItemsFor (< 0: forever)
  Operations,   \* the operations the user makes in this instance
  Forceable,    \* the items the user orders to be executed now
  MaxTemporary, \* bound: no "execute now" beyond so many temporary terminals
  MaxClicks,    \* bound: entries of one item in FForcedItems
  MaxFailures   \* bound: failed or lost connections

ASSUME NullsAssumption == NoItem \notin Items /\ NoTerminal \notin Terminals
ASSUME LimitAssumption == InitialLimit \in Int /\ Limits \subseteq Int /\ KeepTimes \subseteq Int
ASSUME BoundAssumption ==
  MaxTemporary \in Nat /\ MaxClicks \in Nat /\ MaxFailures \in Nat
ASSUME FiniteAssumption == IsFiniteSet(Items) /\ IsFiniteSet(Terminals)

VARIABLES
  \* TTerminalQueue
  FItems, FDoneItems, FItemsInProcess, FForcedItems, FTerminals, FFreeTerminals,
  FTemporaryTerminals, FTransfersLimit, FKeepDoneItemsFor, FEnabled, FTerminated,
  \* TQueueItem
  status,         \* FStatus, or "unborn" / "freed" outside the object's life
  FTerminalItem,
  FCompleteEvent, \* "none", "armed", or "signaled"
  \* TTerminalItem
  pc,             \* where the worker thread is; "none": no such object
  FItem, FCancel,
  Active,         \* FTerminal->Active
  stopping,       \* the worker's own FTerminated
  item,           \* the local Item of ProcessEvent once FItem is NULL
  outcome,        \* what ProcessEvent calls for it: "retry", "keep", "drop"
  \* the queue thread and the user interface thread
  qpc, qTerminal, qItem, uipc, uiTerminal,
  passed,         \* workers that read FTerminated just before it was set
  failures,       \* failed or lost connections so far
  faults          \* undefined behaviour, and transfers that run twice, so far

queueVars == <<FItems, FDoneItems, FItemsInProcess, FForcedItems, FTerminals, FFreeTerminals,
               FTemporaryTerminals>>
settingVars == <<FTransfersLimit, FKeepDoneItemsFor, FEnabled, FTerminated>>
itemVars == <<status, FTerminalItem, FCompleteEvent>>
terminalVars == <<pc, FItem, FCancel, Active, stopping, item, outcome>>
threadVars == <<qpc, qTerminal, qItem, uipc, uiTerminal>>
vars == <<queueVars, settingVars, itemVars, terminalVars, threadVars, passed, failures, faults>>

----------------------------------------------------------------------------
(* TQueueItem                                                              *)

\* Mutant: no event is set.
CompletedSilently(i) == FCompleteEvent[i]

\* Freeing an item, or keeping it in the list of done ones, completes it.
Completed(i) == IF FCompleteEvent[i] = "armed" THEN "signaled" ELSE FCompleteEvent[i]

\* Mutant: counts below zero.
UnforcedAlways(i) == [FForcedItems EXCEPT ![i] = @ - 1]

\* FForcedItems holds an item as often as it was added; Remove takes one.
Unforced(i) == [FForcedItems EXCEPT ![i] = IF @ > 0 THEN @ - 1 ELSE 0]

\* FItemsSection is kept across steps by the destructor alone.
ItemsSectionFree == uipc \notin {"closing", "joining"}

\* TTerminalItem::FCriticalSection is held throughout ProcessEvent (and, by
\* the user interface thread, throughout Idle).
InProcessEvent == {"opening", "opened", "running", "retire", "free"}
CriticalSectionFree(t) == pc[t] \notin InProcessEvent /\ ~(uipc = "idle" /\ uiTerminal = t)

----------------------------------------------------------------------------
(* The queue thread: TTerminalQueue::ProcessEvent                          *)

\* =0: do not keep, <0: forever; otherwise the clock decides.
ExpiredSets ==
  IF FKeepDoneItemsFor = 0 THEN {FDoneItems}
  ELSE IF FKeepDoneItemsFor < 0 THEN {{}} ELSE SUBSET FDoneItems

HasNext == Len(FItems) > FItemsInProcess

\* Mutant: the newest item.
NextItemNewest == FItems[Len(FItems)]

NextItem == FItems[FItemsInProcess + 1]
Runnable == HasNext /\ (FEnabled \/ FForcedItems[NextItem] > 0)

\* Mutant: one worker too many.
MayHireOneMore ==
  /\ FFreeTerminals = 0
  /\ FTransfersLimit < 0 \/ Len(FTerminals) <= FTransfersLimit + FTemporaryTerminals

MayHire ==
  /\ FFreeTerminals = 0
  /\ FTransfersLimit < 0 \/ Len(FTerminals) < FTransfersLimit + FTemporaryTerminals

RemoveExpired ==
  \E expired \in ExpiredSets :
    /\ FDoneItems' = FDoneItems \ expired
    /\ status' = [i \in Items |-> IF i \in expired THEN "freed" ELSE status[i]]

\* The items a thread has taken on: the queue thread's, and the workers'.
Carriers(i) == {t \in Terminals : i \in {FItem[t], item[t]}}
InProcess == {i \in Items : qItem = i \/ Carriers(i) # {}}

\* Mutant: the item is taken on without being counted.
TakeNextItemUncounted(t) ==
  /\ FForcedItems' = Unforced(NextItem)
  /\ qItem' = NextItem
  /\ qTerminal' = t
  /\ qpc' = "assign"
  /\ UNCHANGED <<FItemsInProcess, faults>>

TakeNextItem(t) ==
  /\ FForcedItems' = Unforced(NextItem)
  /\ FItemsInProcess' = FItemsInProcess + 1
  /\ qItem' = NextItem
  /\ qTerminal' = t
  /\ qpc' = "assign"
  /\ faults' = faults \cup (IF NextItem \in InProcess THEN {"item taken on twice"} ELSE {})

Hire(t) ==
  /\ Runnable
  /\ MayHire
  /\ pc[t] = "none"
  /\ FTerminals' = Append(FTerminals, t)
  /\ pc' = [pc EXCEPT ![t] = "wait"]
  /\ TakeNextItem(t)
  /\ UNCHANGED FFreeTerminals

Reuse ==
  /\ Runnable
  /\ FFreeTerminals > 0
  /\ FTerminals' = Move(FTerminals, 1, Len(FTerminals))
  /\ FFreeTerminals' = FFreeTerminals - 1
  /\ TakeNextItem(FTerminals[1])
  /\ UNCHANGED pc

NothingToStart ==
  /\ ~(Runnable /\ (MayHire \/ FFreeTerminals > 0))
  /\ qpc' = "wait"
  /\ UNCHANGED <<FItemsInProcess, FForcedItems, FTerminals, FFreeTerminals, pc, qTerminal, qItem,
                 faults>>

\* "awake": WaitForEvent had returned before the destructor set FTerminated.
ProcessEvent ==
  /\ qpc = "awake" \/ (qpc = "wait" /\ ~FTerminated)
  /\ ItemsSectionFree
  /\ RemoveExpired
  /\ (\E t \in Terminals : Hire(t)) \/ Reuse \/ NothingToStart
  /\ UNCHANGED <<FItems, FTemporaryTerminals, settingVars, FTerminalItem, FCompleteEvent,
                 FItem, FCancel, Active, stopping, item, outcome, uipc, uiTerminal, passed, failures>>

\* TTerminalItem::Process, called with FItemsSection released.
Process ==
  /\ qpc = "assign"
  /\ CriticalSectionFree(qTerminal)
  /\ FItem' = [FItem EXCEPT ![qTerminal] = qItem]
  /\ qpc' = "wait"
  /\ qTerminal' = NoTerminal
  /\ qItem' = NoItem
  /\ UNCHANGED <<queueVars, settingVars, itemVars, pc, FCancel, Active, stopping, item, outcome,
                 uipc, uiTerminal, passed, failures, faults>>

QueueThreadEnds ==
  /\ qpc = "wait"
  /\ FTerminated
  /\ qpc' = "dead"
  /\ UNCHANGED <<queueVars, settingVars, itemVars, terminalVars, qTerminal, qItem, uipc,
                 uiTerminal, passed, failures, faults>>

----------------------------------------------------------------------------
(* A worker thread: TTerminalItem::ProcessEvent and what it calls          *)

\* The item the worker is about to dereference.
Held(t) == IF pc[t] = "retire" THEN item[t] ELSE FItem[t]
Busy(t) == pc[t] \in {"opening", "opened", "running", "retire"} \/ (pc[t] = "wait" /\ FItem[t] # NoItem)

\* A connection that fails or is lost (counted against the bound).
MayFail == failures < MaxFailures

Begin(t) ==
  /\ pc[t] = "wait"
  /\ FItem[t] # NoItem
  /\ ~stopping[t]
  /\ status[FItem[t]] # "freed"
  /\ FCancel' = [FCancel EXCEPT ![t] = FALSE]
  /\ FTerminalItem' = [FTerminalItem EXCEPT ![FItem[t]] = t]
  /\ IF Active[t]
       THEN pc' = [pc EXCEPT ![t] = "opened"] /\ UNCHANGED status
       ELSE /\ pc' = [pc EXCEPT ![t] = "opening"]
            /\ status' = [status EXCEPT ![FItem[t]] = "connecting"]
  /\ UNCHANGED <<queueVars, settingVars, FCompleteEvent, FItem, Active, stopping, item, outcome,
                 threadVars, passed, failures, faults>>

Opened(t) ==
  /\ pc[t] = "opening"
  /\ pc' = [pc EXCEPT ![t] = "opened"]
  /\ Active' = [Active EXCEPT ![t] = TRUE]
  /\ UNCHANGED <<queueVars, settingVars, itemVars, FItem, FCancel, stopping, item, outcome,
                 threadVars, passed, failures, faults>>

\* FTerminal->UpdateFromMain and SetStatus, unless cancelled.
StartTransfer(t) ==
  /\ pc[t] = "opened"
  /\ ~FCancel[t]
  /\ status[FItem[t]] # "freed"
  /\ pc' = [pc EXCEPT ![t] = "running"]
  /\ status' = [status EXCEPT ![FItem[t]] = "processing"]
  /\ UNCHANGED <<queueVars, settingVars, FTerminalItem, FCompleteEvent, FItem, FCancel, Active,
                 stopping, item, outcome, threadVars, passed, failures, faults>>

\* The end of ProcessEvent's body: status done, both pointers cleared, and
\* the item on its way to RetryItem or DeleteItem.  FCancel is read here: from
\* now on no pointer leads from the item to this worker.
Detach(t, retry, cancel) ==
  LET i == FItem[t] IN
  /\ status[i] # "freed"
  /\ status' = [status EXCEPT ![i] = "done"]
  /\ FTerminalItem' = [FTerminalItem EXCEPT ![i] = NoTerminal]
  /\ FItem' = [FItem EXCEPT ![t] = NoItem]
  /\ item' = [item EXCEPT ![t] = i]
  /\ FCancel' = [FCancel EXCEPT ![t] = cancel]
  /\ outcome' = [outcome EXCEPT ![t] = IF cancel THEN "drop" ELSE IF retry THEN "retry" ELSE "keep"]
  /\ pc' = [pc EXCEPT ![t] = "retire"]
  /\ UNCHANGED <<queueVars, settingVars, FCompleteEvent, stopping, threadVars, passed, faults>>

\* FTerminal->Open() throws; the user may answer the query with Cancel.
OpenFails(t) ==
  /\ pc[t] = "opening"
  /\ MayFail
  /\ failures' = failures + 1
  /\ \E cancel \in {FCancel[t], TRUE} : Detach(t, TRUE, cancel)
  /\ UNCHANGED Active

Cancelled(t) ==
  /\ pc[t] = "opened"
  /\ FCancel[t]
  /\ Detach(t, FALSE, TRUE)
  /\ UNCHANGED <<Active, failures>>

\* FItem->Execute() returns, or throws and the error is shown.
TransferEnds(t) ==
  /\ pc[t] = "running"
  /\ \E cancel \in {FCancel[t], TRUE} : Detach(t, FALSE, cancel)
  /\ UNCHANGED <<Active, failures>>

ConnectionLost(t) ==
  /\ pc[t] = "running"
  /\ MayFail
  /\ failures' = failures + 1
  /\ Active' = [Active EXCEPT ![t] = FALSE]
  /\ \E cancel \in {FCancel[t], TRUE} : Detach(t, FALSE, cancel)

\* The worker dereferences an item another thread has freed.
UsesFreedItem(t) ==
  /\ Busy(t)
  /\ Held(t) \in Items
  /\ status[Held(t)] = "freed"
  /\ faults' = faults \cup {"freed item used"}
  /\ UNCHANGED <<queueVars, settingVars, itemVars, terminalVars, threadVars, passed, failures>>

\* Every call back into the queue begins with a look at FTerminated that
\* FItemsSection does not protect.
PassesCheck(t) == ~FTerminated \/ t \in passed

\* Mutant: the item keeps its place.
RequeuedInPlace(i) == FItems

\* The item moves to the end of the list.
Requeued(i) == Append(Remove(FItems, i), i)

RetryItem(t) ==
  /\ pc[t] = "retire" /\ outcome[t] = "retry"
  /\ PassesCheck(t) /\ ItemsSectionFree
  /\ status[item[t]] # "freed"
  /\ FItems' = Requeued(item[t])
  /\ FItemsInProcess' = FItemsInProcess - 1
  /\ pc' = [pc EXCEPT ![t] = "free"]
  /\ item' = [item EXCEPT ![t] = NoItem]
  /\ outcome' = [outcome EXCEPT ![t] = "none"]
  /\ passed' = passed \ {t}
  /\ UNCHANGED <<FDoneItems, FForcedItems, FTerminals, FFreeTerminals, FTemporaryTerminals,
                 settingVars, itemVars, FItem, FCancel, Active, stopping, threadVars, failures, faults>>

DeleteItem(t) ==
  LET i == item[t]
      keep == FKeepDoneItemsFor # 0 /\ outcome[t] = "keep" IN
  /\ pc[t] = "retire" /\ outcome[t] \in {"keep", "drop"}
  /\ PassesCheck(t) /\ ItemsSectionFree
  /\ status[i] # "freed"
  /\ FItems' = Remove(FItems, i)
  /\ FItemsInProcess' = FItemsInProcess - 1
  /\ FForcedItems' = Unforced(i)
  /\ FDoneItems' = IF keep THEN FDoneItems \cup {i} ELSE FDoneItems
  /\ status' = IF keep THEN status ELSE [status EXCEPT ![i] = "freed"]
  /\ FCompleteEvent' = [FCompleteEvent EXCEPT ![i] = Completed(i)]
  /\ pc' = [pc EXCEPT ![t] = "free"]
  /\ item' = [item EXCEPT ![t] = NoItem]
  /\ outcome' = [outcome EXCEPT ![t] = "none"]
  /\ passed' = passed \ {t}
  /\ UNCHANGED <<FTerminals, FFreeTerminals, FTemporaryTerminals, settingVars, FTerminalItem,
                 FItem, FCancel, Active, stopping, threadVars, failures, faults>>

\* FTerminated seen: neither RetryItem nor DeleteItem does anything.
SkipsRetire(t) ==
  /\ pc[t] = "retire"
  /\ ~PassesCheck(t)
  /\ pc' = [pc EXCEPT ![t] = "free"]
  /\ item' = [item EXCEPT ![t] = NoItem]
  /\ outcome' = [outcome EXCEPT ![t] = "none"]
  /\ UNCHANGED <<queueVars, settingVars, itemVars, FItem, FCancel, Active, stopping, threadVars,
                 passed, failures, faults>>

\* TTerminalQueue::TerminalFree under FItemsSection; a terminal beyond the
\* limit, or one without a connection, is told to terminate.
WithinLimit(t) == FTransfersLimit < 0 \/ IndexOf(FTerminals, t) <= FTransfersLimit

\* Mutants: a lost connection goes unnoticed; the terminal is not counted.
TerminalFreeAnyway(t) ==
  IF WithinLimit(t)
    THEN /\ FTerminals' = Move(FTerminals, IndexOf(FTerminals, t), 1)
         /\ FFreeTerminals' = FFreeTerminals + 1
         /\ UNCHANGED stopping
    ELSE /\ stopping' = [stopping EXCEPT ![t] = TRUE]
         /\ UNCHANGED <<FTerminals, FFreeTerminals>>
TerminalFreeUncounted(t) ==
  IF Active[t] /\ WithinLimit(t)
    THEN /\ FTerminals' = Move(FTerminals, IndexOf(FTerminals, t), 1)
         /\ UNCHANGED <<FFreeTerminals, stopping>>
    ELSE /\ stopping' = [stopping EXCEPT ![t] = TRUE]
         /\ UNCHANGED <<FTerminals, FFreeTerminals>>

TerminalFree(t) ==
  IF Active[t] /\ WithinLimit(t)
    THEN /\ FTerminals' = Move(FTerminals, IndexOf(FTerminals, t), 1)
         /\ FFreeTerminals' = FFreeTerminals + 1
         /\ UNCHANGED stopping
    ELSE /\ stopping' = [stopping EXCEPT ![t] = TRUE]
         /\ UNCHANGED <<FTerminals, FFreeTerminals>>

Free(t) ==
  /\ pc[t] = "free"
  /\ ~Active[t] \/ (PassesCheck(t) /\ ItemsSectionFree)
  /\ pc' = [pc EXCEPT ![t] = "wait"]
  /\ TerminalFree(t)
  /\ passed' = passed \ {t}
  /\ UNCHANGED <<FItems, FDoneItems, FItemsInProcess, FForcedItems, FTemporaryTerminals,
                 settingVars, itemVars, FItem, FCancel, Active, item, outcome, threadVars,
                 failures, faults>>

SkipsFree(t) ==
  /\ pc[t] = "free"
  /\ Active[t] /\ ~PassesCheck(t)
  /\ pc' = [pc EXCEPT ![t] = "wait"]
  /\ UNCHANGED <<queueVars, settingVars, itemVars, FItem, FCancel, Active, stopping, item, outcome,
                 threadVars, passed, failures, faults>>

\* The thread leaves its loop: FFinished, then Finished() -> TerminalFinished,
\* which frees the object unless the queue is closing.
Ends(t) == pc[t] = "wait" /\ stopping[t]

\* The object is gone; the next one at this place starts afresh.
Destroyed(t) ==
  /\ pc' = [pc EXCEPT ![t] = "none"]
  /\ FItem' = [FItem EXCEPT ![t] = NoItem]
  /\ FCancel' = [FCancel EXCEPT ![t] = FALSE]
  /\ Active' = [Active EXCEPT ![t] = FALSE]
  /\ stopping' = [stopping EXCEPT ![t] = FALSE]
  /\ UNCHANGED <<item, outcome>>

Extracted(t) == DeleteAt(FTerminals, IndexOf(FTerminals, t))

TerminalFinished(t) ==
  /\ Ends(t)
  /\ PassesCheck(t) /\ ItemsSectionFree
  /\ LET k == IndexOf(FTerminals, t) IN
       /\ FTerminals' = Extracted(t)
       /\ FFreeTerminals' = IF k <= FFreeTerminals THEN FFreeTerminals - 1 ELSE FFreeTerminals
       /\ FTemporaryTerminals' =
            IF FTransfersLimit >= 0 /\ k > FTransfersLimit /\ FTemporaryTerminals > 0
              THEN FTemporaryTerminals - 1 ELSE FTemporaryTerminals
  /\ Destroyed(t)
  /\ passed' = passed \ {t}
  /\ UNCHANGED <<FItems, FDoneItems, FItemsInProcess, FForcedItems, settingVars, itemVars,
                 threadVars, failures, faults>>

SkipsFinished(t) ==
  /\ Ends(t)
  /\ ~PassesCheck(t)
  /\ pc' = [pc EXCEPT ![t] = "dead"]
  /\ UNCHANGED <<queueVars, settingVars, itemVars, FItem, FCancel, Active, stopping, item, outcome,
                 threadVars, passed, failures, faults>>

----------------------------------------------------------------------------
(* The user interface thread                                               *)

Ui(operation) == uipc = "ready" /\ operation \in Operations
UiKeeps == UNCHANGED <<qpc, qTerminal, qItem, uipc, uiTerminal>>

AddItem(i, monitored) ==
  /\ Ui("add")
  /\ monitored => "monitor" \in Operations
  /\ status[i] = "unborn"
  /\ status' = [status EXCEPT ![i] = "pending"]
  /\ FCompleteEvent' = [FCompleteEvent EXCEPT ![i] = IF monitored THEN "armed" ELSE "none"]
  /\ FItems' = Append(FItems, i)
  /\ UiKeeps
  /\ UNCHANGED <<FDoneItems, FItemsInProcess, FForcedItems, FTerminals, FFreeTerminals,
                 FTemporaryTerminals, settingVars, FTerminalItem, terminalVars, passed, failures, faults>>

ItemMove(i, before) ==
  /\ Ui("move")
  /\ Contains(FItems, i) /\ Contains(FItems, before) /\ i # before
  /\ status[i] = "pending" /\ status[before] = "pending"
  /\ FItems' = Move(FItems, IndexOf(FItems, i), IndexOf(FItems, before))
  /\ UiKeeps
  /\ UNCHANGED <<FDoneItems, FItemsInProcess, FForcedItems, FTerminals, FFreeTerminals,
                 FTemporaryTerminals, settingVars, itemVars, terminalVars, passed, failures, faults>>

\* Mutant: no terminal is granted when the limit is just reached.
NeedsTemporaryAbove ==
  FTransfersLimit >= 0 /\ Len(FTerminals) > FTransfersLimit /\ FFreeTerminals = 0

NeedsTemporary ==
  FTransfersLimit >= 0 /\ Len(FTerminals) >= FTransfersLimit /\ FFreeTerminals = 0

ItemExecuteNow(i) ==
  /\ Ui("executeNow") /\ i \in Forceable
  /\ Contains(FItems, i)
  /\ status[i] = "pending"
  /\ IndexOf(FItems, i) > FItemsInProcess
  /\ FForcedItems[i] < MaxClicks
  /\ FItems' = Move(FItems, IndexOf(FItems, i), FItemsInProcess + 1)
  /\ IF NeedsTemporary
       THEN /\ FTemporaryTerminals < MaxTemporary
            /\ FTemporaryTerminals' = FTemporaryTerminals + 1
       ELSE UNCHANGED FTemporaryTerminals
  /\ FForcedItems' = [FForcedItems EXCEPT ![i] = @ + 1]
  /\ UiKeeps
  /\ UNCHANGED <<FDoneItems, FItemsInProcess, FTerminals, FFreeTerminals, settingVars, itemVars,
                 terminalVars, passed, failures, faults>>

\* ItemDelete, by the list the item is in and its status.
DeletePending(i) ==
  /\ Ui("delete")
  /\ Contains(FItems, i)
  /\ status[i] = "pending"
  /\ FItems' = DeleteAt(FItems, IndexOf(FItems, i))
  /\ FForcedItems' = Unforced(i)
  /\ status' = [status EXCEPT ![i] = "freed"]
  /\ FCompleteEvent' = [FCompleteEvent EXCEPT ![i] = Completed(i)]
  /\ UiKeeps
  /\ UNCHANGED <<FDoneItems, FItemsInProcess, FTerminals, FFreeTerminals, FTemporaryTerminals,
                 settingVars, FTerminalItem, terminalVars, passed, failures, faults>>

CancelTransfer(i) ==
  /\ Ui("delete")
  /\ Contains(FItems, i)
  /\ status[i] # "pending"
  /\ IF FTerminalItem[i] = NoTerminal
       THEN faults' = faults \cup {"no FTerminalItem"} /\ UNCHANGED FCancel
       ELSE FCancel' = [FCancel EXCEPT ![FTerminalItem[i]] = TRUE] /\ UNCHANGED faults
  /\ UiKeeps
  /\ UNCHANGED <<queueVars, settingVars, itemVars, pc, FItem, Active, stopping, item, outcome,
                 passed, failures>>

\* The list forgets the item; nothing frees it.
DeleteDone(i) ==
  /\ Ui("delete")
  /\ i \in FDoneItems
  /\ FDoneItems' = FDoneItems \ {i}
  /\ UiKeeps
  /\ UNCHANGED <<FItems, FItemsInProcess, FForcedItems, FTerminals, FFreeTerminals,
                 FTemporaryTerminals, settingVars, itemVars, terminalVars, passed, failures, faults>>

ItemDelete(i) == DeletePending(i) \/ CancelTransfer(i) \/ DeleteDone(i)

\* Idle takes the last free terminal out of the pool under FItemsSection ...
Idle ==
  /\ Ui("idle")
  /\ FFreeTerminals > 0
  /\ uiTerminal' = FTerminals[FFreeTerminals]
  /\ FTerminals' = Move(FTerminals, FFreeTerminals, Len(FTerminals))
  /\ FFreeTerminals' = FFreeTerminals - 1
  /\ uipc' = "idle"
  /\ UNCHANGED <<FItems, FDoneItems, FItemsInProcess, FForcedItems, FTemporaryTerminals,
                 settingVars, itemVars, terminalVars, qpc, qTerminal, qItem, passed, failures, faults>>

\* ... and returns it from TTerminalItem::Idle, if the connection survives.
TerminalIdle ==
  /\ uipc = "idle"
  /\ \/ UNCHANGED <<Active, failures>> /\ TerminalFree(uiTerminal)
     \/ /\ MayFail
        /\ failures' = failures + 1
        /\ Active' = [Active EXCEPT ![uiTerminal] = FALSE]
        /\ stopping' = [stopping EXCEPT ![uiTerminal] = TRUE]
        /\ UNCHANGED <<FTerminals, FFreeTerminals>>
  /\ uipc' = "ready"
  /\ uiTerminal' = NoTerminal
  /\ UNCHANGED <<FItems, FDoneItems, FItemsInProcess, FForcedItems, FTemporaryTerminals,
                 settingVars, itemVars, pc, FItem, FCancel, item, outcome, qpc, qTerminal, qItem,
                 passed, faults>>

SetTransfersLimit(value) ==
  /\ Ui("limit")
  /\ FTransfersLimit # value
  /\ FTransfersLimit' = value
  /\ FTemporaryTerminals' = IF value >= 0 /\ value < FItemsInProcess THEN FItemsInProcess - value ELSE 0
  /\ UiKeeps
  /\ UNCHANGED <<FItems, FDoneItems, FItemsInProcess, FForcedItems, FTerminals, FFreeTerminals,
                 FKeepDoneItemsFor, FEnabled, FTerminated, itemVars, terminalVars, passed, failures, faults>>

SetKeepDoneItemsFor(value) ==
  /\ Ui("keep")
  /\ FKeepDoneItemsFor # value
  /\ FKeepDoneItemsFor' = value
  /\ UiKeeps
  /\ UNCHANGED <<queueVars, FTransfersLimit, FEnabled, FTerminated, itemVars, terminalVars, passed,
                 failures, faults>>

SetEnabled ==
  /\ Ui("enable")
  /\ FEnabled' = ~FEnabled
  /\ UiKeeps
  /\ UNCHANGED <<queueVars, FTransfersLimit, FKeepDoneItemsFor, FTerminated, itemVars, terminalVars,
                 passed, failures, faults>>

----------------------------------------------------------------------------
(* The destructor                                                          *)

\* Close(): FTerminated is set.  The queue thread may already be past its
\* WaitForEvent, and workers past their own look at FTerminated.
Close ==
  /\ Ui("close")
  /\ FTerminated' = TRUE
  /\ uipc' = "waiting"
  /\ qpc' \in IF qpc = "wait" THEN {"wait", "awake"} ELSE {qpc}
  /\ passed' \in SUBSET {t \in Terminals : pc[t] \in {"retire", "free"} \/ Ends(t)}
  /\ UNCHANGED <<queueVars, FTransfersLimit, FKeepDoneItemsFor, FEnabled, itemVars, terminalVars,
                 qTerminal, qItem, uiTerminal, failures, faults>>

\* The queue thread has ended; FItemsSection is entered and kept.
EnterItemsSection ==
  /\ uipc = "waiting"
  /\ qpc = "dead"
  /\ uipc' = "closing"
  /\ UNCHANGED <<queueVars, settingVars, itemVars, terminalVars, qpc, qTerminal, qItem, uiTerminal,
                 passed, failures, faults>>

TerminateFirst ==
  /\ uipc = "closing"
  /\ Len(FTerminals) > 0
  /\ uiTerminal' = FTerminals[1]
  /\ FTerminals' = Tail(FTerminals)
  /\ stopping' = [stopping EXCEPT ![FTerminals[1]] = TRUE]
  /\ uipc' = "joining"
  /\ UNCHANGED <<FItems, FDoneItems, FItemsInProcess, FForcedItems, FFreeTerminals,
                 FTemporaryTerminals, settingVars, itemVars, pc, FItem, FCancel, Active, item,
                 outcome, qpc, qTerminal, qItem, passed, failures, faults>>

\* WaitFor() has returned: the object is deleted.
DeleteTerminal ==
  /\ uipc = "joining"
  /\ pc[uiTerminal] = "dead"
  /\ Destroyed(uiTerminal)
  /\ uiTerminal' = NoTerminal
  /\ uipc' = "closing"
  /\ UNCHANGED <<queueVars, settingVars, itemVars, qpc, qTerminal, qItem, passed, failures, faults>>

FreeItems ==
  /\ uipc = "closing"
  /\ Len(FTerminals) = 0
  /\ LET freed == Elements(FItems) \cup FDoneItems IN
       /\ status' = [i \in Items |-> IF i \in freed THEN "freed" ELSE status[i]]
       /\ FCompleteEvent' = [i \in Items |-> IF i \in freed THEN Completed(i) ELSE FCompleteEvent[i]]
  /\ FItems' = << >>
  /\ FDoneItems' = {}
  /\ uipc' = "closed"
  /\ UNCHANGED <<FItemsInProcess, FForcedItems, FTerminals, FFreeTerminals, FTemporaryTerminals,
                 settingVars, FTerminalItem, terminalVars, qpc, qTerminal, qItem, uiTerminal, passed,
                 failures, faults>>

----------------------------------------------------------------------------
Init ==
  /\ FItems = << >> /\ FDoneItems = {} /\ FItemsInProcess = 0
  /\ FForcedItems = [i \in Items |-> 0]
  /\ FTerminals = << >> /\ FFreeTerminals = 0 /\ FTemporaryTerminals = 0
  /\ FTransfersLimit = InitialLimit /\ FKeepDoneItemsFor = 0
  /\ FEnabled = TRUE /\ FTerminated = FALSE
  /\ status = [i \in Items |-> "unborn"]
  /\ FTerminalItem = [i \in Items |-> NoTerminal]
  /\ FCompleteEvent = [i \in Items |-> "none"]
  /\ pc = [t \in Terminals |-> "none"]
  /\ FItem = [t \in Terminals |-> NoItem]
  /\ item = [t \in Terminals |-> NoItem]
  /\ outcome = [t \in Terminals |-> "none"]
  /\ FCancel = [t \in Terminals |-> FALSE]
  /\ Active = [t \in Terminals |-> FALSE]
  /\ stopping = [t \in Terminals |-> FALSE]
  /\ qpc = "wait" /\ qTerminal = NoTerminal /\ qItem = NoItem
  /\ uipc = "ready" /\ uiTerminal = NoTerminal
  /\ passed = {} /\ failures = 0 /\ faults = {}

QueueThread == ProcessEvent \/ Process \/ QueueThreadEnds

Worker(t) ==
  \/ Begin(t) \/ Opened(t) \/ StartTransfer(t) \/ OpenFails(t) \/ Cancelled(t)
  \/ TransferEnds(t) \/ ConnectionLost(t) \/ UsesFreedItem(t)
  \/ RetryItem(t) \/ DeleteItem(t) \/ SkipsRetire(t)
  \/ Free(t) \/ SkipsFree(t) \/ TerminalFinished(t) \/ SkipsFinished(t)

Destructor == EnterItemsSection \/ TerminateFirst \/ DeleteTerminal \/ FreeItems

UserInterface ==
  \/ \E i \in Items : (\E monitored \in BOOLEAN : AddItem(i, monitored)) \/ ItemExecuteNow(i) \/ ItemDelete(i)
  \/ \E i, before \in Items : ItemMove(i, before)
  \/ Idle \/ TerminalIdle
  \/ \E value \in Limits : SetTransfersLimit(value)
  \/ \E value \in KeepTimes : SetKeepDoneItemsFor(value)
  \/ SetEnabled \/ Close \/ Destructor

\* Undefined behaviour is noted in faults; of its outcomes the model takes the
\* mildest, that nothing else happens.
Next == QueueThread \/ (\E t \in Terminals : Worker(t)) \/ UserInterface

\* The queue thread wakes whenever a terminal is freed and at least once a
\* second, while Idle takes a terminal away at most once in two (FIdleInterval):
\* it gets its turn although Idle may take the free terminal in between, which
\* is what strong fairness says.  A worker's thread runs,
\* and its connection attempts and transfers end.  The user owes nothing,
\* but a call of the user interface thread that has begun goes on.
Fairness ==
  /\ SF_vars(QueueThread)
  /\ \A t \in Terminals : WF_vars(Worker(t))
  /\ WF_vars(TerminalIdle \/ Destructor)

\* The same without a promise that connection attempts and transfers end.
Bookkeeping(t) ==
  \/ Begin(t) \/ StartTransfer(t) \/ Cancelled(t) \/ RetryItem(t) \/ DeleteItem(t)
  \/ Free(t) \/ TerminalFinished(t)

FairnessOfQueue ==
  /\ SF_vars(QueueThread)
  /\ \A t \in Terminals : WF_vars(Bookkeeping(t))
  /\ WF_vars(TerminalIdle)

Spec == Init /\ [][Next]_vars
QueueFairSpec == Spec /\ FairnessOfQueue
FairSpec == Spec /\ Fairness

----------------------------------------------------------------------------
(* Properties                                                              *)

Statuses == {"unborn", "pending", "connecting", "processing", "done", "freed"}

QueueTypeOK ==
  /\ FItems \in Seq(Items) /\ FDoneItems \subseteq Items /\ FItemsInProcess \in Int
  /\ FForcedItems \in [Items -> Nat]
  /\ FTerminals \in Seq(Terminals) /\ FFreeTerminals \in Int /\ FTemporaryTerminals \in Nat
SettingTypeOK ==
  /\ FTransfersLimit \in Int /\ FKeepDoneItemsFor \in Int
  /\ FEnabled \in BOOLEAN /\ FTerminated \in BOOLEAN
ItemTypeOK ==
  /\ status \in [Items -> Statuses]
  /\ FTerminalItem \in [Items -> Terminals \cup {NoTerminal}]
  /\ FCompleteEvent \in [Items -> {"none", "armed", "signaled"}]
TerminalTypeOK ==
  /\ pc \in [Terminals -> InProcessEvent \cup {"none", "wait", "dead"}]
  /\ FItem \in [Terminals -> Items \cup {NoItem}]
  /\ item \in [Terminals -> Items \cup {NoItem}]
  /\ outcome \in [Terminals -> {"none", "retry", "keep", "drop"}]
  /\ FCancel \in [Terminals -> BOOLEAN] /\ Active \in [Terminals -> BOOLEAN]
  /\ stopping \in [Terminals -> BOOLEAN]
ThreadTypeOK ==
  /\ qpc \in {"wait", "awake", "assign", "dead"}
  /\ qTerminal \in Terminals \cup {NoTerminal} /\ qItem \in Items \cup {NoItem}
  /\ uipc \in {"ready", "idle", "waiting", "closing", "joining", "closed"}
  /\ uiTerminal \in Terminals \cup {NoTerminal}
  /\ passed \subseteq Terminals /\ failures \in Nat
  /\ faults \subseteq {"freed item used", "no FTerminalItem", "item taken on twice"}

TypeOK == QueueTypeOK /\ SettingTypeOK /\ ItemTypeOK /\ TerminalTypeOK /\ ThreadTypeOK

\* The destructor has begun to take the list of terminals apart.
Closing == uipc \in {"closing", "joining", "closed"}

\* FFreeTerminals counts, at the front of FTerminals, exactly terminals that
\* wait for work: connected, not told to terminate, without an item, and in
\* the hands of neither the queue thread nor Idle.  ProcessEvent and Idle take
\* terminals from there without looking at them (Queue.cpp 950, 1016).
FreeTerminalsAreIdle ==
  ~Closing =>
    /\ FFreeTerminals \in 0..Len(FTerminals)
    /\ \A k \in 1..FFreeTerminals : LET t == FTerminals[k] IN
         /\ pc[t] = "wait" /\ FItem[t] = NoItem /\ Active[t] /\ ~stopping[t]
         /\ t \notin {qTerminal, uiTerminal}

\* FTerminals lists every live worker object once and nothing else, so that
\* the DebugAsserts on IndexOf in TerminalFinished and TerminalFree hold and
\* no pointer in the list outlives its object.
TerminalsListed ==
  ~Closing =>
    /\ \A t \in Terminals : Contains(FTerminals, t) <=> pc[t] # "none"
    /\ Distinct(FTerminals)

\* What makes the two invariants above inductive.  FTerminals is exact also
\* while the destructor empties it ...
ListInv ==
  /\ \A t \in Terminals :
       pc[t] # "none" <=> (Contains(FTerminals, t) \/ (uipc = "joining" /\ t = uiTerminal))
  /\ Distinct(FTerminals)
  /\ uipc = "joining" => ~Contains(FTerminals, uiTerminal)

\* ... a terminal in the hands of the queue thread or of Idle is as idle as a
\* free one, and is in one pair of hands ...
IdleTerminal(t) == t \in Terminals /\ pc[t] = "wait" /\ FItem[t] = NoItem /\ ~stopping[t]
HandsInv ==
  /\ qpc = "assign" => IdleTerminal(qTerminal) /\ qItem \in Items
  /\ qpc # "assign" => qTerminal = NoTerminal
  /\ uipc = "idle" => IdleTerminal(uiTerminal) /\ Active[uiTerminal] /\ uiTerminal # qTerminal
  /\ uipc = "joining" => uiTerminal \in Terminals
  /\ uipc \notin {"idle", "joining"} => uiTerminal = NoTerminal

\* ... a worker has an item while it works on one, and outside the destructor
\* only an idle worker is told to terminate ...
WorkerInv ==
  /\ \A t \in Terminals :
       /\ pc[t] \in {"opening", "opened", "running"} => FItem[t] \in Items
       /\ pc[t] = "retire" => item[t] \in Items
       /\ pc[t] # "retire" => item[t] = NoItem
       /\ pc[t] \in {"retire", "free", "none"} => FItem[t] = NoItem
       /\ ~Closing /\ stopping[t] =>
            pc[t] \in {"wait", "dead"} /\ FItem[t] = NoItem /\ t \notin {qTerminal, uiTerminal}

\* ... FItemsInProcess counts at least the items in the hands of a thread, so
\* that it never falls below zero and FItems[FItemsInProcess] is an item ...
Loaded == {t \in Terminals : FItem[t] # NoItem \/ item[t] # NoItem}
CountInv == Cardinality(Loaded) + (IF qpc = "assign" THEN 1 ELSE 0) <= FItemsInProcess

\* ... and the destructor takes the list apart when the queue thread has ended.
CloseInv ==
  /\ uipc \in {"waiting", "closing", "joining", "closed"} => FTerminated
  /\ Closing => qpc = "dead"
  /\ uipc = "closed" => FTerminals = << >>

PoolInvariant == ListInv /\ HandsInv /\ WorkerInv /\ CountInv /\ CloseInv /\ FreeTerminalsAreIdle

\* FItemsInProcess is a prefix: the items some thread works on are exactly the
\* first FItemsInProcess of the list, each taken on once.  DeleteItem,
\* RetryItem, ProcessEvent and ItemExecuteNow all rely on it.
InProcessIsPrefix ==
  ~FTerminated =>
    /\ FItemsInProcess \in 0..Len(FItems)
    /\ InProcess = {FItems[k] : k \in 1..FItemsInProcess}
    /\ \A i \in InProcess : Cardinality(Carriers(i)) + (IF qItem = i THEN 1 ELSE 0) = 1

\* The queue implements TransferQueue: transfers start in the order of the
\* list, each is taken on by one thread at a time, and each one taken on leaves
\* the queue or goes to the end of the list.
Queue == INSTANCE TransferQueue WITH
  waiting <- SubSeq(FItems, FItemsInProcess + 1, Len(FItems)),
  active <- InProcess,
  left <- {i \in Items : status[i] # "unborn" /\ ~Contains(FItems, i)}
ImplementsTransferQueue == Queue!Spec

\* An event is signaled when, and only when, its transfer has left the queue.
EventsTrackList ==
  \A i \in Items :
    /\ FCompleteEvent[i] = "armed" => Contains(FItems, i)
    /\ FCompleteEvent[i] = "signaled" => ~Contains(FItems, i)

\* A monitor's event tracks the list whichever way the transfer leaves it:
\* retired, cancelled, deleted or freed by the destructor.  Only a transfer that
\* two workers have taken on, see ItemMove, may be put back after it has left.
CompletionTracksList == "item taken on twice" \notin faults => EventsTrackList

\* As long as the user does not change the limit there are never more workers
\* than the limit and the temporary ones granted beyond it.
WorkersWithinLimit ==
  FTransfersLimit >= 0 => Len(FTerminals) <= FTransfersLimit + FTemporaryTerminals

\* If connection attempts and transfers end, every transfer leaves the queue,
\* however often its worker has to reconnect.
TransfersEnd == \A t \in Terminals : WF_vars(Worker(t))
EveryItemLeaves ==
  TransfersEnd => \A i \in Items : Contains(FItems, i) ~> ~Contains(FItems, i)

\* "Execute now" means now: the transfer starts although every worker within
\* the limit may be busy for good.
ForcedItemStarts == \A i \in Items : FForcedItems[i] > 0 ~> FForcedItems[i] = 0

\* The destructor returns.
CloseReturns == FTerminated ~> uipc = "closed"
=============================================================================
