------------------------ MODULE TerminalQueueProofs ------------------------
(***************************************************************************)
(* Proofs about TerminalQueue for any number of items and terminals, any   *)
(* limits and any operations of the user.                                  *)
(***************************************************************************)
EXTENDS TerminalQueue, ListsProofs, FiniteSetTheorems, SequenceTheorems

\* Taking the force off one item keeps the count a number.
LEMMA UnforcedFacts ==
  ASSUME FForcedItems \in [Items -> Nat], NEW i \in Items
  PROVE  Unforced(i) \in [Items -> Nat]
  BY DEF Unforced

----------------------------------------------------------------------------
(* The inductive invariant                                                 *)

IInv == TypeOK /\ PoolInvariant

\* FItemsInProcess is never negative ...
LEMMA CountFacts ==
  ASSUME TypeOK, PoolInvariant
  PROVE  FItemsInProcess \in Nat
  <1>1. IsFiniteSet(Loaded)
    BY FiniteAssumption, FS_Subset DEF Loaded
  <1>2. Cardinality(Loaded) \in Nat
    BY <1>1, FS_CardinalityType
  <1>3. FItemsInProcess \in Int
    BY DEF TypeOK, QueueTypeOK
  <1>4. QED
    BY <1>2, <1>3 DEF PoolInvariant, CountInv

\* ... so the queue thread takes an item out of the list's bounds never.
LEMMA NextItemFacts ==
  ASSUME TypeOK, PoolInvariant, HasNext
  PROVE  NextItem \in Items
  <1>1. FItems \in Seq(Items) /\ FItemsInProcess + 1 \in 1..Len(FItems)
    BY CountFacts DEF HasNext, TypeOK, QueueTypeOK
  <1>2. QED
    BY <1>1 DEF NextItem

\* The free terminals are at the front of the list.
LEMMA FreeFacts ==
  ASSUME TypeOK, PoolInvariant, ~Closing
  PROVE  FFreeTerminals \in 0..Len(FTerminals) /\ Len(FTerminals) \in Nat
  BY DEF TypeOK, QueueTypeOK, PoolInvariant, FreeTerminalsAreIdle

\* A terminal that is returned to the pool moves within the list.
LEMMA FreeKeepsList ==
  ASSUME TypeOK, NEW t, Contains(FTerminals, t)
  PROVE  Move(FTerminals, IndexOf(FTerminals, t), 1) \in Seq(Terminals)
  <1>1. IndexOf(FTerminals, t) \in Positions(FTerminals)
    BY IndexOfFacts
  <1>2. FTerminals \in Seq(Terminals) /\ 1 \in Positions(FTerminals)
    BY <1>1 DEF TypeOK, QueueTypeOK, Positions
  <1>3. QED
    BY <1>1, <1>2, MoveFacts

----------------------------------------------------------------------------
(* Every step keeps the types                                              *)

\* The queue's lists and counts keep their types; an index computed from another
\* variable stays within its list by the pool's invariant.
LEMMA QueueTypeStep == TypeOK /\ PoolInvariant /\ Next => QueueTypeOK'
  <1> SUFFICES ASSUME TypeOK, PoolInvariant, Next PROVE QueueTypeOK'
    OBVIOUS
  <1> USE DEF TypeOK, queueVars, settingVars, itemVars, terminalVars, threadVars
  <1>1. ASSUME ProcessEvent PROVE QueueTypeOK'
    <2>1. FDoneItems' \subseteq Items /\ UNCHANGED <<FItems, FTemporaryTerminals>>
      BY <1>1 DEF ProcessEvent, RemoveExpired, QueueTypeOK
    <2>2. CASE NothingToStart
      BY <2>1, <2>2 DEF NothingToStart, QueueTypeOK
    <2>3. ASSUME NEW t \in Terminals, Hire(t) PROVE QueueTypeOK'
      <3>1. FForcedItems' \in [Items -> Nat] /\ FItemsInProcess' = FItemsInProcess + 1
        BY <2>3, NextItemFacts, UnforcedFacts DEF Hire, Runnable, TakeNextItem, QueueTypeOK
      <3>2. FTerminals' \in Seq(Terminals) /\ UNCHANGED FFreeTerminals
        BY <2>3 DEF Hire, QueueTypeOK
      <3>3. QED
        BY <2>1, <3>1, <3>2 DEF QueueTypeOK
    <2>4. CASE Reuse
      <3>1. FForcedItems' \in [Items -> Nat] /\ FItemsInProcess' = FItemsInProcess + 1
        BY <2>4, NextItemFacts, UnforcedFacts DEF Reuse, Runnable, TakeNextItem, QueueTypeOK
      <3>2. Len(FTerminals) \in Positions(FTerminals) /\ 1 \in Positions(FTerminals)
        BY <1>1, <2>4, FreeFacts DEF ProcessEvent, ItemsSectionFree, Reuse, CloseInv,
           PoolInvariant,
             Closing, QueueTypeOK, Positions
      <3>3. FTerminals' \in Seq(Terminals) /\ FFreeTerminals' = FFreeTerminals - 1
        BY <2>4, <3>2, MoveFacts DEF Reuse, QueueTypeOK
      <3>4. QED
        BY <2>1, <3>1, <3>3 DEF QueueTypeOK
    <2>5. QED
      BY <1>1, <2>2, <2>3, <2>4 DEF ProcessEvent
  <1>2. ASSUME NEW t \in Terminals, RetryItem(t) PROVE QueueTypeOK'
    <2>1. item[t] \in Items
      BY <1>2 DEF RetryItem, PoolInvariant, WorkerInv
    <2>2. Remove(FItems, item[t]) \in Seq(Items)
      BY RemoveFacts DEF QueueTypeOK
    <2>3. FItems' \in Seq(Items)
      BY <1>2, <2>1, <2>2 DEF RetryItem, Requeued
    <2>4. QED
      BY <1>2, <2>3 DEF RetryItem, QueueTypeOK
  <1>3. ASSUME NEW t \in Terminals, DeleteItem(t) PROVE QueueTypeOK'
    <2>1. item[t] \in Items
      BY <1>3 DEF DeleteItem, PoolInvariant, WorkerInv
    <2>2. FItems' \in Seq(Items) /\ FForcedItems' \in [Items -> Nat]
      BY <1>3, <2>1, RemoveFacts, UnforcedFacts DEF DeleteItem, QueueTypeOK
    <2>3. QED
      BY <1>3, <2>1, <2>2 DEF DeleteItem, QueueTypeOK
  <1>4. ASSUME NEW t \in Terminals, Free(t) PROVE QueueTypeOK'
    <2>1. CASE Active[t]
      <3>1. Contains(FTerminals, t)
        BY <1>4, <2>1 DEF Free, ItemsSectionFree, PoolInvariant, ListInv
      <3>2. FTerminals' \in Seq(Terminals) /\ FFreeTerminals' \in Int
        BY <1>4, <3>1, FreeKeepsList DEF Free, TerminalFree, QueueTypeOK
      <3>3. QED
        BY <1>4, <3>2 DEF Free, QueueTypeOK
    <2>2. CASE ~Active[t]
      BY <1>4, <2>2 DEF Free, TerminalFree, QueueTypeOK
    <2>3. QED
      BY <2>1, <2>2
  <1>5. ASSUME NEW t \in Terminals, TerminalFinished(t) PROVE QueueTypeOK'
    <2>1. Contains(FTerminals, t)
      BY <1>5 DEF TerminalFinished, Ends, ItemsSectionFree, PoolInvariant, ListInv
    <2>2. FTerminals' \in Seq(Terminals)
      BY <1>5, <2>1, IndexOfFacts, DeleteAtFacts DEF TerminalFinished, Extracted, QueueTypeOK
    <2>3. QED
      BY <1>5, <2>2 DEF TerminalFinished, QueueTypeOK
  <1>6. ASSUME NEW i \in Items, NEW monitored \in BOOLEAN, AddItem(i, monitored) PROVE QueueTypeOK'
    BY <1>6 DEF AddItem, Ui, UiKeeps, QueueTypeOK
  <1>7. ASSUME NEW i \in Items, NEW before \in Items, ItemMove(i, before) PROVE QueueTypeOK'
    <2>1. FItems' \in Seq(Items)
      BY <1>7, IndexOfFacts, MoveFacts DEF ItemMove, QueueTypeOK
    <2>2. QED
      BY <1>7, <2>1 DEF ItemMove, QueueTypeOK
  <1>8. ASSUME NEW i \in Items, ItemExecuteNow(i) PROVE QueueTypeOK'
    <2>1. /\ IndexOf(FItems, i) \in Positions(FItems) /\ FItemsInProcess + 1 \in Positions(FItems)
      BY <1>8, IndexOfFacts, CountFacts DEF ItemExecuteNow, QueueTypeOK, Positions
    <2>2. FItems' \in Seq(Items)
      BY <1>8, <2>1, MoveFacts DEF ItemExecuteNow, QueueTypeOK
    <2>3. FForcedItems' \in [Items -> Nat] /\ FTemporaryTerminals' \in Nat
      BY <1>8 DEF ItemExecuteNow, QueueTypeOK
    <2>4. QED
      BY <1>8, <2>2, <2>3 DEF ItemExecuteNow, QueueTypeOK
  <1>9. ASSUME NEW i \in Items, DeletePending(i) PROVE QueueTypeOK'
    <2>1. FItems' \in Seq(Items)
      BY <1>9, IndexOfFacts, DeleteAtFacts DEF DeletePending, QueueTypeOK
    <2>2. QED
      BY <1>9, <2>1, UnforcedFacts DEF DeletePending, QueueTypeOK
  <1>10. ASSUME NEW i \in Items, DeleteDone(i) PROVE QueueTypeOK'
    BY <1>10 DEF DeleteDone, Ui, UiKeeps, QueueTypeOK
  <1>11. ASSUME Idle PROVE QueueTypeOK'
    <2>1. FFreeTerminals \in Positions(FTerminals) /\ Len(FTerminals) \in Positions(FTerminals)
      BY <1>11, FreeFacts DEF Idle, Ui, Closing, QueueTypeOK, Positions
    <2>2. FTerminals' \in Seq(Terminals) /\ FFreeTerminals' \in Int
      BY <1>11, <2>1, MoveFacts DEF Idle, QueueTypeOK
    <2>3. QED
      BY <1>11, <2>2 DEF Idle, QueueTypeOK
  <1>12. ASSUME TerminalIdle PROVE QueueTypeOK'
    <2>1. uiTerminal \in Terminals /\ Contains(FTerminals, uiTerminal)
      BY <1>12 DEF TerminalIdle, PoolInvariant, HandsInv, ListInv, IdleTerminal
    <2>2. FTerminals' \in Seq(Terminals) /\ FFreeTerminals' \in Int
      BY <1>12, <2>1, FreeKeepsList DEF TerminalIdle, TerminalFree, QueueTypeOK
    <2>3. QED
      BY <1>12, <2>2 DEF TerminalIdle, QueueTypeOK
  <1>13. ASSUME NEW value \in Limits, SetTransfersLimit(value) PROVE QueueTypeOK'
    <2>1. FTemporaryTerminals' \in Nat
      BY <1>13, LimitAssumption DEF SetTransfersLimit, QueueTypeOK
    <2>2. QED
      BY <1>13, <2>1 DEF SetTransfersLimit, QueueTypeOK
  <1>14. ASSUME TerminateFirst PROVE QueueTypeOK'
    BY <1>14 DEF TerminateFirst, QueueTypeOK
  <1>15. ASSUME FreeItems PROVE QueueTypeOK'
    BY <1>15 DEF FreeItems, QueueTypeOK
  <1>16. ASSUME
             \/ Process \/ QueueThreadEnds
       PROVE QueueTypeOK'
    BY <1>16 DEF Process, QueueThreadEnds, QueueTypeOK
  <1>17. ASSUME NEW t \in Terminals,
             \/ Begin(t) \/ Opened(t) \/ StartTransfer(t) \/ OpenFails(t) \/ Cancelled(t)
             \/ TransferEnds(t) \/ ConnectionLost(t) \/ UsesFreedItem(t) \/ SkipsRetire(t)
             \/ SkipsFree(t) \/ SkipsFinished(t)
       PROVE QueueTypeOK'
    BY <1>17 DEF Begin, Opened, StartTransfer, OpenFails, Detach, Cancelled, TransferEnds,
       ConnectionLost,
           UsesFreedItem, SkipsRetire, SkipsFree, SkipsFinished, QueueTypeOK
  <1>18. ASSUME
             \/ (\E i \in Items : CancelTransfer(i))
             \/ (\E value \in KeepTimes : SetKeepDoneItemsFor(value)) \/ SetEnabled \/ Close
             \/ EnterItemsSection \/ DeleteTerminal
       PROVE QueueTypeOK'
    BY <1>18 DEF CancelTransfer, Ui, UiKeeps, SetKeepDoneItemsFor, SetEnabled, Close,
       EnterItemsSection,
           DeleteTerminal, Destroyed, QueueTypeOK
  <1>19. QED
    BY <1>1, <1>2, <1>3, <1>4, <1>5, <1>6, <1>7, <1>8, <1>9, <1>10, <1>11, <1>12, <1>13, <1>14,
       <1>15,
       <1>16, <1>17, <1>18
       DEF Next, QueueThread, Worker, UserInterface, Destructor, ItemDelete

\* So do the settings ...
LEMMA SettingTypeStep == TypeOK /\ PoolInvariant /\ Next => SettingTypeOK'
  <1> SUFFICES ASSUME TypeOK, PoolInvariant, Next PROVE SettingTypeOK'
    OBVIOUS
  <1> USE DEF TypeOK, queueVars, settingVars, itemVars, terminalVars, threadVars
  <1>1. ASSUME NEW value \in Limits, SetTransfersLimit(value) PROVE SettingTypeOK'
    BY <1>1, LimitAssumption DEF SetTransfersLimit, Ui, UiKeeps, SettingTypeOK
  <1>2. ASSUME NEW value \in KeepTimes, SetKeepDoneItemsFor(value) PROVE SettingTypeOK'
    BY <1>2, LimitAssumption DEF SetKeepDoneItemsFor, Ui, UiKeeps, SettingTypeOK
  <1>3. ASSUME SetEnabled PROVE SettingTypeOK'
    BY <1>3, LimitAssumption DEF SetEnabled, Ui, UiKeeps, SettingTypeOK
  <1>4. ASSUME Close PROVE SettingTypeOK'
    BY <1>4, LimitAssumption DEF Close, Ui, Ends, SettingTypeOK
  <1>5. ASSUME
             \/ ProcessEvent \/ Process \/ QueueThreadEnds
       PROVE SettingTypeOK'
    BY <1>5 DEF ProcessEvent, RemoveExpired, Process, QueueThreadEnds, SettingTypeOK
  <1>6. ASSUME NEW t \in Terminals,
             \/ Begin(t) \/ Opened(t) \/ StartTransfer(t) \/ OpenFails(t) \/ Cancelled(t)
             \/ TransferEnds(t) \/ ConnectionLost(t) \/ UsesFreedItem(t) \/ RetryItem(t)
             \/ DeleteItem(t) \/ SkipsRetire(t) \/ Free(t) \/ SkipsFree(t)
             \/ TerminalFinished(t) \/ SkipsFinished(t)
       PROVE SettingTypeOK'
    BY <1>6 DEF Begin, Opened, StartTransfer, OpenFails, Detach, Cancelled, TransferEnds,
       ConnectionLost,
           UsesFreedItem, RetryItem, DeleteItem, SkipsRetire, Free, TerminalFree, SkipsFree,
           TerminalFinished, Destroyed, SkipsFinished, SettingTypeOK
  <1>7. ASSUME
             \/ (\E i \in Items : (\E monitored \in BOOLEAN : AddItem(i, monitored)))
             \/ (\E i \in Items : (\E before \in Items : ItemMove(i, before)))
             \/ (\E i \in Items : ItemExecuteNow(i)) \/ (\E i \in Items : DeletePending(i))
             \/ (\E i \in Items : CancelTransfer(i)) \/ (\E i \in Items : DeleteDone(i)) \/ Idle
             \/ TerminalIdle \/ EnterItemsSection \/ TerminateFirst \/ DeleteTerminal
             \/ FreeItems
       PROVE SettingTypeOK'
    BY <1>7 DEF AddItem, Ui, UiKeeps, ItemMove, ItemExecuteNow, DeletePending, CancelTransfer,
       DeleteDone,
           Idle, TerminalIdle, TerminalFree, EnterItemsSection, TerminateFirst, DeleteTerminal,
           Destroyed, FreeItems, SettingTypeOK
  <1>8. QED
    BY <1>1, <1>2, <1>3, <1>4, <1>5, <1>6, <1>7
       DEF Next, QueueThread, Worker, UserInterface, Destructor, ItemDelete

\* ... the items ...
LEMMA ItemTypeStep == TypeOK /\ PoolInvariant /\ Next => ItemTypeOK'
  <1> SUFFICES ASSUME TypeOK, PoolInvariant, Next PROVE ItemTypeOK'
    OBVIOUS
  <1> USE DEF TypeOK, queueVars, settingVars, itemVars, terminalVars, threadVars
  <1>1. ASSUME ProcessEvent PROVE ItemTypeOK'
    BY <1>1 DEF ProcessEvent, RemoveExpired, Hire, Reuse, NothingToStart, TakeNextItem,
       ItemTypeOK, Statuses
  <1>2. ASSUME NEW t \in Terminals, Begin(t) PROVE ItemTypeOK'
    BY <1>2 DEF Begin, ItemTypeOK, Statuses
  <1>3. ASSUME NEW t \in Terminals, StartTransfer(t) PROVE ItemTypeOK'
    BY <1>3 DEF StartTransfer, ItemTypeOK, Statuses, PoolInvariant, WorkerInv
  <1>4. ASSUME NEW t \in Terminals, OpenFails(t) PROVE ItemTypeOK'
    BY <1>4 DEF OpenFails, Detach, MayFail, ItemTypeOK, Statuses
  <1>5. ASSUME NEW t \in Terminals, Cancelled(t) PROVE ItemTypeOK'
    BY <1>5 DEF Cancelled, Detach, ItemTypeOK, Statuses
  <1>6. ASSUME NEW t \in Terminals, TransferEnds(t) PROVE ItemTypeOK'
    BY <1>6 DEF TransferEnds, Detach, ItemTypeOK, Statuses
  <1>7. ASSUME NEW t \in Terminals, ConnectionLost(t) PROVE ItemTypeOK'
    BY <1>7 DEF ConnectionLost, Detach, MayFail, ItemTypeOK, Statuses
  <1>8. ASSUME NEW t \in Terminals, DeleteItem(t) PROVE ItemTypeOK'
    <2>1. item[t] \in Items
      BY <1>8 DEF DeleteItem, PoolInvariant, WorkerInv
    <2>2. status' \in [Items -> Statuses] /\ UNCHANGED FTerminalItem
      BY <1>8, <2>1 DEF DeleteItem, ItemTypeOK, Statuses
    <2>3. FCompleteEvent' \in [Items -> {"none", "armed", "signaled"}]
      BY <1>8, <2>1 DEF DeleteItem, Completed, ItemTypeOK
    <2>4. QED
      BY <2>2, <2>3 DEF ItemTypeOK
  <1>9. ASSUME NEW i \in Items, NEW monitored \in BOOLEAN, AddItem(i, monitored) PROVE ItemTypeOK'
    BY <1>9 DEF AddItem, Ui, UiKeeps, ItemTypeOK, Statuses
  <1>10. ASSUME NEW i \in Items, DeletePending(i) PROVE ItemTypeOK'
    <2>1. status' \in [Items -> Statuses] /\ UNCHANGED FTerminalItem
      BY <1>10 DEF DeletePending, ItemTypeOK, Statuses
    <2>2. FCompleteEvent' \in [Items -> {"none", "armed", "signaled"}]
      BY <1>10 DEF DeletePending, Completed, ItemTypeOK
    <2>3. QED
      BY <2>1, <2>2 DEF ItemTypeOK
  <1>11. ASSUME FreeItems PROVE ItemTypeOK'
    <2>1. status' \in [Items -> Statuses] /\ UNCHANGED FTerminalItem
      BY <1>11 DEF FreeItems, ItemTypeOK, Statuses
    <2>2. FCompleteEvent' \in [Items -> {"none", "armed", "signaled"}]
      BY <1>11 DEF FreeItems, Completed, ItemTypeOK
    <2>3. QED
      BY <2>1, <2>2 DEF ItemTypeOK
  <1>12. ASSUME
             \/ Process \/ QueueThreadEnds
       PROVE ItemTypeOK'
    BY <1>12 DEF Process, QueueThreadEnds, ItemTypeOK
  <1>13. ASSUME NEW t \in Terminals,
             \/ Opened(t) \/ UsesFreedItem(t) \/ RetryItem(t) \/ SkipsRetire(t) \/ Free(t)
             \/ SkipsFree(t) \/ TerminalFinished(t) \/ SkipsFinished(t)
       PROVE ItemTypeOK'
    BY <1>13 DEF Opened, UsesFreedItem, RetryItem, SkipsRetire, Free, TerminalFree, SkipsFree,
           TerminalFinished, Destroyed, SkipsFinished, ItemTypeOK
  <1>14. ASSUME
             \/ (\E i \in Items : (\E before \in Items : ItemMove(i, before)))
             \/ (\E i \in Items : ItemExecuteNow(i)) \/ (\E i \in Items : CancelTransfer(i))
             \/ (\E i \in Items : DeleteDone(i)) \/ Idle \/ TerminalIdle
             \/ (\E value \in Limits : SetTransfersLimit(value))
             \/ (\E value \in KeepTimes : SetKeepDoneItemsFor(value)) \/ SetEnabled \/ Close
             \/ EnterItemsSection \/ TerminateFirst \/ DeleteTerminal
       PROVE ItemTypeOK'
    BY <1>14 DEF ItemMove, Ui, UiKeeps, ItemExecuteNow, CancelTransfer, DeleteDone, Idle,
       TerminalIdle,
           TerminalFree, SetTransfersLimit, SetKeepDoneItemsFor, SetEnabled, Close,
           EnterItemsSection, TerminateFirst, DeleteTerminal, Destroyed, ItemTypeOK
  <1>15. QED
    BY <1>1, <1>2, <1>3, <1>4, <1>5, <1>6, <1>7, <1>8, <1>9, <1>10, <1>11, <1>12, <1>13, <1>14
       DEF Next, QueueThread, Worker, UserInterface, Destructor, ItemDelete

\* ... the terminals ...
LEMMA TerminalTypeStep == TypeOK /\ PoolInvariant /\ Next => TerminalTypeOK'
  <1> SUFFICES ASSUME TypeOK, PoolInvariant, Next PROVE TerminalTypeOK'
    OBVIOUS
  <1> USE DEF TypeOK, queueVars, settingVars, itemVars, terminalVars, threadVars
  <1>1. ASSUME ProcessEvent PROVE TerminalTypeOK'
    BY <1>1, NullsAssumption DEF ProcessEvent, RemoveExpired, Hire, Reuse, NothingToStart,
       TakeNextItem, TerminalTypeOK,
           InProcessEvent
  <1>2. ASSUME Process PROVE TerminalTypeOK'
    BY <1>2 DEF Process, TerminalTypeOK, ThreadTypeOK
  <1>3. ASSUME NEW t \in Terminals, Begin(t) PROVE TerminalTypeOK'
    BY <1>3, NullsAssumption DEF Begin, TerminalTypeOK, InProcessEvent
  <1>4. ASSUME NEW t \in Terminals, Opened(t) PROVE TerminalTypeOK'
    BY <1>4, NullsAssumption DEF Opened, TerminalTypeOK, InProcessEvent
  <1>5. ASSUME NEW t \in Terminals, StartTransfer(t) PROVE TerminalTypeOK'
    BY <1>5, NullsAssumption DEF StartTransfer, TerminalTypeOK, InProcessEvent
  <1>6. ASSUME NEW t \in Terminals, OpenFails(t) PROVE TerminalTypeOK'
    <2>1. PICK cancel \in BOOLEAN : Detach(t, TRUE, cancel)
      <3>1. FCancel[t] \in BOOLEAN
        BY DEF TerminalTypeOK
      <3>2. QED
        BY <1>6, <3>1 DEF OpenFails
    <2>2. UNCHANGED <<Active, stopping>>
      BY <1>6, <2>1 DEF OpenFails, Detach
    <2>3. QED
      BY <2>1, <2>2 DEF Detach, TerminalTypeOK, InProcessEvent
  <1>7. ASSUME NEW t \in Terminals, Cancelled(t) PROVE TerminalTypeOK'
    BY <1>7, NullsAssumption DEF Cancelled, Detach, TerminalTypeOK, InProcessEvent
  <1>8. ASSUME NEW t \in Terminals, TransferEnds(t) PROVE TerminalTypeOK'
    <2>1. PICK cancel \in BOOLEAN : Detach(t, FALSE, cancel)
      <3>1. FCancel[t] \in BOOLEAN
        BY DEF TerminalTypeOK
      <3>2. QED
        BY <1>8, <3>1 DEF TransferEnds
    <2>2. UNCHANGED <<Active, stopping>>
      BY <1>8, <2>1 DEF TransferEnds, Detach
    <2>3. QED
      BY <2>1, <2>2 DEF Detach, TerminalTypeOK, InProcessEvent
  <1>9. ASSUME NEW t \in Terminals, ConnectionLost(t) PROVE TerminalTypeOK'
    <2>1. PICK cancel \in BOOLEAN : Detach(t, FALSE, cancel)
      <3>1. FCancel[t] \in BOOLEAN
        BY DEF TerminalTypeOK
      <3>2. QED
        BY <1>9, <3>1 DEF ConnectionLost
    <2>2. Active' = [Active EXCEPT ![t] = FALSE] /\ UNCHANGED stopping
      BY <1>9, <2>1 DEF ConnectionLost, Detach
    <2>3. QED
      BY <2>1, <2>2 DEF Detach, TerminalTypeOK, InProcessEvent
  <1>10. ASSUME NEW t \in Terminals, RetryItem(t) PROVE TerminalTypeOK'
    BY <1>10, NullsAssumption DEF RetryItem, TerminalTypeOK, InProcessEvent
  <1>11. ASSUME NEW t \in Terminals, DeleteItem(t) PROVE TerminalTypeOK'
    BY <1>11, NullsAssumption DEF DeleteItem, TerminalTypeOK, InProcessEvent
  <1>12. ASSUME NEW t \in Terminals, SkipsRetire(t) PROVE TerminalTypeOK'
    BY <1>12, NullsAssumption DEF SkipsRetire, TerminalTypeOK, InProcessEvent
  <1>13. ASSUME NEW t \in Terminals, Free(t) PROVE TerminalTypeOK'
    BY <1>13, NullsAssumption DEF Free, TerminalFree, TerminalTypeOK, InProcessEvent
  <1>14. ASSUME NEW t \in Terminals, SkipsFree(t) PROVE TerminalTypeOK'
    BY <1>14, NullsAssumption DEF SkipsFree, TerminalTypeOK, InProcessEvent
  <1>15. ASSUME NEW t \in Terminals, TerminalFinished(t) PROVE TerminalTypeOK'
    BY <1>15, NullsAssumption DEF TerminalFinished, Ends, Destroyed, TerminalTypeOK,
       InProcessEvent
  <1>16. ASSUME NEW t \in Terminals, SkipsFinished(t) PROVE TerminalTypeOK'
    BY <1>16, NullsAssumption DEF SkipsFinished, Ends, TerminalTypeOK, InProcessEvent
  <1>17. ASSUME NEW i \in Items, CancelTransfer(i) PROVE TerminalTypeOK'
    BY <1>17, NullsAssumption DEF CancelTransfer, Ui, UiKeeps, TerminalTypeOK, InProcessEvent
  <1>18. ASSUME TerminalIdle PROVE TerminalTypeOK'
    BY <1>18, NullsAssumption DEF TerminalIdle, TerminalFree, MayFail, TerminalTypeOK,
       InProcessEvent
  <1>19. ASSUME TerminateFirst PROVE TerminalTypeOK'
    BY <1>19, NullsAssumption DEF TerminateFirst, TerminalTypeOK, InProcessEvent
  <1>20. ASSUME DeleteTerminal PROVE TerminalTypeOK'
    BY <1>20, NullsAssumption DEF DeleteTerminal, Destroyed, TerminalTypeOK, InProcessEvent
  <1>21. ASSUME
             \/ QueueThreadEnds
       PROVE TerminalTypeOK'
    BY <1>21 DEF QueueThreadEnds, TerminalTypeOK
  <1>22. ASSUME NEW t \in Terminals,
             \/ UsesFreedItem(t)
       PROVE TerminalTypeOK'
    BY <1>22 DEF UsesFreedItem, TerminalTypeOK
  <1>23. ASSUME
             \/ (\E i \in Items : (\E monitored \in BOOLEAN : AddItem(i, monitored)))
             \/ (\E i \in Items : (\E before \in Items : ItemMove(i, before)))
             \/ (\E i \in Items : ItemExecuteNow(i)) \/ (\E i \in Items : DeletePending(i))
             \/ (\E i \in Items : DeleteDone(i)) \/ Idle
             \/ (\E value \in Limits : SetTransfersLimit(value))
             \/ (\E value \in KeepTimes : SetKeepDoneItemsFor(value)) \/ SetEnabled \/ Close
             \/ EnterItemsSection \/ FreeItems
       PROVE TerminalTypeOK'
    BY <1>23 DEF AddItem, Ui, UiKeeps, ItemMove, ItemExecuteNow, DeletePending, DeleteDone, Idle,
           SetTransfersLimit, SetKeepDoneItemsFor, SetEnabled, Close, EnterItemsSection,
           FreeItems, TerminalTypeOK
  <1>24. QED
    BY <1>1, <1>2, <1>3, <1>4, <1>5, <1>6, <1>7, <1>8, <1>9, <1>10, <1>11, <1>12, <1>13, <1>14,
       <1>15,
       <1>16, <1>17, <1>18, <1>19, <1>20, <1>21, <1>22, <1>23
       DEF Next, QueueThread, Worker, UserInterface, Destructor, ItemDelete

\* ... and the places of the threads.
LEMMA ThreadTypeStep == TypeOK /\ PoolInvariant /\ Next => ThreadTypeOK'
  <1> SUFFICES ASSUME TypeOK, PoolInvariant, Next PROVE ThreadTypeOK'
    OBVIOUS
  <1> USE DEF TypeOK, queueVars, settingVars, itemVars, terminalVars, threadVars
  <1>1. ASSUME ProcessEvent PROVE ThreadTypeOK'
    <2>1. CASE NothingToStart
      BY <1>1, <2>1 DEF ProcessEvent, NothingToStart, ThreadTypeOK
    <2>2. ASSUME NEW t \in Terminals, Hire(t) PROVE ThreadTypeOK'
      BY <1>1, <2>2, NextItemFacts DEF ProcessEvent, Hire, Runnable, TakeNextItem, ThreadTypeOK
    <2>3. CASE Reuse
      <3>1. FTerminals[1] \in Terminals
        BY <1>1, <2>3, FreeFacts DEF ProcessEvent, ItemsSectionFree, Reuse, CloseInv,
           PoolInvariant, Closing, QueueTypeOK
      <3>2. QED
        BY <1>1, <2>3, <3>1, NextItemFacts DEF ProcessEvent, Reuse, Runnable, TakeNextItem,
           ThreadTypeOK
    <2>4. QED
      BY <1>1, <2>1, <2>2, <2>3 DEF ProcessEvent
  <1>2. ASSUME Process PROVE ThreadTypeOK'
    BY <1>2 DEF Process, ThreadTypeOK
  <1>3. ASSUME QueueThreadEnds PROVE ThreadTypeOK'
    BY <1>3 DEF QueueThreadEnds, ThreadTypeOK
  <1>4. ASSUME NEW t \in Terminals, OpenFails(t) PROVE ThreadTypeOK'
    <2>1. PICK cancel \in {FCancel[t], TRUE} : Detach(t, TRUE, cancel)
      BY <1>4 DEF OpenFails
    <2>2. UNCHANGED <<threadVars, passed, faults>>
      BY <2>1 DEF Detach
    <2>3. failures' \in Nat
      <3>1. failures \in Nat
        BY DEF ThreadTypeOK
      <3>2. QED
        BY <1>4, <3>1 DEF OpenFails
    <2>4. QED
      BY <2>2, <2>3 DEF ThreadTypeOK
  <1>5. ASSUME NEW t \in Terminals, ConnectionLost(t) PROVE ThreadTypeOK'
    <2>1. PICK cancel \in {FCancel[t], TRUE} : Detach(t, FALSE, cancel)
      BY <1>5 DEF ConnectionLost
    <2>2. UNCHANGED <<threadVars, passed, faults>>
      BY <2>1 DEF Detach
    <2>3. failures' \in Nat
      <3>1. failures \in Nat
        BY DEF ThreadTypeOK
      <3>2. QED
        BY <1>5, <3>1 DEF ConnectionLost
    <2>4. QED
      BY <2>2, <2>3 DEF ThreadTypeOK
  <1>6. ASSUME NEW t \in Terminals, UsesFreedItem(t) PROVE ThreadTypeOK'
    BY <1>6 DEF UsesFreedItem, ThreadTypeOK
  <1>7. ASSUME NEW t \in Terminals, RetryItem(t) PROVE ThreadTypeOK'
    BY <1>7 DEF RetryItem, ThreadTypeOK
  <1>8. ASSUME NEW t \in Terminals, DeleteItem(t) PROVE ThreadTypeOK'
    BY <1>8 DEF DeleteItem, ThreadTypeOK
  <1>9. ASSUME NEW t \in Terminals, Free(t) PROVE ThreadTypeOK'
    <2>1. UNCHANGED <<threadVars, failures, faults>> /\ passed' = passed \ {t}
      BY <1>9 DEF Free
    <2>2. QED
      BY <2>1 DEF ThreadTypeOK
  <1>10. ASSUME NEW t \in Terminals, TerminalFinished(t) PROVE ThreadTypeOK'
    <2>1. UNCHANGED <<threadVars, failures, faults>> /\ passed' = passed \ {t}
      BY <1>10 DEF TerminalFinished
    <2>2. QED
      BY <2>1 DEF ThreadTypeOK
  <1>11. ASSUME NEW i \in Items, CancelTransfer(i) PROVE ThreadTypeOK'
    BY <1>11 DEF CancelTransfer, Ui, UiKeeps, ThreadTypeOK
  <1>12. ASSUME Idle PROVE ThreadTypeOK'
    <2>1. FTerminals[FFreeTerminals] \in Terminals
      BY <1>12, FreeFacts DEF Idle, Ui, Closing, QueueTypeOK
    <2>2. QED
      BY <1>12, <2>1 DEF Idle, ThreadTypeOK
  <1>13. ASSUME TerminalIdle PROVE ThreadTypeOK'
    <2>1. failures' \in Nat
      <3>1. failures \in Nat
        BY DEF ThreadTypeOK
      <3>2. QED
        BY <1>13, <3>1 DEF TerminalIdle
    <2>2. /\ uiTerminal' = NoTerminal /\ uipc' = "ready"
          /\ UNCHANGED <<qpc, qTerminal, qItem, passed, faults>>
      BY <1>13 DEF TerminalIdle
    <2>3. QED
      BY <2>1, <2>2 DEF ThreadTypeOK
  <1>14. ASSUME Close PROVE ThreadTypeOK'
    BY <1>14 DEF Close, Ui, Ends, ThreadTypeOK
  <1>15. ASSUME EnterItemsSection PROVE ThreadTypeOK'
    BY <1>15 DEF EnterItemsSection, ThreadTypeOK
  <1>16. ASSUME TerminateFirst PROVE ThreadTypeOK'
    <2>1. FTerminals[1] \in Terminals
      BY <1>16 DEF TerminateFirst, QueueTypeOK
    <2>2. QED
      BY <1>16, <2>1 DEF TerminateFirst, ThreadTypeOK
  <1>17. ASSUME DeleteTerminal PROVE ThreadTypeOK'
    BY <1>17 DEF DeleteTerminal, Destroyed, ThreadTypeOK
  <1>18. ASSUME FreeItems PROVE ThreadTypeOK'
    BY <1>18 DEF FreeItems, ThreadTypeOK
  <1>19. ASSUME NEW t \in Terminals,
             \/ Begin(t) \/ Opened(t) \/ StartTransfer(t) \/ Cancelled(t) \/ TransferEnds(t)
             \/ SkipsRetire(t) \/ SkipsFree(t) \/ SkipsFinished(t)
       PROVE ThreadTypeOK'
    BY <1>19 DEF Begin, Opened, StartTransfer, Cancelled, Detach, TransferEnds, SkipsRetire,
       SkipsFree,
           SkipsFinished, ThreadTypeOK
  <1>20. ASSUME
             \/ (\E i \in Items : (\E monitored \in BOOLEAN : AddItem(i, monitored)))
             \/ (\E i \in Items : (\E before \in Items : ItemMove(i, before)))
             \/ (\E i \in Items : ItemExecuteNow(i)) \/ (\E i \in Items : DeletePending(i))
             \/ (\E i \in Items : DeleteDone(i))
             \/ (\E value \in Limits : SetTransfersLimit(value))
             \/ (\E value \in KeepTimes : SetKeepDoneItemsFor(value)) \/ SetEnabled
       PROVE ThreadTypeOK'
    BY <1>20 DEF AddItem, Ui, UiKeeps, ItemMove, ItemExecuteNow, DeletePending, DeleteDone,
           SetTransfersLimit, SetKeepDoneItemsFor, SetEnabled, ThreadTypeOK
  <1>21. QED
    BY <1>1, <1>2, <1>3, <1>4, <1>5, <1>6, <1>7, <1>8, <1>9, <1>10, <1>11, <1>12, <1>13, <1>14,
       <1>15,
       <1>16, <1>17, <1>18, <1>19, <1>20
       DEF Next, QueueThread, Worker, UserInterface, Destructor, ItemDelete

----------------------------------------------------------------------------
(* The pool's invariant                                                    *)

poolVars == <<FItemsInProcess, FTerminals, FFreeTerminals, FTerminated, pc, FItem, Active, stopping,
              item, qpc, qTerminal, qItem, uipc, uiTerminal>>

\* The queue begins in the invariant.
LEMMA InitIInv == Init => IInv
  <1> SUFFICES ASSUME Init PROVE IInv
    OBVIOUS
  <1>1. QueueTypeOK
    BY DEF Init, QueueTypeOK
  <1>2. SettingTypeOK
    <2>1. FTransfersLimit \in Int /\ FKeepDoneItemsFor \in Int
      BY LimitAssumption DEF Init
    <2>2. QED
      BY <2>1 DEF Init, SettingTypeOK
  <1>3. ItemTypeOK /\ TerminalTypeOK /\ ThreadTypeOK
    BY DEF Init, ItemTypeOK, TerminalTypeOK, ThreadTypeOK, Statuses, InProcessEvent
  <1>4. ListInv /\ HandsInv /\ WorkerInv /\ CloseInv /\ FreeTerminalsAreIdle
    BY DEF Init, ListInv, HandsInv, WorkerInv, CloseInv, FreeTerminalsAreIdle, Contains, Distinct,
           Positions, Closing
  <1>5. Loaded = {}
    BY DEF Init, Loaded
  <1>6. CountInv
    BY <1>5, FS_EmptySet DEF Init, CountInv
  <1>7. QED
    BY <1>1, <1>2, <1>3, <1>4, <1>6 DEF IInv, TypeOK, PoolInvariant

\* The count holds when the queue thread and the workers keep what they have,
\* or let go of it without counting.
LEMMA CountKept ==
  ASSUME CountInv, Loaded' \subseteq Loaded, FItemsInProcess \in Int,
         FItemsInProcess' = FItemsInProcess, qpc' = "assign" => qpc = "assign"
  PROVE  CountInv'
  <1>1. IsFiniteSet(Loaded)
    BY FiniteAssumption, FS_Subset DEF Loaded
  <1>2. IsFiniteSet(Loaded') /\ Cardinality(Loaded') <= Cardinality(Loaded)
    BY <1>1, FS_Subset
  <1>3. Cardinality(Loaded) \in Nat /\ Cardinality(Loaded') \in Nat
    BY <1>1, <1>2, FS_CardinalityType
  <1>4. QED
    BY <1>2, <1>3 DEF CountInv

\* It holds when a worker retires its item.
LEMMA CountDrops ==
  ASSUME CountInv, NEW t \in Loaded, Loaded' = Loaded \ {t}, FItemsInProcess \in Int,
         FItemsInProcess' = FItemsInProcess - 1, qpc' = qpc
  PROVE  CountInv'
  <1>1. IsFiniteSet(Loaded)
    BY FiniteAssumption, FS_Subset DEF Loaded
  <1>2. Cardinality(Loaded') = Cardinality(Loaded) - 1 /\ Cardinality(Loaded) \in Nat
    BY <1>1, FS_RemoveElement, FS_CardinalityType
  <1>3. QED
    BY <1>2 DEF CountInv

\* A step that leaves the pool alone keeps its invariant.
LEMMA PoolUnchanged == PoolInvariant /\ UNCHANGED poolVars => PoolInvariant'
  <1> SUFFICES ASSUME PoolInvariant, UNCHANGED poolVars PROVE PoolInvariant'
    OBVIOUS
  <1> USE DEF PoolInvariant, poolVars
  <1>1. ListInv'
    BY DEF ListInv, Contains, Distinct, Positions
  <1>2. HandsInv' /\ WorkerInv' /\ CloseInv'
    BY DEF HandsInv, IdleTerminal, WorkerInv, CloseInv, Closing
  <1>3. CountInv'
    BY DEF CountInv, Loaded
  <1>4. FreeTerminalsAreIdle'
    BY DEF FreeTerminalsAreIdle, Closing
  <1>5. QED
    BY <1>1, <1>2, <1>3, <1>4

\* So does a step of a worker that is not idle and that neither joins nor
\* leaves the list, if it keeps what WorkerInv says of itself.
LEMMA LocalStep ==
  ASSUME TypeOK, PoolInvariant, NEW t \in Terminals,
         pc[t] # "none", pc[t] # "wait" \/ FItem[t] # NoItem \/ stopping[t],
         UNCHANGED <<FTerminals, FFreeTerminals, FTerminated, stopping, qpc, qTerminal, qItem,
                     uipc, uiTerminal>>,
         pc'[t] # "none",
         \A u \in Terminals \ {t} : /\ pc'[u] = pc[u] /\ FItem'[u] = FItem[u] /\ item'[u] = item[u]
                                    /\ Active'[u] = Active[u],
         pc'[t] \in {"opening", "opened", "running"} => FItem'[t] \in Items,
         pc'[t] = "retire" => item'[t] \in Items,
         pc'[t] # "retire" => item'[t] = NoItem,
         pc'[t] \in {"retire", "free"} => FItem'[t] = NoItem,
         ~Closing /\ stopping[t] => pc'[t] \in {"wait", "dead"} /\ FItem'[t] = NoItem,
         CountInv'
  PROVE  PoolInvariant'
  <1> USE DEF PoolInvariant
  <1>1. ListInv'
    BY DEF ListInv, Contains, Distinct, Positions
  <1>2. HandsInv'
    BY DEF HandsInv, IdleTerminal
  <1>3. WorkerInv'
    BY DEF WorkerInv, Closing
  <1>4. CloseInv'
    BY DEF CloseInv, Closing
  <1>5. FreeTerminalsAreIdle'
    <2> SUFFICES ASSUME ~Closing PROVE FreeTerminalsAreIdle'
      BY DEF FreeTerminalsAreIdle, Closing
    <2>1. FTerminals \in Seq(Terminals) /\ FFreeTerminals \in 0..Len(FTerminals)
      BY DEF FreeTerminalsAreIdle, TypeOK, QueueTypeOK
    <2>2. \A k \in 1..FFreeTerminals : FTerminals[k] \in Terminals
      BY <2>1
    <2>3. \A k \in 1..FFreeTerminals : FTerminals[k] # t
      BY DEF FreeTerminalsAreIdle
    <2>4. QED
      BY <2>2, <2>3 DEF FreeTerminalsAreIdle, Closing
  <1>6. QED
    BY <1>1, <1>2, <1>3, <1>4, <1>5

----------------------------------------------------------------------------
(* The worker's own steps                                                  *)

\* Every step of a worker keeps the invariant: Begin.
LEMMA BeginStep == ASSUME TypeOK, PoolInvariant, NEW t \in Terminals, Begin(t) PROVE PoolInvariant'
  <1> USE DEF TypeOK, TerminalTypeOK, queueVars, settingVars, itemVars, terminalVars, threadVars
  <1>1. /\ pc'[t] # "none"
        /\ pc'[t] \in {"opening", "opened", "running"} => FItem'[t] \in Items
        /\ pc'[t] = "retire" => item'[t] \in Items
        /\ pc'[t] # "retire" => item'[t] = NoItem
        /\ pc'[t] \in {"retire", "free"} => FItem'[t] = NoItem
        /\ ~Closing /\ stopping[t] => pc'[t] \in {"wait", "dead"} /\ FItem'[t] = NoItem
    BY NullsAssumption DEF Begin, PoolInvariant, WorkerInv
  <1>2. \A u \in Terminals \ {t} : /\ pc'[u] = pc[u] /\ FItem'[u] = FItem[u] /\ item'[u] = item[u]
                                  /\ Active'[u] = Active[u]
    BY DEF Begin
  <1>3. Loaded' \subseteq Loaded
    BY <1>2, NullsAssumption DEF Begin, Loaded, PoolInvariant, WorkerInv
  <1>4. CountInv'
    BY <1>3, CountKept DEF Begin, PoolInvariant, QueueTypeOK
  <1>5. QED
    BY <1>1, <1>2, <1>4, LocalStep DEF Begin

\* Opened.
LEMMA OpenedStep == ASSUME TypeOK, PoolInvariant, NEW t \in Terminals, Opened(t) PROVE PoolInvariant'
  <1> USE DEF TypeOK, TerminalTypeOK, queueVars, settingVars, itemVars, terminalVars, threadVars
  <1>1. /\ pc'[t] # "none"
        /\ pc'[t] \in {"opening", "opened", "running"} => FItem'[t] \in Items
        /\ pc'[t] = "retire" => item'[t] \in Items
        /\ pc'[t] # "retire" => item'[t] = NoItem
        /\ pc'[t] \in {"retire", "free"} => FItem'[t] = NoItem
        /\ ~Closing /\ stopping[t] => pc'[t] \in {"wait", "dead"} /\ FItem'[t] = NoItem
    BY NullsAssumption DEF Opened, PoolInvariant, WorkerInv
  <1>2. \A u \in Terminals \ {t} : /\ pc'[u] = pc[u] /\ FItem'[u] = FItem[u] /\ item'[u] = item[u]
                                  /\ Active'[u] = Active[u]
    BY DEF Opened
  <1>3. Loaded' \subseteq Loaded
    BY <1>2, NullsAssumption DEF Opened, Loaded, PoolInvariant, WorkerInv
  <1>4. CountInv'
    BY <1>3, CountKept DEF Opened, PoolInvariant, QueueTypeOK
  <1>5. QED
    BY <1>1, <1>2, <1>4, LocalStep DEF Opened

\* StartTransfer.
LEMMA StartTransferStep == ASSUME TypeOK, PoolInvariant, NEW t \in Terminals, StartTransfer(t) PROVE PoolInvariant'
  <1> USE DEF TypeOK, TerminalTypeOK, queueVars, settingVars, itemVars, terminalVars, threadVars
  <1>1. /\ pc'[t] # "none"
        /\ pc'[t] \in {"opening", "opened", "running"} => FItem'[t] \in Items
        /\ pc'[t] = "retire" => item'[t] \in Items
        /\ pc'[t] # "retire" => item'[t] = NoItem
        /\ pc'[t] \in {"retire", "free"} => FItem'[t] = NoItem
        /\ ~Closing /\ stopping[t] => pc'[t] \in {"wait", "dead"} /\ FItem'[t] = NoItem
    BY NullsAssumption DEF StartTransfer, PoolInvariant, WorkerInv
  <1>2. \A u \in Terminals \ {t} : /\ pc'[u] = pc[u] /\ FItem'[u] = FItem[u] /\ item'[u] = item[u]
                                  /\ Active'[u] = Active[u]
    BY DEF StartTransfer
  <1>3. Loaded' \subseteq Loaded
    BY <1>2, NullsAssumption DEF StartTransfer, Loaded, PoolInvariant, WorkerInv
  <1>4. CountInv'
    BY <1>3, CountKept DEF StartTransfer, PoolInvariant, QueueTypeOK
  <1>5. QED
    BY <1>1, <1>2, <1>4, LocalStep DEF StartTransfer

\* What the ends of a transfer have in common.
LEMMA DetachStep ==
  ASSUME TypeOK, PoolInvariant, NEW t \in Terminals, NEW retry, NEW cancel, Detach(t, retry, cancel),
         pc[t] \in {"opening", "opened", "running"},
         \A u \in Terminals \ {t} : Active'[u] = Active[u]
  PROVE  PoolInvariant'
  <1> USE DEF TypeOK, TerminalTypeOK, queueVars, settingVars, itemVars, terminalVars, threadVars
  <1>1. /\ pc'[t] # "none"
        /\ pc'[t] \in {"opening", "opened", "running"} => FItem'[t] \in Items
        /\ pc'[t] = "retire" => item'[t] \in Items
        /\ pc'[t] # "retire" => item'[t] = NoItem
        /\ pc'[t] \in {"retire", "free"} => FItem'[t] = NoItem
        /\ ~Closing /\ stopping[t] => pc'[t] \in {"wait", "dead"} /\ FItem'[t] = NoItem
    BY NullsAssumption DEF Detach, PoolInvariant, WorkerInv
  <1>2. \A u \in Terminals \ {t} : /\ pc'[u] = pc[u] /\ FItem'[u] = FItem[u] /\ item'[u] = item[u]
                                  /\ Active'[u] = Active[u]
    BY DEF Detach
  <1>3. Loaded' \subseteq Loaded
    BY <1>2, NullsAssumption DEF Detach, Loaded, PoolInvariant, WorkerInv
  <1>4. CountInv'
    BY <1>3, CountKept DEF Detach, PoolInvariant, QueueTypeOK
  <1>5. QED
    BY <1>1, <1>2, <1>4, LocalStep DEF Detach

\* OpenFails.
LEMMA OpenFailsStep == ASSUME TypeOK, PoolInvariant, NEW t \in Terminals, OpenFails(t) PROVE PoolInvariant'
  <1>1. Detach(t, TRUE, FCancel[t]) \/ Detach(t, TRUE, TRUE)
    BY DEF OpenFails
  <1>2. pc[t] \in {"opening", "running"} /\ UNCHANGED Active
    BY DEF OpenFails
  <1>3. QED
    BY <1>1, <1>2, DetachStep

\* TransferEnds.
LEMMA TransferEndsStep == ASSUME TypeOK, PoolInvariant, NEW t \in Terminals, TransferEnds(t) PROVE PoolInvariant'
  <1>1. Detach(t, FALSE, FCancel[t]) \/ Detach(t, FALSE, TRUE)
    BY DEF TransferEnds
  <1>2. pc[t] \in {"opening", "running"} /\ UNCHANGED Active
    BY DEF TransferEnds
  <1>3. QED
    BY <1>1, <1>2, DetachStep

\* ConnectionLost.
LEMMA ConnectionLostStep == ASSUME TypeOK, PoolInvariant, NEW t \in Terminals, ConnectionLost(t) PROVE PoolInvariant'
  <1>1. Detach(t, FALSE, FCancel[t]) \/ Detach(t, FALSE, TRUE)
    BY DEF ConnectionLost
  <1>2. pc[t] \in {"opening", "running"} /\ \A u \in Terminals \ {t} : Active'[u] = Active[u]
    BY DEF ConnectionLost, TypeOK, TerminalTypeOK
  <1>3. QED
    BY <1>1, <1>2, DetachStep

\* Cancelled.
LEMMA CancelledStep == ASSUME TypeOK, PoolInvariant, NEW t \in Terminals, Cancelled(t) PROVE PoolInvariant'
  BY DetachStep DEF Cancelled

\* RetryItem gives the item back.
LEMMA RetryItemStep == ASSUME TypeOK, PoolInvariant, NEW t \in Terminals, RetryItem(t) PROVE PoolInvariant'
  <1> USE DEF TypeOK, TerminalTypeOK, queueVars, settingVars, itemVars, terminalVars, threadVars
  <1>1. /\ pc'[t] # "none"
        /\ pc'[t] \in {"opening", "opened", "running"} => FItem'[t] \in Items
        /\ pc'[t] = "retire" => item'[t] \in Items
        /\ pc'[t] # "retire" => item'[t] = NoItem
        /\ pc'[t] \in {"retire", "free"} => FItem'[t] = NoItem
        /\ ~Closing /\ stopping[t] => pc'[t] \in {"wait", "dead"} /\ FItem'[t] = NoItem
    BY NullsAssumption DEF RetryItem, PoolInvariant, WorkerInv
  <1>2. \A u \in Terminals \ {t} : /\ pc'[u] = pc[u] /\ FItem'[u] = FItem[u] /\ item'[u] = item[u]
                                  /\ Active'[u] = Active[u]
    BY DEF RetryItem
  <1>3. t \in Loaded /\ Loaded' = Loaded \ {t}
    <2>1. item[t] \in Items /\ FItem[t] = NoItem /\ item'[t] = NoItem /\ FItem'[t] = NoItem
      BY DEF RetryItem, PoolInvariant, WorkerInv
    <2>2. QED
      BY <2>1, <1>2, NullsAssumption DEF Loaded
  <1>4. CountInv'
    BY <1>3, CountDrops DEF RetryItem, PoolInvariant, QueueTypeOK
  <1>5. QED
    BY <1>1, <1>2, <1>4, LocalStep DEF RetryItem

\* DeleteItem counts one item less.
LEMMA DeleteItemStep == ASSUME TypeOK, PoolInvariant, NEW t \in Terminals, DeleteItem(t) PROVE PoolInvariant'
  <1> USE DEF TypeOK, TerminalTypeOK, queueVars, settingVars, itemVars, terminalVars, threadVars
  <1>1. /\ pc'[t] # "none"
        /\ pc'[t] \in {"opening", "opened", "running"} => FItem'[t] \in Items
        /\ pc'[t] = "retire" => item'[t] \in Items
        /\ pc'[t] # "retire" => item'[t] = NoItem
        /\ pc'[t] \in {"retire", "free"} => FItem'[t] = NoItem
        /\ ~Closing /\ stopping[t] => pc'[t] \in {"wait", "dead"} /\ FItem'[t] = NoItem
    BY NullsAssumption DEF DeleteItem, PoolInvariant, WorkerInv
  <1>2. \A u \in Terminals \ {t} : /\ pc'[u] = pc[u] /\ FItem'[u] = FItem[u] /\ item'[u] = item[u]
                                  /\ Active'[u] = Active[u]
    BY DEF DeleteItem
  <1>3. t \in Loaded /\ Loaded' = Loaded \ {t}
    <2>1. item[t] \in Items /\ FItem[t] = NoItem /\ item'[t] = NoItem /\ FItem'[t] = NoItem
      BY DEF DeleteItem, PoolInvariant, WorkerInv
    <2>2. QED
      BY <2>1, <1>2, NullsAssumption DEF Loaded
  <1>4. CountInv'
    BY <1>3, CountDrops DEF DeleteItem, PoolInvariant, QueueTypeOK
  <1>5. QED
    BY <1>1, <1>2, <1>4, LocalStep DEF DeleteItem

\* The ends of a worker while closing: SkipsRetire.
LEMMA SkipsRetireStep == ASSUME TypeOK, PoolInvariant, NEW t \in Terminals, SkipsRetire(t) PROVE PoolInvariant'
  <1> USE DEF TypeOK, TerminalTypeOK, queueVars, settingVars, itemVars, terminalVars, threadVars
  <1>1. /\ pc'[t] # "none"
        /\ pc'[t] \in {"opening", "opened", "running"} => FItem'[t] \in Items
        /\ pc'[t] = "retire" => item'[t] \in Items
        /\ pc'[t] # "retire" => item'[t] = NoItem
        /\ pc'[t] \in {"retire", "free"} => FItem'[t] = NoItem
        /\ ~Closing /\ stopping[t] => pc'[t] \in {"wait", "dead"} /\ FItem'[t] = NoItem
    BY NullsAssumption DEF SkipsRetire, PoolInvariant, WorkerInv
  <1>2. \A u \in Terminals \ {t} : /\ pc'[u] = pc[u] /\ FItem'[u] = FItem[u] /\ item'[u] = item[u]
                                  /\ Active'[u] = Active[u]
    BY DEF SkipsRetire
  <1>3. Loaded' \subseteq Loaded
    BY <1>2, NullsAssumption DEF SkipsRetire, Loaded, PoolInvariant, WorkerInv
  <1>4. CountInv'
    BY <1>3, CountKept DEF SkipsRetire, PoolInvariant, QueueTypeOK
  <1>5. QED
    BY <1>1, <1>2, <1>4, LocalStep DEF SkipsRetire

\* SkipsFree.
LEMMA SkipsFreeStep == ASSUME TypeOK, PoolInvariant, NEW t \in Terminals, SkipsFree(t) PROVE PoolInvariant'
  <1> USE DEF TypeOK, TerminalTypeOK, queueVars, settingVars, itemVars, terminalVars, threadVars
  <1>1. /\ pc'[t] # "none"
        /\ pc'[t] \in {"opening", "opened", "running"} => FItem'[t] \in Items
        /\ pc'[t] = "retire" => item'[t] \in Items
        /\ pc'[t] # "retire" => item'[t] = NoItem
        /\ pc'[t] \in {"retire", "free"} => FItem'[t] = NoItem
        /\ ~Closing /\ stopping[t] => pc'[t] \in {"wait", "dead"} /\ FItem'[t] = NoItem
    BY NullsAssumption DEF SkipsFree, PoolInvariant, WorkerInv
  <1>2. \A u \in Terminals \ {t} : /\ pc'[u] = pc[u] /\ FItem'[u] = FItem[u] /\ item'[u] = item[u]
                                  /\ Active'[u] = Active[u]
    BY DEF SkipsFree
  <1>3. Loaded' \subseteq Loaded
    BY <1>2, NullsAssumption DEF SkipsFree, Loaded, PoolInvariant, WorkerInv
  <1>4. CountInv'
    BY <1>3, CountKept DEF SkipsFree, PoolInvariant, QueueTypeOK
  <1>5. QED
    BY <1>1, <1>2, <1>4, LocalStep DEF SkipsFree

\* SkipsFinished.
LEMMA SkipsFinishedStep == ASSUME TypeOK, PoolInvariant, NEW t \in Terminals, SkipsFinished(t) PROVE PoolInvariant'
  <1> USE DEF TypeOK, TerminalTypeOK, queueVars, settingVars, itemVars, terminalVars, threadVars
  <1>1. /\ pc'[t] # "none"
        /\ pc'[t] \in {"opening", "opened", "running"} => FItem'[t] \in Items
        /\ pc'[t] = "retire" => item'[t] \in Items
        /\ pc'[t] # "retire" => item'[t] = NoItem
        /\ pc'[t] \in {"retire", "free"} => FItem'[t] = NoItem
        /\ ~Closing /\ stopping[t] => pc'[t] \in {"wait", "dead"} /\ FItem'[t] = NoItem
    BY NullsAssumption DEF SkipsFinished, Ends, PoolInvariant, WorkerInv
  <1>2. \A u \in Terminals \ {t} : /\ pc'[u] = pc[u] /\ FItem'[u] = FItem[u] /\ item'[u] = item[u]
                                  /\ Active'[u] = Active[u]
    BY DEF SkipsFinished, Ends
  <1>3. Loaded' \subseteq Loaded
    BY <1>2, NullsAssumption DEF SkipsFinished, Ends, Loaded, PoolInvariant, WorkerInv
  <1>4. CountInv'
    BY <1>3, CountKept DEF SkipsFinished, Ends, PoolInvariant, QueueTypeOK
  <1>5. QED
    BY <1>1, <1>2, <1>4, LocalStep DEF SkipsFinished, Ends

----------------------------------------------------------------------------
(* The steps that hand terminals over                                      *)

\* A count that grows with what the queue thread takes on.
LEMMA CountGrows ==
  ASSUME CountInv, UNCHANGED <<FItem, item>>, FItemsInProcess \in Int, qpc # "assign",
         FItemsInProcess' = FItemsInProcess + 1
  PROVE  CountInv'
  <1>1. IsFiniteSet(Loaded)
    BY FiniteAssumption, FS_Subset DEF Loaded
  <1>2. Cardinality(Loaded) \in Nat /\ Loaded' = Loaded
    BY <1>1, FS_CardinalityType DEF Loaded
  <1>3. QED
    BY <1>2 DEF CountInv

\* A new terminal takes the next item.
LEMMA HireStep ==
  ASSUME TypeOK, PoolInvariant, ProcessEvent, NEW t \in Terminals, Hire(t)
  PROVE  PoolInvariant'
  <1> USE DEF TypeOK, PoolInvariant, TakeNextItem
  <1>1. /\ UNCHANGED <<FTerminated, FItem, Active, stopping, item, uipc, uiTerminal, FFreeTerminals>>
        /\ qpc \in {"wait", "awake"} /\ uipc \notin {"closing", "joining"}
        /\ FTerminals' = Append(FTerminals, t) /\ pc' = [pc EXCEPT ![t] = "wait"] /\ pc[t] = "none"
        /\ qpc' = "assign" /\ qTerminal' = t /\ qItem' = NextItem
        /\ FItemsInProcess' = FItemsInProcess + 1 /\ FFreeTerminals = 0
    BY DEF ProcessEvent, ItemsSectionFree, Hire, settingVars, MayHire
  <1>2. ~Closing /\ NextItem \in Items
    BY <1>1, NextItemFacts DEF Closing, CloseInv, Hire, Runnable
  <1>3. FTerminals \in Seq(Terminals) /\ ~Contains(FTerminals, t) /\ Distinct(FTerminals)
    BY <1>1 DEF ListInv, QueueTypeOK
  <1>4. /\ \A u : Contains(FTerminals', u) <=> Contains(FTerminals, u) \/ u = t
        /\ Distinct(FTerminals') /\ Len(FTerminals') \in Nat
    BY <1>1, <1>3, AppendElements
  <1>5. pc' \in [Terminals -> InProcessEvent \cup {"none", "wait", "dead"}] /\ pc'[t] = "wait"
        /\ \A u \in Terminals \ {t} : pc'[u] = pc[u]
    BY <1>1 DEF TerminalTypeOK
  <1>6. ListInv'
    BY <1>1, <1>2, <1>4, <1>5 DEF ListInv, Closing
  <1>7. FItem[t] = NoItem /\ item[t] = NoItem /\ ~stopping[t] /\ t # uiTerminal
    BY <1>1, <1>2, NullsAssumption DEF WorkerInv, HandsInv, IdleTerminal, Closing
  <1>8. HandsInv'
    BY <1>1, <1>2, <1>5, <1>7 DEF HandsInv, IdleTerminal
  <1>9. WorkerInv'
    BY <1>1, <1>2, <1>5, <1>7 DEF WorkerInv, Closing, HandsInv
  <1>10. CountInv'
    BY <1>1, CountGrows DEF QueueTypeOK
  <1>11. CloseInv' /\ FreeTerminalsAreIdle'
    BY <1>1, <1>2, <1>4 DEF CloseInv, Closing, FreeTerminalsAreIdle
  <1>12. QED
    BY <1>6, <1>8, <1>9, <1>10, <1>11

\* A free terminal takes the next item.
LEMMA ReuseStep ==
  ASSUME TypeOK, PoolInvariant, ProcessEvent, Reuse
  PROVE  PoolInvariant'
  <1> USE DEF TypeOK, PoolInvariant, TakeNextItem
  <1> DEFINE t == FTerminals[1]
  <1>1. /\ UNCHANGED <<FTerminated, FItem, Active, stopping, item, uipc, uiTerminal, pc>>
        /\ qpc \in {"wait", "awake"} /\ uipc \notin {"closing", "joining"}
        /\ FTerminals' = Move(FTerminals, 1, Len(FTerminals)) /\ FFreeTerminals > 0
        /\ qpc' = "assign" /\ qTerminal' = t /\ qItem' = NextItem
        /\ FItemsInProcess' = FItemsInProcess + 1 /\ FFreeTerminals' = FFreeTerminals - 1
    BY DEF ProcessEvent, ItemsSectionFree, Reuse, settingVars
  <1>2. ~Closing /\ NextItem \in Items
    BY <1>1, NextItemFacts DEF Closing, CloseInv, Reuse, Runnable
  <1>3. /\ FTerminals \in Seq(Terminals) /\ Distinct(FTerminals)
        /\ FFreeTerminals \in 1..Len(FTerminals) /\ Len(FTerminals) \in Nat
        /\ 1 \in Positions(FTerminals) /\ Len(FTerminals) \in Positions(FTerminals)
    BY <1>1, <1>2, FreeFacts DEF ListInv, QueueTypeOK, Positions
  <1>4. /\ \A u : Contains(FTerminals', u) <=> Contains(FTerminals, u)
        /\ Distinct(FTerminals')
    BY <1>1, <1>3, MoveElements
  <1>5. /\ Len(FTerminals') = Len(FTerminals)
        /\ \A j \in 1..(Len(FTerminals) - 1) : FTerminals'[j] = FTerminals[j + 1]
    BY <1>1, <1>3, MoveFacts DEF Positions
  <1>6. ListInv'
    BY <1>1, <1>4 DEF ListInv
  <1>7. t \in Terminals /\ IdleTerminal(t) /\ t # uiTerminal
    BY <1>2, <1>3 DEF FreeTerminalsAreIdle, IdleTerminal
  <1> HIDE DEF t
  <1>8. HandsInv'
    BY <1>1, <1>2, <1>7 DEF HandsInv, IdleTerminal
  <1>9. WorkerInv'
    BY <1>1, <1>2, <1>7 DEF WorkerInv, Closing, HandsInv, IdleTerminal
  <1>10. CountInv'
    BY <1>1, CountGrows DEF QueueTypeOK
  <1>11. CloseInv'
    BY <1>1, <1>2 DEF CloseInv, Closing
  <1>12. \A k \in 1..(FFreeTerminals - 1) : FTerminals'[k] = FTerminals[k + 1] /\ FTerminals[k + 1] # t
    BY <1>3, <1>5 DEF Distinct, Positions, t
  <1>13. FreeTerminalsAreIdle'
    BY <1>1, <1>2, <1>3, <1>5, <1>12 DEF FreeTerminalsAreIdle, Closing
  <1>14. QED
    BY <1>6, <1>8, <1>9, <1>10, <1>11, <1>13

\* No item can be started.
LEMMA NothingToStartStep ==
  ASSUME TypeOK, PoolInvariant, ProcessEvent, NothingToStart
  PROVE  PoolInvariant'
  <1> USE DEF TypeOK, PoolInvariant
  <1>1. /\ UNCHANGED <<FItemsInProcess, FTerminals, FFreeTerminals, FTerminated, pc, FItem, Active,
                       stopping, item, qTerminal, qItem, uipc, uiTerminal>>
        /\ qpc \in {"wait", "awake"} /\ qpc' = "wait"
    BY DEF ProcessEvent, NothingToStart, settingVars
  <1>2. ListInv' /\ HandsInv' /\ WorkerInv' /\ CloseInv'
    BY <1>1 DEF ListInv, Contains, Distinct, Positions, HandsInv, IdleTerminal, WorkerInv,
       CloseInv, Closing
  <1>3. CountInv' /\ FreeTerminalsAreIdle'
    BY <1>1 DEF CountInv, Loaded, FreeTerminalsAreIdle, Closing
  <1>4. QED
    BY <1>2, <1>3

\* Process moves the item from the queue thread's hands to the worker.
LEMMA ProcessStep ==
  ASSUME TypeOK, PoolInvariant, Process
  PROVE  PoolInvariant'
  <1> USE DEF TypeOK, PoolInvariant
  <1> DEFINE t == qTerminal
  <1>1. /\ UNCHANGED <<FItemsInProcess, FTerminals, FFreeTerminals, FTerminated, pc, Active,
                       stopping, item, uipc, uiTerminal>>
        /\ qpc = "assign" /\ qpc' = "wait" /\ qTerminal' = NoTerminal
        /\ FItem' = [FItem EXCEPT ![t] = qItem]
    BY DEF Process, queueVars, settingVars
  <1>2. /\ t \in Terminals /\ pc[t] = "wait" /\ FItem[t] = NoItem /\ ~stopping[t] /\ qItem \in Items
        /\ item[t] = NoItem /\ t # uiTerminal
    BY <1>1, NullsAssumption DEF CloseInv, Closing, HandsInv, IdleTerminal, WorkerInv
  <1>3. /\ FItem'[t] = qItem
        /\ \A u \in Terminals \ {t} : FItem'[u] = FItem[u]
    BY <1>1, <1>2 DEF TerminalTypeOK
  <1>4. ~Closing
    BY <1>1 DEF CloseInv
  <1>5. ListInv' /\ CloseInv'
    BY <1>1, <1>4 DEF ListInv, Contains, Distinct, Positions, CloseInv, Closing
  <1>6. HandsInv'
    BY <1>1, <1>2, <1>3, NullsAssumption DEF HandsInv, IdleTerminal
  <1>7. WorkerInv'
    BY <1>1, <1>2, <1>3, NullsAssumption DEF WorkerInv, HandsInv, Closing
  <1>8. CountInv'
    <2>1. t \notin Loaded /\ Loaded' = Loaded \cup {t}
      BY <1>1, <1>2, <1>3, NullsAssumption DEF Loaded
    <2>2. IsFiniteSet(Loaded)
      BY FiniteAssumption, FS_Subset DEF Loaded
    <2>3. Cardinality(Loaded') = Cardinality(Loaded) + 1 /\ Cardinality(Loaded) \in Nat
      BY <2>1, <2>2, FS_AddElement, FS_CardinalityType
    <2>4. QED
      BY <1>1, <2>3 DEF CountInv, QueueTypeOK
  <1>9. FreeTerminalsAreIdle'
    <2>1. \A k \in 1..FFreeTerminals : FTerminals[k] # t
      BY <1>4 DEF FreeTerminalsAreIdle
    <2>2. \A k \in 1..FFreeTerminals : FTerminals[k] \in Terminals
      BY <1>4, FreeFacts DEF QueueTypeOK
    <2>3. \A k \in 1..FFreeTerminals : FItem'[FTerminals[k]] = FItem[FTerminals[k]] /\ FTerminals[k] # NoTerminal
      BY <1>3, <2>1, <2>2, NullsAssumption
    <2>4. QED
      BY <1>1, <1>4, <2>3 DEF FreeTerminalsAreIdle, Closing
  <1>10. QED
    BY <1>5, <1>6, <1>7, <1>8, <1>9

\* The queue thread ends.
LEMMA QueueThreadEndsStep ==
  ASSUME TypeOK, PoolInvariant, QueueThreadEnds
  PROVE  PoolInvariant'
  <1> USE DEF TypeOK, PoolInvariant
  <1>1. /\ UNCHANGED <<FItemsInProcess, FTerminals, FFreeTerminals, FTerminated, pc, FItem, Active,
                       stopping, item, qTerminal, qItem, uipc, uiTerminal>>
        /\ qpc = "wait" /\ qpc' = "dead"
    BY DEF QueueThreadEnds, queueVars, settingVars, terminalVars
  <1>2. ListInv' /\ HandsInv' /\ WorkerInv' /\ CloseInv'
    BY <1>1 DEF ListInv, Contains, Distinct, Positions, HandsInv, IdleTerminal, WorkerInv,
       CloseInv, Closing
  <1>3. CountInv' /\ FreeTerminalsAreIdle'
    BY <1>1 DEF CountInv, Loaded, FreeTerminalsAreIdle, Closing
  <1>4. QED
    BY <1>2, <1>3

----------------------------------------------------------------------------
(* The steps that return terminals to the pool, and take them out of it    *)

\* A terminal that is not free, connected and idle moves to the front of the
\* list: one more is free.
LEMMA ReturnedToPool ==
  ASSUME TypeOK, PoolInvariant, ~Closing, NEW t \in Terminals, Contains(FTerminals, t),
         FTerminals' = Move(FTerminals, IndexOf(FTerminals, t), 1),
         FFreeTerminals' = FFreeTerminals + 1,
         \A k \in 1..FFreeTerminals : FTerminals[k] # t
  PROVE  /\ \A u : Contains(FTerminals', u) <=> Contains(FTerminals, u)
         /\ Distinct(FTerminals')
         /\ FFreeTerminals' \in 0..Len(FTerminals')
         /\ \A k \in 1..FFreeTerminals' :
              FTerminals'[k] = t \/ \E j \in 1..FFreeTerminals : FTerminals'[k] = FTerminals[j]
  <1> DEFINE p == IndexOf(FTerminals, t)
  <1>1. p \in Positions(FTerminals) /\ FTerminals[p] = t
    BY IndexOfFacts
  <1>2. /\ FTerminals \in Seq(Terminals) /\ Distinct(FTerminals)
        /\ FFreeTerminals \in 0..Len(FTerminals) /\ Len(FTerminals) \in Nat
    BY FreeFacts DEF PoolInvariant, ListInv, TypeOK, QueueTypeOK
  <1> HIDE DEF p
  <1>3. p > FFreeTerminals /\ 1 \in Positions(FTerminals) /\ p \in 1..Len(FTerminals)
    BY <1>1, <1>2 DEF Positions
  <1>4. (\A u : Contains(FTerminals', u) <=> Contains(FTerminals, u)) /\ Distinct(FTerminals')
    BY <1>1, <1>2, <1>3, MoveElements DEF p
  <1>5. /\ Len(FTerminals') = Len(FTerminals) /\ FTerminals'[1] = t
        /\ \A j \in 2..p : FTerminals'[j] = FTerminals[j - 1]
    <2>1. /\ Len(FTerminals') = Len(FTerminals)
          /\ \A j \in Positions(FTerminals) : FTerminals'[j] =
              IF j = 1 THEN FTerminals[p]
              ELSE IF p <= j /\ j < 1 THEN FTerminals[j + 1]
              ELSE IF 1 < j /\ j <= p THEN FTerminals[j - 1]
              ELSE FTerminals[j]
      BY <1>1, <1>2, <1>3, MoveFacts DEF p
    <2>2. QED
      BY <1>1, <1>2, <1>3, <2>1 DEF Positions
  <1>6. \A k \in 1..FFreeTerminals' :
          FTerminals'[k] = t \/ \E j \in 1..FFreeTerminals : FTerminals'[k] = FTerminals[j]
    <2> SUFFICES ASSUME NEW k \in 2..(FFreeTerminals + 1)
                 PROVE  \E j \in 1..FFreeTerminals : FTerminals'[k] = FTerminals[j]
      BY <1>2, <1>5
    <2>1. k - 1 \in 1..FFreeTerminals /\ k \in 2..p
      BY <1>2, <1>3
    <2>2. QED
      BY <1>5, <2>1
  <1>7. QED
    BY <1>2, <1>3, <1>4, <1>5, <1>6

\* TerminalFree.
LEMMA FreeStep ==
  ASSUME TypeOK, PoolInvariant, NEW t \in Terminals, Free(t)
  PROVE  PoolInvariant'
  <1> USE DEF TypeOK, PoolInvariant
  <1>1. /\ UNCHANGED <<FItemsInProcess, FTerminated, FItem, Active, item, qpc, qTerminal, qItem, uipc, uiTerminal>>
        /\ pc[t] = "free" /\ pc' = [pc EXCEPT ![t] = "wait"]
        /\ Active[t] => ItemsSectionFree
    BY DEF Free, settingVars, threadVars
  <1>2. /\ pc'[t] = "wait" /\ FItem[t] = NoItem /\ item[t] = NoItem /\ t # qTerminal
        /\ ~Closing => t # uiTerminal
        /\ \A u \in Terminals \ {t} : pc'[u] = pc[u]
    BY <1>1, NullsAssumption DEF WorkerInv, HandsInv, IdleTerminal, TerminalTypeOK, CloseInv,
       Closing
  <1>3. CountInv'
    BY <1>1 DEF CountInv, Loaded
  <1>5. CASE Active[t] /\ WithinLimit(t)
    <2>1. /\ UNCHANGED stopping /\ FTerminals' = Move(FTerminals, IndexOf(FTerminals, t), 1)
          /\ FFreeTerminals' = FFreeTerminals + 1
      BY <1>5 DEF Free, TerminalFree
    <2>2. ItemsSectionFree /\ Contains(FTerminals, t)
      BY <1>1, <1>5 DEF ListInv, ItemsSectionFree
    <2>3. ~Closing
      BY <1>1, <2>2 DEF Closing, ItemsSectionFree, CloseInv, Contains, Positions
    <2>4. \A k \in 1..FFreeTerminals : FTerminals[k] # t
      BY <1>1, <2>3 DEF FreeTerminalsAreIdle
    <2>5. /\ \A u : Contains(FTerminals', u) <=> Contains(FTerminals, u)
          /\ Distinct(FTerminals')
          /\ FFreeTerminals' \in 0..Len(FTerminals')
          /\ \A k \in 1..FFreeTerminals' :
               FTerminals'[k] = t \/ \E j \in 1..FFreeTerminals : FTerminals'[k] = FTerminals[j]
      BY <2>1, <2>2, <2>3, <2>4, ReturnedToPool
    <2>6. ListInv'
      BY <1>1, <1>2, <2>5 DEF ListInv
    <2>7. HandsInv' /\ WorkerInv'
      BY <1>1, <1>2, <2>1 DEF HandsInv, WorkerInv, IdleTerminal, Closing
    <2>8. ~stopping[t]
      BY <1>1, <2>3 DEF WorkerInv
    <2>9. \A k \in 1..FFreeTerminals : FTerminals[k] \in Terminals
      BY <2>3, FreeFacts DEF QueueTypeOK
    <2>10. FreeTerminalsAreIdle'
      BY <1>1, <1>2, <1>5, <2>1, <2>3, <2>4, <2>5, <2>8, <2>9 DEF FreeTerminalsAreIdle, Closing
    <2>11. CloseInv'
      BY <1>1, <2>3 DEF CloseInv, Closing
    <2>12. QED
      BY <1>3, <2>11, <2>6, <2>7, <2>10
  <1>6. CASE ~(Active[t] /\ WithinLimit(t))
    <2>1. stopping' = [stopping EXCEPT ![t] = TRUE] /\ UNCHANGED <<FTerminals, FFreeTerminals>>
      BY <1>6 DEF Free, TerminalFree
    <2>2. \A u \in Terminals \ {t} : stopping'[u] = stopping[u]
      BY <2>1 DEF TerminalTypeOK
    <2>3. ListInv'
      BY <1>1, <1>2, <2>1 DEF ListInv, Contains, Distinct, Positions
    <2>4. HandsInv'
      BY <1>1, <1>2, <2>2, NullsAssumption DEF HandsInv, IdleTerminal
    <2>5. WorkerInv'
      BY <1>1, <1>2, <2>2 DEF WorkerInv, Closing
    <2>6. FreeTerminalsAreIdle'
      <3> SUFFICES ASSUME ~Closing PROVE FreeTerminalsAreIdle'
        BY <1>1 DEF FreeTerminalsAreIdle, Closing
      <3>1. \A k \in 1..FFreeTerminals : FTerminals[k] \in Terminals \ {t}
        <4>1. \A k \in 1..FFreeTerminals : FTerminals[k] \in Terminals
          BY ONLY FreeFacts, TypeOK, PoolInvariant, ~Closing DEF TypeOK, QueueTypeOK
        <4>2. \A k \in 1..FFreeTerminals : pc[FTerminals[k]] = "wait"
          BY ONLY PoolInvariant, ~Closing DEF PoolInvariant, FreeTerminalsAreIdle
        <4>3. QED
          BY ONLY <1>1, <4>1, <4>2
      <3>2. QED
        BY <1>1, <1>2, <2>1, <2>2, <3>1 DEF FreeTerminalsAreIdle
    <2>7. CloseInv'
      BY <1>1, <2>1 DEF CloseInv, Closing
    <2>8. QED
      BY <1>3, <2>7, <2>3, <2>4, <2>5, <2>6
  <1>7. QED
    BY <1>5, <1>6

\* TerminalFinished.
LEMMA TerminalFinishedStep ==
  ASSUME TypeOK, PoolInvariant, NEW t \in Terminals, TerminalFinished(t)
  PROVE  PoolInvariant'
  <1> USE DEF TypeOK, PoolInvariant
  <1> DEFINE p == IndexOf(FTerminals, t)
  <1>1. /\ UNCHANGED <<FItemsInProcess, FTerminated, item, qpc, qTerminal, qItem, uipc, uiTerminal>>
        /\ pc[t] = "wait" /\ stopping[t] /\ ItemsSectionFree
        /\ FTerminals' = DeleteAt(FTerminals, p)
        /\ FFreeTerminals' = IF p <= FFreeTerminals THEN FFreeTerminals - 1 ELSE FFreeTerminals
        /\ pc' = [pc EXCEPT ![t] = "none"] /\ FItem' = [FItem EXCEPT ![t] = NoItem]
        /\ Active' = [Active EXCEPT ![t] = FALSE] /\ stopping' = [stopping EXCEPT ![t] = FALSE]
    BY DEF TerminalFinished, Ends, Extracted, Destroyed, settingVars, threadVars
  <1>2. /\ pc'[t] = "none" /\ FItem'[t] = NoItem /\ ~stopping'[t]
        /\ \A u \in Terminals \ {t} : /\ pc'[u] = pc[u] /\ FItem'[u] = FItem[u] /\ Active'[u] = Active[u]
                                      /\ stopping'[u] = stopping[u]
    BY <1>1 DEF TerminalTypeOK
  <1>3. Contains(FTerminals, t) /\ ~Closing
    BY <1>1 DEF ListInv, ItemsSectionFree, Closing, CloseInv, Contains, Positions
  <1>4. /\ FTerminals \in Seq(Terminals) /\ Distinct(FTerminals) /\ p \in Positions(FTerminals)
        /\ FTerminals[p] = t /\ FFreeTerminals \in 0..Len(FTerminals) /\ Len(FTerminals) \in Nat
    BY <1>3, IndexOfFacts, FreeFacts DEF ListInv, QueueTypeOK
  <1>5. item[t] = NoItem /\ t \notin {qTerminal, uiTerminal}
    BY <1>1, <1>3 DEF WorkerInv
  <1> HIDE DEF p
  <1>6. (\A u : Contains(FTerminals', u) <=> Contains(FTerminals, u) /\ u # t) /\ Distinct(FTerminals')
    BY <1>1, <1>4, DeleteAtElements
  <1>7. ListInv'
    BY <1>1, <1>2, <1>5, <1>6 DEF ListInv
  <1>8. HandsInv' /\ WorkerInv'
    BY <1>1, <1>2, <1>5, NullsAssumption DEF HandsInv, WorkerInv, IdleTerminal, Closing
  <1>9. CountInv'
    <2>1. Loaded' \subseteq Loaded
      BY <1>1, <1>2, <1>5 DEF Loaded
    <2>2. QED
      BY <1>1, <2>1, CountKept DEF QueueTypeOK
  <1>10. CloseInv'
    BY <1>1, <1>3 DEF CloseInv, Closing
  <1>11. p > FFreeTerminals
    BY <1>1, <1>3, <1>4 DEF FreeTerminalsAreIdle, Positions
  <1>12. /\ Len(FTerminals') = Len(FTerminals) - 1 /\ FFreeTerminals' = FFreeTerminals
         /\ \A k \in 1..FFreeTerminals : FTerminals'[k] = FTerminals[k] /\ FTerminals[k] \in Terminals \ {t}
    <2>1. \A k \in 1..FFreeTerminals : FTerminals[k] \in Terminals \ {t}
      BY <1>1, <1>3, <1>4 DEF FreeTerminalsAreIdle
    <2>2. /\ Len(FTerminals') = Len(FTerminals) - 1
          /\ \A k \in 1..(Len(FTerminals) - 1) :
               FTerminals'[k] = IF k < p THEN FTerminals[k] ELSE FTerminals[k + 1]
      BY <1>1, <1>4, DeleteAtFacts
    <2>3. QED
      BY <1>1, <1>4, <1>11, <2>1, <2>2 DEF Positions
  <1>13. FreeTerminalsAreIdle'
    <2>1. FFreeTerminals \in 0..(Len(FTerminals) - 1)
      BY <1>4, <1>11 DEF Positions
    <2>2. QED
      BY <1>1, <1>2, <1>3, <1>12, <2>1 DEF FreeTerminalsAreIdle
  <1>14. QED
    BY <1>7, <1>8, <1>9, <1>10, <1>13

\* Idle takes a terminal out of the pool.
LEMMA IdleStep ==
  ASSUME TypeOK, PoolInvariant, Idle
  PROVE  PoolInvariant'
  <1> USE DEF TypeOK, PoolInvariant
  <1> DEFINE t == FTerminals[FFreeTerminals]
  <1>1. /\ UNCHANGED <<FItemsInProcess, FTerminated, pc, FItem, Active, stopping, item, qpc, qTerminal, qItem>>
        /\ uipc = "ready" /\ uipc' = "idle" /\ uiTerminal' = t /\ FFreeTerminals > 0
        /\ FTerminals' = Move(FTerminals, FFreeTerminals, Len(FTerminals))
        /\ FFreeTerminals' = FFreeTerminals - 1
    BY DEF Idle, Ui, settingVars, terminalVars
  <1>2. /\ FTerminals \in Seq(Terminals) /\ Distinct(FTerminals) /\ Len(FTerminals) \in Nat
        /\ FFreeTerminals \in 1..Len(FTerminals)
        /\ FFreeTerminals \in Positions(FTerminals) /\ Len(FTerminals) \in Positions(FTerminals)
    BY <1>1, FreeFacts DEF ListInv, QueueTypeOK, Positions, Closing
  <1>3. (\A u : Contains(FTerminals', u) <=> Contains(FTerminals, u)) /\ Distinct(FTerminals')
    BY <1>1, <1>2, MoveElements
  <1>4. /\ Len(FTerminals') = Len(FTerminals)
        /\ \A j \in 1..(FFreeTerminals - 1) : FTerminals'[j] = FTerminals[j]
    <2>1. \A j \in 1..(FFreeTerminals - 1) : j \in Positions(FTerminals) /\ j < FFreeTerminals
      BY <1>2 DEF Positions
    <2>2. QED
      BY <1>1, <1>2, <2>1, MoveFacts
  <1>5. t \in Terminals /\ IdleTerminal(t) /\ Active[t] /\ t # qTerminal
    BY <1>1, <1>2 DEF FreeTerminalsAreIdle, IdleTerminal, Closing
  <1>6. \A k \in 1..(FFreeTerminals - 1) : FTerminals[k] # t
    BY <1>2 DEF Distinct, Positions
  <1> HIDE DEF t
  <1>7. ListInv'
    BY <1>1, <1>3 DEF ListInv
  <1>8. HandsInv' /\ WorkerInv' /\ CloseInv'
    BY <1>1, <1>5 DEF HandsInv, WorkerInv, CloseInv, IdleTerminal, Closing
  <1>9. CountInv'
    BY <1>1 DEF CountInv, Loaded
  <1>10. FreeTerminalsAreIdle'
    BY <1>1, <1>2, <1>4, <1>6 DEF FreeTerminalsAreIdle, Closing
  <1>11. QED
    BY <1>7, <1>8, <1>9, <1>10

\* Idle gives it back.
LEMMA TerminalIdleStep ==
  ASSUME TypeOK, PoolInvariant, TerminalIdle
  PROVE  PoolInvariant'
  <1> USE DEF TypeOK, PoolInvariant
  <1> DEFINE t == uiTerminal
  <1>1. /\ UNCHANGED <<FItemsInProcess, FTerminated, pc, FItem, item, qpc, qTerminal, qItem>>
        /\ uipc = "idle" /\ uipc' = "ready" /\ uiTerminal' = NoTerminal
    BY DEF TerminalIdle, settingVars
  <1>2. /\ t \in Terminals /\ pc[t] = "wait" /\ FItem[t] = NoItem /\ ~stopping[t] /\ Active[t]
        /\ t # qTerminal /\ ~Closing /\ Contains(FTerminals, t)
    BY <1>1 DEF HandsInv, IdleTerminal, Closing, ListInv
  <1>3. CountInv' /\ CloseInv'
    BY <1>1 DEF CountInv, Loaded, CloseInv, Closing
  <1>4. \A k \in 1..FFreeTerminals : FTerminals[k] # t /\ FTerminals[k] \in Terminals
    BY <1>2, FreeFacts DEF FreeTerminalsAreIdle, QueueTypeOK
  <1> HIDE DEF t
  <1>5. CASE /\ UNCHANGED <<stopping, Active>> /\ FFreeTerminals' = FFreeTerminals + 1
             /\ FTerminals' = Move(FTerminals, IndexOf(FTerminals, t), 1)
    <2>1. /\ \A u : Contains(FTerminals', u) <=> Contains(FTerminals, u)
          /\ Distinct(FTerminals')
          /\ FFreeTerminals' \in 0..Len(FTerminals')
          /\ \A k \in 1..FFreeTerminals' :
               FTerminals'[k] = t \/ \E j \in 1..FFreeTerminals : FTerminals'[k] = FTerminals[j]
      BY <1>2, <1>4, <1>5, ReturnedToPool
    <2>2. ListInv'
      BY <1>1, <1>2, <2>1 DEF ListInv
    <2>3. HandsInv' /\ WorkerInv'
      BY <1>1, <1>2, <1>5, NullsAssumption DEF HandsInv, WorkerInv, IdleTerminal, Closing
    <2>4. FreeTerminalsAreIdle'
      BY <1>1, <1>2, <1>4, <1>5, <2>1, NullsAssumption DEF FreeTerminalsAreIdle, Closing
    <2>5. QED
      BY <1>3, <2>2, <2>3, <2>4
  <1>6. CASE /\ stopping' = [stopping EXCEPT ![t] = TRUE]
             /\ Active' \in {Active, [Active EXCEPT ![t] = FALSE]}
             /\ UNCHANGED <<FTerminals, FFreeTerminals>>
    <2>1. \A u \in Terminals \ {t} : stopping'[u] = stopping[u] /\ Active'[u] = Active[u]
      BY <1>6 DEF TerminalTypeOK
    <2>2. ListInv'
      BY <1>1, <1>2, <1>6 DEF ListInv, Contains, Distinct, Positions
    <2>3. HandsInv' /\ WorkerInv'
      BY <1>1, <1>2, <2>1, NullsAssumption DEF HandsInv, WorkerInv, IdleTerminal, Closing
    <2>4. FreeTerminalsAreIdle'
      BY <1>1, <1>2, <1>4, <1>6, <2>1, NullsAssumption DEF FreeTerminalsAreIdle, Closing
    <2>5. QED
      BY <1>3, <2>2, <2>3, <2>4
  <1>7. QED
    BY <1>5, <1>6 DEF TerminalIdle, TerminalFree, t

----------------------------------------------------------------------------
(* The destructor's steps                                                  *)

\* The destructor: Close,
LEMMA CloseStep ==
  ASSUME TypeOK, PoolInvariant, Close
  PROVE  PoolInvariant'
  <1> USE DEF TypeOK, PoolInvariant
  <1>1. /\ UNCHANGED <<FItemsInProcess, FTerminals, FFreeTerminals, pc, FItem, Active, stopping, item,
                       qTerminal, qItem, uiTerminal>>
        /\ uipc = "ready" /\ uipc' = "waiting" /\ FTerminated'
        /\ qpc' = qpc \/ (qpc = "wait" /\ qpc' = "awake")
    BY DEF Close, Ui, queueVars, terminalVars
  <1>2. ListInv' /\ HandsInv' /\ WorkerInv' /\ CloseInv'
    BY <1>1 DEF ListInv, Contains, Distinct, Positions, HandsInv, IdleTerminal, WorkerInv,
       CloseInv, Closing
  <1>3. CountInv' /\ FreeTerminalsAreIdle'
    BY <1>1 DEF CountInv, Loaded, FreeTerminalsAreIdle, Closing
  <1>4. QED
    BY <1>2, <1>3

\* the section it keeps,
LEMMA EnterItemsSectionStep ==
  ASSUME TypeOK, PoolInvariant, EnterItemsSection
  PROVE  PoolInvariant'
  <1> USE DEF TypeOK, PoolInvariant
  <1>1. /\ UNCHANGED <<FItemsInProcess, FTerminals, FFreeTerminals, FTerminated, pc, FItem, Active,
                       stopping, item, qpc, qTerminal, qItem, uiTerminal>>
        /\ uipc = "waiting" /\ uipc' = "closing" /\ qpc = "dead"
    BY DEF EnterItemsSection, queueVars, settingVars, terminalVars
  <1>2. ListInv' /\ HandsInv' /\ WorkerInv' /\ CloseInv'
    BY <1>1 DEF ListInv, Contains, Distinct, Positions, HandsInv, IdleTerminal, WorkerInv,
       CloseInv, Closing
  <1>3. CountInv' /\ FreeTerminalsAreIdle'
    BY <1>1 DEF CountInv, Loaded, FreeTerminalsAreIdle, Closing
  <1>4. QED
    BY <1>2, <1>3

\* each worker told to terminate,
LEMMA TerminateFirstStep ==
  ASSUME TypeOK, PoolInvariant, TerminateFirst
  PROVE  PoolInvariant'
  <1> USE DEF TypeOK, PoolInvariant
  <1> DEFINE t == FTerminals[1]
  <1>1. /\ UNCHANGED <<FItemsInProcess, FFreeTerminals, FTerminated, pc, FItem, Active, item, qpc,
                       qTerminal, qItem>>
        /\ uipc = "closing" /\ uipc' = "joining" /\ uiTerminal' = t /\ Len(FTerminals) > 0
        /\ FTerminals' = Tail(FTerminals)
    BY DEF TerminateFirst, settingVars
  <1>2. FTerminals \in Seq(Terminals) /\ Distinct(FTerminals) /\ t \in Terminals /\ Contains(FTerminals, t)
    BY <1>1 DEF ListInv, QueueTypeOK, Contains, Positions
  <1>3. (\A u : Contains(FTerminals', u) <=> Contains(FTerminals, u) /\ u # t) /\ Distinct(FTerminals')
    BY <1>1, <1>2, TailElements
  <1> HIDE DEF t
  <1>4. ListInv'
    BY <1>1, <1>2, <1>3 DEF ListInv
  <1>5. HandsInv' /\ WorkerInv' /\ CloseInv'
    BY <1>1, <1>2 DEF HandsInv, WorkerInv, CloseInv, IdleTerminal, Closing
  <1>6. CountInv' /\ FreeTerminalsAreIdle'
    BY <1>1 DEF CountInv, Loaded, FreeTerminalsAreIdle, Closing
  <1>7. QED
    BY <1>4, <1>5, <1>6

\* each terminal deleted when it has ended,
LEMMA DeleteTerminalStep ==
  ASSUME TypeOK, PoolInvariant, DeleteTerminal
  PROVE  PoolInvariant'
  <1> USE DEF TypeOK, PoolInvariant
  <1> DEFINE t == uiTerminal
  <1>1. /\ UNCHANGED <<FItemsInProcess, FTerminals, FFreeTerminals, FTerminated, item, qpc, qTerminal, qItem>>
        /\ uipc = "joining" /\ uipc' = "closing" /\ uiTerminal' = NoTerminal /\ pc[t] = "dead"
        /\ pc' = [pc EXCEPT ![t] = "none"] /\ FItem' = [FItem EXCEPT ![t] = NoItem]
    BY DEF DeleteTerminal, Destroyed, queueVars, settingVars
  <1>2. t \in Terminals /\ ~Contains(FTerminals, t) /\ item[t] = NoItem
    BY <1>1 DEF HandsInv, ListInv, WorkerInv
  <1>3. /\ pc'[t] = "none" /\ FItem'[t] = NoItem
        /\ \A u \in Terminals \ {t} : pc'[u] = pc[u] /\ FItem'[u] = FItem[u]
    BY <1>1, <1>2 DEF TerminalTypeOK
  <1>4. ListInv'
    BY <1>1, <1>2, <1>3 DEF ListInv, Contains, Distinct, Positions
  <1>5. HandsInv' /\ CloseInv'
    BY <1>1 DEF HandsInv, CloseInv, IdleTerminal, Closing
  <1>6. WorkerInv'
    BY <1>1, <1>2, <1>3 DEF WorkerInv, Closing
  <1>7. CountInv'
    <2>1. Loaded' \subseteq Loaded
      BY <1>1, <1>2, <1>3 DEF Loaded
    <2>2. QED
      BY <1>1, <2>1, CountKept DEF QueueTypeOK
  <1>8. FreeTerminalsAreIdle'
    BY <1>1 DEF FreeTerminalsAreIdle, Closing
  <1>9. QED
    BY <1>4, <1>5, <1>6, <1>7, <1>8

\* and the items.
LEMMA FreeItemsStep ==
  ASSUME TypeOK, PoolInvariant, FreeItems
  PROVE  PoolInvariant'
  <1> USE DEF TypeOK, PoolInvariant
  <1>1. /\ UNCHANGED <<FItemsInProcess, FTerminals, FFreeTerminals, FTerminated, pc, FItem, Active,
                       stopping, item, qpc, qTerminal, qItem, uiTerminal>>
        /\ uipc = "closing" /\ uipc' = "closed" /\ Len(FTerminals) = 0
    BY DEF FreeItems, settingVars, terminalVars
  <1>2. FTerminals = << >>
    BY <1>1 DEF QueueTypeOK
  <1>3. ListInv' /\ HandsInv' /\ WorkerInv' /\ CloseInv'
    BY <1>1, <1>2 DEF ListInv, Contains, Distinct, Positions, HandsInv, IdleTerminal, WorkerInv,
       CloseInv, Closing
  <1>4. CountInv' /\ FreeTerminalsAreIdle'
    BY <1>1 DEF CountInv, Loaded, FreeTerminalsAreIdle, Closing
  <1>5. QED
    BY <1>3, <1>4

----------------------------------------------------------------------------
(* Every step keeps the invariant                                          *)

\* The operations on items and settings leave the pool alone.
LEMMA UserStep ==
  ASSUME PoolInvariant,
         \/ (\E i \in Items, monitored \in BOOLEAN : AddItem(i, monitored))
         \/ (\E i \in Items : ItemExecuteNow(i) \/ ItemDelete(i))
         \/ (\E i, before \in Items : ItemMove(i, before))
         \/ (\E value \in Limits : SetTransfersLimit(value))
         \/ (\E value \in KeepTimes : SetKeepDoneItemsFor(value))
         \/ SetEnabled
  PROVE  PoolInvariant'
  <1>1. UNCHANGED poolVars
    BY DEF poolVars, AddItem, ItemExecuteNow, ItemDelete, DeletePending, CancelTransfer,
       DeleteDone,
           ItemMove, SetTransfersLimit, SetKeepDoneItemsFor, SetEnabled, UiKeeps, queueVars,
           settingVars, terminalVars
  <1>2. QED
    BY <1>1, PoolUnchanged

\* Every step keeps the invariant of the pool.
LEMMA PoolStep == TypeOK /\ PoolInvariant /\ Next => PoolInvariant'
  <1> SUFFICES ASSUME TypeOK, PoolInvariant, Next PROVE PoolInvariant'
    OBVIOUS
  <1>1. CASE QueueThread
    <2>1. CASE ProcessEvent
      BY <2>1, HireStep, ReuseStep, NothingToStartStep DEF ProcessEvent
    <2>2. QED
      BY <1>1, <2>1, ProcessStep, QueueThreadEndsStep DEF QueueThread
  <1>2. ASSUME NEW t \in Terminals, Worker(t) PROVE PoolInvariant'
    <2>1. CASE UsesFreedItem(t)
      BY <2>1, PoolUnchanged DEF UsesFreedItem, poolVars, queueVars, settingVars, terminalVars,
         threadVars
    <2>2. QED
      BY <1>2, <2>1, BeginStep, OpenedStep, StartTransferStep, OpenFailsStep, CancelledStep,
         TransferEndsStep, ConnectionLostStep, RetryItemStep, DeleteItemStep, SkipsRetireStep, FreeStep,
         SkipsFreeStep, TerminalFinishedStep, SkipsFinishedStep DEF Worker
  <1>3. CASE UserInterface
    BY <1>3, UserStep, IdleStep, TerminalIdleStep, CloseStep, EnterItemsSectionStep,
       TerminateFirstStep,
       DeleteTerminalStep, FreeItemsStep DEF UserInterface, Destructor
  <1>4. QED
    BY <1>1, <1>2, <1>3 DEF Next

\* So does a stutter.
LEMMA Stutter == TypeOK /\ PoolInvariant /\ UNCHANGED vars => TypeOK' /\ PoolInvariant'
  <1> SUFFICES ASSUME TypeOK, PoolInvariant, UNCHANGED vars PROVE TypeOK' /\ PoolInvariant'
    OBVIOUS
  <1> USE DEF vars, queueVars, settingVars, itemVars, terminalVars, threadVars
  <1>1. QueueTypeOK' /\ SettingTypeOK' /\ ItemTypeOK'
    BY DEF TypeOK, QueueTypeOK, SettingTypeOK, ItemTypeOK
  <1>2. TerminalTypeOK' /\ ThreadTypeOK'
    BY DEF TypeOK, TerminalTypeOK, ThreadTypeOK
  <1>3. PoolInvariant'
    BY PoolUnchanged DEF poolVars
  <1>4. QED
    BY <1>1, <1>2, <1>3 DEF TypeOK

\* The invariant the theorems below are read off from: types and pool together,
\* since the types of what is taken from a list depend on the pool.
THEOREM Invariance == Spec => []IInv
  <1>1. IInv /\ [Next]_vars => IInv'
    <2>1. TypeOK /\ PoolInvariant /\ Next => TypeOK'
      BY QueueTypeStep, SettingTypeStep, ItemTypeStep, TerminalTypeStep, ThreadTypeStep DEF TypeOK
    <2>2. QED
      BY <2>1, PoolStep, Stutter DEF IInv
  <1>2. QED
    BY InitIInv, <1>1, PTL DEF Spec

\* All variables keep their types (Queue.cpp, TTerminalQueue, TTerminalItem,
\* TQueueItem): no index leaves its list and no pointer its kind.
THEOREM TypeCorrectness == Spec => []TypeOK
  <1>1. IInv => TypeOK
    BY DEF IInv
  <1>2. QED
    BY Invariance, <1>1, PTL

\* The pool of free terminals is sound for any number of workers, any limits
\* and whatever the user and the connections do: TTerminalQueue::ProcessEvent
\* and Idle never take a terminal that is busy, dead or disconnected.
THEOREM FreeTerminalsSound == Spec => []FreeTerminalsAreIdle
  <1>1. IInv => FreeTerminalsAreIdle
    BY DEF IInv, PoolInvariant
  <1>2. QED
    BY Invariance, <1>1, PTL

\* FTerminals is exact: TerminalFinished and TerminalFree always find the
\* terminal in the list, and nothing freed stays in it.
THEOREM TerminalListExact == Spec => []TerminalsListed
  <1>1. IInv => TerminalsListed
    <2> SUFFICES ASSUME IInv, ~Closing PROVE TerminalsListed
      BY DEF TerminalsListed
    <2>1. uipc # "joining"
      BY DEF Closing
    <2>2. QED
      BY <2>1 DEF IInv, PoolInvariant, ListInv, TerminalsListed
  <1>2. QED
    BY Invariance, <1>1, PTL

\* The whole invariant of the pool, the count of items in process included:
\* FItemsInProcess never falls below the number of items some thread holds, so
\* DeleteItem and RetryItem never count below zero.
THEOREM PoolSound == Spec => []PoolInvariant
  <1>1. IInv => PoolInvariant
    BY DEF IInv
  <1>2. QED
    BY Invariance, <1>1, PTL

----------------------------------------------------------------------------
(* The items in the hands of the threads                                   *)

\* The queue thread (NoTerminal) and the workers, and the item each has in hand.
Hands == Terminals \cup {NoTerminal}
Carried(h) == IF h = NoTerminal THEN qItem ELSE IF item[h] # NoItem THEN item[h] ELSE FItem[h]

\* Nobody has an item in hand twice or one beyond the first FItemsInProcess,
\* and what is in hand is in the list unless the user has deleted it: that no
\* thread takes on what another has, nor puts back what has left, rests on it.
CarryInv ==
  /\ qpc # "assign" => qItem = NoItem
  /\ Distinct(FItems)
  /\ \A i \in Items : status[i] = "unborn" => ~Contains(FItems, i) /\ i \notin FDoneItems
  /\ \A h \in Hands : Carried(h) # NoItem => status[Carried(h)] = "freed" \/ Contains(FItems, Carried(h))
  /\ \A h \in Hands, k \in Positions(FItems) : FItems[k] = Carried(h) => k <= FItemsInProcess
  /\ \A g, h \in Hands : Carried(g) = Carried(h) /\ Carried(g) # NoItem => g = h

\* A status never goes back to where it was before the object, nor on after it.
StatusMoves ==
  \A i \in Items : /\ status'[i] = "unborn" <=> status[i] = "unborn"
                   /\ status[i] = "freed" => status'[i] = "freed"
SameHands == \A h \in Hands : Carried(h)' = Carried(h)
SameBut(f) == \A h \in Hands \ {f} : Carried(h)' = Carried(h)
SameList == FItems' = FItems /\ FItemsInProcess' = FItemsInProcess
SameDone == FDoneItems' \subseteq FDoneItems
SameEnd == FCompleteEvent' = FCompleteEvent

\* What a step does to the list and to the hands.
Rests == SameHands /\ SameList /\ SameDone /\ SameEnd /\ StatusMoves
Takes ==
  /\ HasNext /\ Carried(NoTerminal) = NoItem /\ Carried(NoTerminal)' = NextItem /\ SameBut(NoTerminal)
  /\ FItems' = FItems /\ FItemsInProcess' = FItemsInProcess + 1
  /\ SameDone /\ SameEnd /\ StatusMoves
Passes(t) ==
  /\ Carried(t) = NoItem /\ Carried(t)' = Carried(NoTerminal) /\ Carried(NoTerminal)' = NoItem
  /\ \A h \in Terminals \ {t} : Carried(h)' = Carried(h)
  /\ SameList /\ SameDone /\ SameEnd /\ UNCHANGED status
Drops(t) ==
  /\ FTerminated /\ Carried(t)' = NoItem /\ SameBut(t)
  /\ SameList /\ SameDone /\ SameEnd /\ UNCHANGED status
Adds(i) ==
  /\ SameHands /\ status[i] = "unborn" /\ FItems' = Append(FItems, i) /\ UNCHANGED <<FItemsInProcess, FDoneItems>>
  /\ status' = [status EXCEPT ![i] = "pending"]
  /\ FCompleteEvent'[i] # "signaled" /\ FCompleteEvent' \in [Items -> {"none", "armed", "signaled"}]
  /\ \A j \in Items \ {i} : FCompleteEvent'[j] = FCompleteEvent[j]
Promotes(i) ==
  /\ SameHands /\ Contains(FItems, i) /\ IndexOf(FItems, i) > FItemsInProcess
  /\ FItems' = Move(FItems, IndexOf(FItems, i), FItemsInProcess + 1)
  /\ UNCHANGED <<FItemsInProcess, FDoneItems, status, FCompleteEvent>>
Retries(t) ==
  /\ Carried(t) \in Items /\ status[Carried(t)] # "freed"
  /\ Carried(t)' = NoItem /\ SameBut(t)
  /\ FItems' = Requeued(Carried(t)) /\ FItemsInProcess' = FItemsInProcess - 1
  /\ UNCHANGED <<FDoneItems, status, FCompleteEvent>>
Retires(t) ==
  /\ Carried(t) \in Items /\ status[Carried(t)] # "freed"
  /\ Carried(t)' = NoItem /\ SameBut(t)
  /\ FItems' = Remove(FItems, Carried(t)) /\ FItemsInProcess' = FItemsInProcess - 1
  /\ FDoneItems' \subseteq FDoneItems \cup {Carried(t)} /\ StatusMoves
  /\ FCompleteEvent' = [FCompleteEvent EXCEPT ![Carried(t)] = Completed(Carried(t))]
Deletes(i) ==
  /\ "delete" \in Operations /\ Contains(FItems, i) /\ SameHands
  /\ FItems' = DeleteAt(FItems, IndexOf(FItems, i)) /\ UNCHANGED <<FItemsInProcess, FDoneItems>>
  /\ status' = [status EXCEPT ![i] = "freed"]
  /\ FCompleteEvent' = [FCompleteEvent EXCEPT ![i] = Completed(i)]
Empties ==
  /\ FTerminated /\ SameHands /\ FItems' = << >> /\ FDoneItems' = {} /\ UNCHANGED FItemsInProcess
  /\ StatusMoves /\ \A i \in Items : Contains(FItems, i) => status'[i] = "freed"
  /\ \A i \in Items : Contains(FItems, i) => FCompleteEvent'[i] = Completed(i)
  /\ \A i \in Items : FCompleteEvent'[i] \in {FCompleteEvent[i], Completed(i)}

Shape ==
  \/ Rests \/ Takes \/ Empties
  \/ \E t \in Terminals : Passes(t) \/ Drops(t) \/ Retries(t) \/ Retires(t)
  \/ \E i \in Items : Adds(i) \/ Promotes(i) \/ Deletes(i)

----------------------------------------------------------------------------
(* Every step has one of the shapes                                        *)

\* What is in a worker's hand, before and after a step.
LEMMA HandFacts ==
  ASSUME TypeOK, PoolInvariant, CarryInv
  PROVE  /\ Carried(NoTerminal) = qItem /\ Carried(NoTerminal)' = qItem'
         /\ \A t \in Terminals :
              /\ t # NoTerminal
              /\ Carried(t) = (IF item[t] # NoItem THEN item[t] ELSE FItem[t])
              /\ Carried(t)' = (IF item'[t] # NoItem THEN item'[t] ELSE FItem'[t])
              /\ pc[t] # "retire" => item[t] = NoItem /\ Carried(t) = FItem[t]
              /\ pc[t] = "retire" => item[t] \in Items /\ FItem[t] = NoItem /\ Carried(t) = item[t]
              /\ pc[t] \in {"opening", "opened", "running"} => FItem[t] \in Items
         /\ \A i \in Items : i # NoItem
  BY NullsAssumption DEF Carried, PoolInvariant, WorkerInv

\* Nothing in hand is unborn.
LEMMA CarriedBorn ==
  ASSUME CarryInv, NEW h \in Hands, Carried(h) \in Items
  PROVE  status[Carried(h)] # "unborn"
  BY NullsAssumption DEF CarryInv

\* Where neither hands, list nor events are touched, the status decides.
LEMMA RestShape ==
  ASSUME TypeOK, PoolInvariant, CarryInv, UNCHANGED <<FItems, FItemsInProcess, FDoneItems, FCompleteEvent, qItem, FItem, item>>,
         StatusMoves
  PROVE  Shape
  BY HandFacts DEF Hands, Shape, Rests, SameHands, SameList, SameDone, SameEnd

\* A worker sets the status of its own item, which is neither unborn nor freed.
LEMMA SetStatus ==
  ASSUME TypeOK, PoolInvariant, CarryInv, NEW t \in Terminals, FItem[t] \in Items, pc[t] # "retire", status[FItem[t]] # "freed",
         NEW s \in Statuses \ {"unborn", "freed"}, status' = [status EXCEPT ![FItem[t]] = s]
  PROVE  StatusMoves
  <1>1. status[FItem[t]] # "unborn"
    BY HandFacts, CarriedBorn DEF Hands
  <1>2. QED
    BY <1>1 DEF StatusMoves, TypeOK, ItemTypeOK

\* A status left alone has not moved.
LEMMA SameStatus == UNCHANGED status => StatusMoves
  BY DEF StatusMoves

\* What a worker does without giving its item away.
LEMMA WorkerRests ==
  ASSUME TypeOK, PoolInvariant, CarryInv, NEW t \in Terminals,
         Begin(t) \/ Opened(t) \/ StartTransfer(t) \/ UsesFreedItem(t) \/ Free(t) \/ SkipsFree(t) \/ SkipsFinished(t)
  PROVE  Shape
  <1> USE DEF queueVars, settingVars, itemVars, threadVars, terminalVars
  <1>1. CASE Begin(t)
    <2>1. FItem[t] \in Items /\ pc[t] # "retire"
      BY <1>1 DEF Begin, TypeOK, TerminalTypeOK
    <2>2. StatusMoves
      <3>1. CASE Active[t]
        BY <1>1, <3>1, SameStatus DEF Begin
      <3>2. CASE ~Active[t]
        BY <1>1, <3>2, <2>1, SetStatus DEF Begin, Statuses
      <3>3. QED
        BY <3>1, <3>2
    <2>3. QED
      BY <1>1, <2>2, RestShape DEF Begin
  <1>2. CASE Opened(t)
    BY <1>2, SameStatus, RestShape DEF Opened
  <1>3. CASE StartTransfer(t)
    <2>1. FItem[t] \in Items /\ pc[t] # "retire"
      BY <1>3, HandFacts DEF StartTransfer
    <2>2. QED
      BY <1>3, <2>1, SetStatus, RestShape DEF StartTransfer, Statuses
  <1>4. CASE UsesFreedItem(t)
    BY <1>4, SameStatus, RestShape DEF UsesFreedItem
  <1>5. CASE Free(t)
    BY <1>5, SameStatus, RestShape DEF Free
  <1>6. CASE SkipsFree(t)
    BY <1>6, SameStatus, RestShape DEF SkipsFree
  <1>7. CASE SkipsFinished(t)
    BY <1>7, SameStatus, RestShape DEF SkipsFinished
  <1>8. QED
    BY <1>1, <1>2, <1>3, <1>4, <1>5, <1>6, <1>7

\* The item goes from one field of the worker to another.
LEMMA DetachShape ==
  ASSUME TypeOK, PoolInvariant, CarryInv, NEW t \in Terminals, pc[t] \in {"opening", "opened", "running"},
         NEW retry, NEW cancel, Detach(t, retry, cancel)
  PROVE  Shape
  <1>1. FItem[t] \in Items /\ item[t] = NoItem /\ FItem[t] # NoItem /\ pc[t] # "retire"
    BY HandFacts
  <1>2. /\ UNCHANGED <<FItems, FItemsInProcess, FDoneItems, FCompleteEvent, qItem>>
        /\ FItem' = [FItem EXCEPT ![t] = NoItem] /\ item' = [item EXCEPT ![t] = FItem[t]]
        /\ status' = [status EXCEPT ![FItem[t]] = "done"] /\ status[FItem[t]] # "freed"
    BY DEF Detach, queueVars, threadVars
  <1>3. StatusMoves
    BY <1>1, <1>2, SetStatus DEF Statuses
  <1>4. SameHands
    <2>1. ASSUME NEW h \in Terminals PROVE Carried(h)' = Carried(h)
      BY <1>1, <1>2, HandFacts DEF TypeOK, TerminalTypeOK
    <2>2. QED
      BY <1>2, <2>1, HandFacts DEF SameHands, Hands
  <1>5. QED
    BY <1>2, <1>3, <1>4 DEF Shape, Rests, SameList, SameDone, SameEnd

\* The four ways a transfer or connection attempt ends.
LEMMA DetachesShape ==
  ASSUME TypeOK, PoolInvariant, CarryInv, NEW t \in Terminals,
         OpenFails(t) \/ Cancelled(t) \/ TransferEnds(t) \/ ConnectionLost(t)
  PROVE  Shape
  <1>1. CASE OpenFails(t)
    <2>1. PICK cancel : Detach(t, TRUE, cancel)
      BY <1>1 DEF OpenFails
    <2>2. QED
      BY <1>1, <2>1, DetachShape DEF OpenFails
  <1>2. CASE Cancelled(t)
    BY <1>2, DetachShape DEF Cancelled
  <1>3. CASE TransferEnds(t)
    <2>1. PICK cancel : Detach(t, FALSE, cancel)
      BY <1>3 DEF TransferEnds
    <2>2. QED
      BY <1>3, <2>1, DetachShape DEF TransferEnds
  <1>4. CASE ConnectionLost(t)
    <2>1. PICK cancel : Detach(t, FALSE, cancel)
      BY <1>4 DEF ConnectionLost
    <2>2. QED
      BY <1>4, <2>1, DetachShape DEF ConnectionLost
  <1>5. QED
    BY <1>1, <1>2, <1>3, <1>4

\* RetryItem, DeleteItem and what they skip once the queue is closing.
LEMMA RetireShape ==
  ASSUME TypeOK, PoolInvariant, CarryInv, NEW t \in Terminals, RetryItem(t) \/ DeleteItem(t) \/ SkipsRetire(t)
  PROVE  Shape
  <1>1. /\ pc[t] = "retire" /\ item[t] \in Items /\ FItem[t] = NoItem /\ Carried(t) = item[t]
        /\ FItem' = FItem /\ item' = [item EXCEPT ![t] = NoItem] /\ qItem' = qItem
    BY HandFacts DEF RetryItem, DeleteItem, SkipsRetire, threadVars
  <1>2. Carried(t)' = NoItem /\ SameBut(t)
    <2>1. ASSUME NEW h \in Terminals PROVE Carried(h)' = IF h = t THEN NoItem ELSE Carried(h)
      BY <1>1, HandFacts DEF TypeOK, TerminalTypeOK
    <2>2. QED
      BY <1>1, <2>1, HandFacts DEF SameBut, Hands
  <1>3. status[item[t]] # "unborn"
    BY <1>1, CarriedBorn DEF Hands
  <1>4. CASE RetryItem(t)
    BY <1>1, <1>2, <1>4 DEF RetryItem, Shape, Retries, itemVars
  <1>5. CASE DeleteItem(t)
    <2>1. /\ status[item[t]] # "freed" /\ FItems' = Remove(FItems, item[t]) /\ FItemsInProcess' = FItemsInProcess - 1
          /\ FDoneItems' \subseteq FDoneItems \cup {item[t]}
          /\ FCompleteEvent' = [FCompleteEvent EXCEPT ![item[t]] = Completed(item[t])]
          /\ status' = status \/ status' = [status EXCEPT ![item[t]] = "freed"]
      BY <1>5 DEF DeleteItem
    <2>2. StatusMoves
      BY <1>1, <1>3, <2>1 DEF StatusMoves, TypeOK, ItemTypeOK
    <2>3. QED
      BY <1>1, <1>2, <2>1, <2>2 DEF Shape, Retires
  <1>6. CASE SkipsRetire(t)
    BY <1>1, <1>2, <1>6 DEF SkipsRetire, PassesCheck, Shape, Drops, SameList, SameDone, SameEnd,
       queueVars, itemVars
  <1>7. QED
    BY <1>4, <1>5, <1>6

\* Only while the destructor runs does a worker end with an item in hand.
LEMMA DestroyedShape ==
  ASSUME TypeOK, PoolInvariant, CarryInv, NEW t \in Terminals, pc[t] # "retire", Destroyed(t), FItem[t] = NoItem \/ FTerminated,
         UNCHANGED <<FItems, FItemsInProcess, FDoneItems, FCompleteEvent, status, qItem>>
  PROVE  Shape
  <1>1. \A h \in Terminals : Carried(h)' = IF h = t THEN NoItem ELSE Carried(h)
    BY HandFacts DEF Destroyed, TypeOK, TerminalTypeOK
  <1>2. CASE FTerminated
    BY <1>1, <1>2, HandFacts DEF Shape, Drops, SameBut, Hands, SameList, SameDone, SameEnd
  <1>3. CASE FItem[t] = NoItem
    <2>1. SameHands
      BY <1>1, <1>3, HandFacts DEF SameHands, Hands
    <2>2. QED
      BY <2>1, SameStatus DEF Shape, Rests, SameList, SameDone, SameEnd
  <1>4. QED
    BY <1>2, <1>3

\* A worker's object goes, at its own end or the destructor's.
LEMMA EndsShape ==
  ASSUME TypeOK, PoolInvariant, CarryInv, (\E t \in Terminals : TerminalFinished(t)) \/ DeleteTerminal
  PROVE  Shape
  <1>1. ASSUME NEW t \in Terminals, TerminalFinished(t) PROVE Shape
    <2>1. FItem[t] = NoItem \/ FTerminated
      BY <1>1 DEF TerminalFinished, Ends, PoolInvariant, WorkerInv, CloseInv, Closing
    <2>2. QED
      BY <1>1, <2>1, DestroyedShape DEF TerminalFinished, Ends, itemVars, threadVars
  <1>2. CASE DeleteTerminal
    <2>1. uiTerminal \in Terminals /\ FTerminated
      BY <1>2 DEF DeleteTerminal, PoolInvariant, HandsInv, CloseInv
    <2>2. QED
      BY <1>2, <2>1, DestroyedShape DEF DeleteTerminal, queueVars, itemVars
  <1>3. QED
    BY <1>1, <1>2

\* What expires is done, and so was born.
LEMMA ExpiredShape ==
  ASSUME TypeOK, CarryInv, RemoveExpired
  PROVE  FDoneItems' \subseteq FDoneItems /\ StatusMoves
  <1>1. PICK expired \in ExpiredSets :
          /\ FDoneItems' = FDoneItems \ expired
          /\ status' = [i \in Items |-> IF i \in expired THEN "freed" ELSE status[i]]
    BY DEF RemoveExpired
  <1>2. expired \subseteq FDoneItems
    BY <1>1 DEF ExpiredSets
  <1>3. QED
    BY <1>1, <1>2 DEF StatusMoves, CarryInv

\* The queue thread takes the next item on, or finds nothing to start.
LEMMA ProcessEventShape ==
  ASSUME TypeOK, PoolInvariant, CarryInv, ProcessEvent
  PROVE  Shape
  <1>1. /\ UNCHANGED <<FItems, FCompleteEvent, FItem, item>> /\ FDoneItems' \subseteq FDoneItems /\ StatusMoves
        /\ qItem = NoItem
    BY ExpiredShape DEF ProcessEvent, CarryInv
  <1>2. CASE (\E t \in Terminals : Hire(t)) \/ Reuse
    <2>1. HasNext /\ qItem' = NextItem /\ FItemsInProcess' = FItemsInProcess + 1
      BY <1>2 DEF Hire, Reuse, TakeNextItem, Runnable
    <2>2. QED
      BY <1>1, <2>1, HandFacts DEF Shape, Takes, SameBut, Hands, SameDone, SameEnd
  <1>3. CASE NothingToStart
    BY <1>1, <1>3, HandFacts DEF NothingToStart, Shape, Rests, SameHands, Hands, SameList,
       SameDone, SameEnd
  <1>4. QED
    BY <1>2, <1>3 DEF ProcessEvent

\* The item goes from the queue thread to the worker.
LEMMA ProcessShape ==
  ASSUME TypeOK, PoolInvariant, CarryInv, Process
  PROVE  Shape
  <1>1. PICK t \in Terminals : t = qTerminal
    BY DEF Process, PoolInvariant, HandsInv, IdleTerminal
  <1>2. FItem[t] = NoItem /\ pc[t] = "wait"
    BY <1>1 DEF Process, PoolInvariant, HandsInv, IdleTerminal
  <1>3. /\ UNCHANGED <<FItems, FItemsInProcess, FDoneItems, FCompleteEvent, status, item>>
        /\ FItem' = [FItem EXCEPT ![t] = qItem] /\ qItem' = NoItem
    BY <1>1 DEF Process, queueVars, itemVars
  <1>4. \A h \in Terminals : Carried(h)' = IF h = t THEN qItem ELSE Carried(h)
    BY <1>2, <1>3, HandFacts DEF TypeOK, TerminalTypeOK
  <1>5. Carried(t) = NoItem /\ Carried(t)' = Carried(NoTerminal) /\ Carried(NoTerminal)' = NoItem
    BY <1>2, <1>3, <1>4, HandFacts
  <1>6. Passes(t)
    BY <1>3, <1>4, <1>5 DEF Passes, SameList, SameDone, SameEnd
  <1>7. QED
    BY <1>6 DEF Shape

\* The user's operations on the items.
LEMMA ItemShape ==
  ASSUME TypeOK, PoolInvariant, CarryInv, NEW i \in Items,
         (\E monitored \in BOOLEAN : AddItem(i, monitored)) \/ ItemExecuteNow(i) \/ ItemDelete(i)
  PROVE  Shape
  <1> USE DEF queueVars, settingVars, itemVars, terminalVars, UiKeeps
  <1>1. ASSUME NEW monitored \in BOOLEAN, AddItem(i, monitored) PROVE Shape
    <2>1. SameHands
      BY <1>1, HandFacts DEF AddItem, SameHands, Hands
    <2>2. /\ FCompleteEvent'[i] # "signaled" /\ FCompleteEvent' \in [Items -> {"none", "armed", "signaled"}]
          /\ \A j \in Items \ {i} : FCompleteEvent'[j] = FCompleteEvent[j]
      BY <1>1 DEF AddItem, TypeOK, ItemTypeOK
    <2>3. Adds(i)
      BY <1>1, <2>1, <2>2 DEF AddItem, Adds
    <2>4. QED
      BY <2>3 DEF Shape
  <1>2. CASE ItemExecuteNow(i)
    <2>1. SameHands
      BY <1>2, HandFacts DEF ItemExecuteNow, SameHands, Hands
    <2>2. QED
      BY <1>2, <2>1 DEF ItemExecuteNow, Shape, Promotes
  <1>3. CASE DeletePending(i)
    <2>1. SameHands
      BY <1>3, HandFacts DEF DeletePending, SameHands, Hands
    <2>2. QED
      BY <1>3, <2>1 DEF DeletePending, Shape, Deletes, Ui
  <1>4. CASE CancelTransfer(i)
    BY <1>4, SameStatus, RestShape DEF CancelTransfer
  <1>5. CASE DeleteDone(i)
    BY <1>5, HandFacts, SameStatus DEF DeleteDone, Shape, Rests, SameHands, Hands, SameList,
       SameDone, SameEnd
  <1>6. QED
    BY <1>1, <1>2, <1>3, <1>4, <1>5 DEF ItemDelete

\* What the user interface does without touching an item.
LEMMA SettingShape ==
  ASSUME TypeOK, PoolInvariant, CarryInv,
         \/ Idle \/ TerminalIdle \/ SetEnabled \/ Close \/ EnterItemsSection \/ TerminateFirst \/ QueueThreadEnds
         \/ (\E value \in Limits : SetTransfersLimit(value))
         \/ (\E value \in KeepTimes : SetKeepDoneItemsFor(value))
  PROVE  Shape
  <1> USE DEF queueVars, settingVars, itemVars, terminalVars, UiKeeps
  <1>1. UNCHANGED <<FItems, FItemsInProcess, FDoneItems, FCompleteEvent, status, qItem, FItem, item>>
    BY DEF Idle, TerminalIdle, SetEnabled, Close, EnterItemsSection, TerminateFirst,
       QueueThreadEnds,
           SetTransfersLimit, SetKeepDoneItemsFor
  <1>2. QED
    BY <1>1, SameStatus, RestShape

\* The destructor frees every item of both lists.
LEMMA FreeItemsShape ==
  ASSUME TypeOK, PoolInvariant, CarryInv, FreeItems
  PROVE  Shape
  <1> DEFINE freed == Elements(FItems) \cup FDoneItems
  <1>1. /\ status' = [i \in Items |-> IF i \in freed THEN "freed" ELSE status[i]]
        /\ FCompleteEvent' = [i \in Items |-> IF i \in freed THEN Completed(i) ELSE FCompleteEvent[i]]
        /\ FItems' = << >> /\ FDoneItems' = {}
        /\ UNCHANGED <<FItemsInProcess, qItem, FItem, item>>
    BY DEF FreeItems, terminalVars
  <1>2. \A i \in Items : Contains(FItems, i) => i \in freed
    BY DEF Contains, Elements
  <1>3. \A i \in freed : Contains(FItems, i) \/ i \in FDoneItems
    BY DEF Contains, Elements
  <1> HIDE DEF freed
  <1>4. SameHands
    BY <1>1, HandFacts DEF SameHands, Hands
  <1>5. StatusMoves
    BY <1>1, <1>3 DEF StatusMoves, CarryInv
  <1>6. FTerminated
    BY DEF FreeItems, PoolInvariant, CloseInv
  <1>7. QED
    BY <1>1, <1>2, <1>4, <1>5, <1>6 DEF Shape, Empties

\* Every step of the queue has one of the shapes, if the user moves no item:
\* ItemMove may take an item out of the hands' reach, see CompletionTracksList.
LEMMA StepShape ==
  ASSUME "move" \notin Operations, TypeOK, PoolInvariant, CarryInv, Next
  PROVE  Shape
  <1>1. CASE QueueThread
    BY <1>1, ProcessEventShape, ProcessShape, SettingShape DEF QueueThread
  <1>2. ASSUME NEW t \in Terminals, Worker(t) PROVE Shape
    BY <1>2, WorkerRests, DetachesShape, RetireShape, EndsShape DEF Worker
  <1>3. CASE UserInterface
    <2>1. ASSUME NEW i \in Items, NEW before \in Items, ItemMove(i, before) PROVE FALSE
      BY <2>1 DEF ItemMove, Ui
    <2>2. QED
      BY <1>3, <2>1, ItemShape, SettingShape, EndsShape, FreeItemsShape DEF UserInterface,
         Destructor
  <1>4. QED
    BY <1>1, <1>2, <1>3 DEF Next

\* A stutter is a step of rest.
LEMMA StutterShape ==
  ASSUME TypeOK, PoolInvariant, CarryInv, UNCHANGED vars
  PROVE  Shape
  BY SameStatus, RestShape DEF vars, queueVars, itemVars, terminalVars, threadVars

----------------------------------------------------------------------------
(* Every shape keeps the invariant of the hands                            *)

\* In hand is an item or nothing.
LEMMA CarriedType ==
  ASSUME TypeOK, NEW h \in Hands
  PROVE  Carried(h) \in Items \cup {NoItem}
  BY DEF Carried, Hands, TypeOK, TerminalTypeOK, ThreadTypeOK

\* The queue thread holds an item only between ProcessEvent and Process.
LEMMA QueueHandStep ==
  ASSUME CarryInv, Next
  PROVE  qpc' # "assign" => qItem' = NoItem
  <1> USE DEF queueVars, settingVars, itemVars, terminalVars, threadVars, UiKeeps
  <1>0. qpc # "assign" => qItem = NoItem
    BY DEF CarryInv
  <1>1. CASE QueueThread
    BY <1>0, <1>1 DEF QueueThread, ProcessEvent, Hire, Reuse, TakeNextItem, NothingToStart,
       Process, QueueThreadEnds
  <1>2. ASSUME NEW t \in Terminals, Worker(t) PROVE qpc' = qpc /\ qItem' = qItem
    BY <1>2 DEF Worker, Begin, Opened, StartTransfer, OpenFails, Cancelled, TransferEnds,
       ConnectionLost, Detach,
       UsesFreedItem, RetryItem, DeleteItem, SkipsRetire, Free, SkipsFree, TerminalFinished, SkipsFinished
  <1>3. CASE UserInterface
    <2>1. CASE Close
      BY <1>0, <2>1 DEF Close, Ui
    <2>2. CASE ~Close
      <3>1. qpc' = qpc /\ qItem' = qItem
        BY <1>3, <2>2 DEF UserInterface, AddItem, ItemExecuteNow, ItemDelete, DeletePending,
           CancelTransfer, DeleteDone,
           ItemMove, Idle, TerminalIdle, SetTransfersLimit, SetKeepDoneItemsFor, SetEnabled, Destructor,
           EnterItemsSection, TerminateFirst, DeleteTerminal, FreeItems
      <3>2. QED
        BY <1>0, <3>1
    <2>3. QED
      BY <2>1, <2>2
  <1>4. QED
    BY <1>0, <1>1, <1>2, <1>3 DEF Next

\* The hands and the list, without the queue thread's program counter.
HeldInv ==
  /\ Distinct(FItems)
  /\ \A i \in Items : status[i] = "unborn" => ~Contains(FItems, i) /\ i \notin FDoneItems
  /\ \A h \in Hands : Carried(h) # NoItem => status[Carried(h)] = "freed" \/ Contains(FItems, Carried(h))
  /\ \A h \in Hands, k \in Positions(FItems) : FItems[k] = Carried(h) => k <= FItemsInProcess
  /\ \A g, h \in Hands : Carried(g) = Carried(h) /\ Carried(g) # NoItem => g = h

\* CarryInv is HeldInv and the queue thread's hand.
LEMMA HeldCarry == CarryInv <=> (qpc # "assign" => qItem = NoItem) /\ HeldInv
  BY DEF CarryInv, HeldInv

\* What has left the list is in hand only if freed, and has expired only if born.
LEMMA RestsHeld ==
  ASSUME TypeOK, HeldInv, Rests
  PROVE  HeldInv'
  <1>1. \A h \in Hands : Carried(h)' = Carried(h) /\ Carried(h) \in Items \cup {NoItem}
    BY CarriedType DEF Rests, SameHands
  <1>2. QED
    BY <1>1 DEF HeldInv, Rests, SameList, SameDone, StatusMoves, Contains, Distinct, Positions

\* The next item is in no hand yet.
LEMMA TakesHeld ==
  ASSUME TypeOK, PoolInvariant, HeldInv, Takes
  PROVE  HeldInv'
  <1>1. \A h \in Hands : Carried(h) \in Items \cup {NoItem}
    BY CarriedType
  <1>2. NextItem \in Items /\ FItemsInProcess + 1 \in Positions(FItems) /\ FItems[FItemsInProcess + 1] = NextItem
        /\ FItemsInProcess \in Nat
    BY CountFacts, NextItemFacts DEF Takes, HasNext, NextItem, Positions, TypeOK, QueueTypeOK
  <1>3. \A h \in Hands : Carried(h) # NextItem
    <2>1. ASSUME NEW h \in Hands, Carried(h) = NextItem PROVE FALSE
      BY <1>2, <2>1 DEF HeldInv
    <2>2. QED
      BY <2>1
  <1>4. Contains(FItems, NextItem)
    BY <1>2 DEF Contains
  <1>5. /\ FItems' = FItems /\ FItemsInProcess' = FItemsInProcess + 1 /\ FDoneItems' \subseteq FDoneItems /\ StatusMoves
        /\ \A h \in Hands : Carried(h)' = IF h = NoTerminal THEN NextItem ELSE Carried(h)
    BY DEF Takes, SameBut, SameDone
  <1>6. /\ Distinct(FItems)'
        /\ \A i \in Items : status'[i] = "unborn" => ~Contains(FItems', i) /\ i \notin FDoneItems'
    BY <1>5 DEF HeldInv, StatusMoves, Distinct, Positions
  <1>7. \A h \in Hands : Carried(h)' # NoItem => status'[Carried(h)'] = "freed" \/ Contains(FItems', Carried(h)')
    BY <1>1, <1>4, <1>5 DEF HeldInv, StatusMoves
  <1>8. ASSUME NEW h \in Hands, NEW k \in Positions(FItems)', FItems'[k] = Carried(h)' PROVE k <= FItemsInProcess'
    <2>1. CASE h = NoTerminal
      BY <1>2, <1>5, <1>8, <2>1 DEF HeldInv, Distinct, Positions
    <2>2. CASE h # NoTerminal
      <3>1. k <= FItemsInProcess
        BY <1>5, <1>8, <2>2 DEF HeldInv, Positions
      <3>2. QED
        BY <1>2, <1>5, <3>1 DEF Positions
    <2>3. QED
      BY <2>1, <2>2
  <1>9. \A g, h \in Hands : Carried(g)' = Carried(h)' /\ Carried(g)' # NoItem => g = h
    BY <1>3, <1>5 DEF HeldInv
  <1>10. QED
    BY <1>6, <1>7, <1>8, <1>9 DEF HeldInv

\* The item changes hands.
LEMMA PassesHeld ==
  ASSUME TypeOK, HeldInv, NEW t \in Terminals, Passes(t)
  PROVE  HeldInv'
  <1>1. \A h \in Hands : Carried(h)' = IF h = t THEN Carried(NoTerminal) ELSE IF h = NoTerminal THEN NoItem ELSE Carried(h)
    BY NullsAssumption DEF Passes, Hands
  <1>2. UNCHANGED <<FItems, FItemsInProcess, status>> /\ FDoneItems' \subseteq FDoneItems
    BY DEF Passes, SameList, SameDone
  <1>3. t \in Hands /\ NoTerminal \in Hands /\ t # NoTerminal
    BY NullsAssumption DEF Hands
  <1>4. /\ \A h \in Hands : Carried(h)' # NoItem => status[Carried(h)'] = "freed" \/ Contains(FItems, Carried(h)')
        /\ \A h \in Hands, k \in Positions(FItems) : FItems[k] = Carried(h)' => k <= FItemsInProcess
    <2>1. ASSUME NEW h \in Hands PROVE Carried(h)' = NoItem \/ (\E g \in Hands : Carried(h)' = Carried(g))
      BY <1>1, <1>3
    <2>2. \A k \in Positions(FItems) : FItems[k] # NoItem
      BY NullsAssumption DEF Positions, TypeOK, QueueTypeOK
    <2>3. QED
      BY <2>1, <2>2 DEF HeldInv
  <1>5. \A g, h \in Hands : Carried(g)' = Carried(h)' /\ Carried(g)' # NoItem => g = h
    BY <1>1, <1>3 DEF HeldInv
  <1>6. QED
    BY <1>2, <1>4, <1>5 DEF HeldInv, Distinct, Contains, Positions

\* A hand that lets go harms none of the others.
LEMMA DropsHeld ==
  ASSUME TypeOK, HeldInv, NEW t \in Terminals, Drops(t)
  PROVE  HeldInv'
  <1>1. \A h \in Hands : Carried(h)' = IF h = t THEN NoItem ELSE Carried(h)
    BY DEF Drops, SameBut
  <1>2. UNCHANGED <<FItems, FItemsInProcess, status>> /\ FDoneItems' \subseteq FDoneItems
    BY DEF Drops, SameList, SameDone
  <1>3. \A k \in Positions(FItems) : FItems[k] # NoItem
    BY NullsAssumption DEF Positions, TypeOK, QueueTypeOK
  <1>4. /\ \A h \in Hands : Carried(h)' # NoItem => status[Carried(h)'] = "freed" \/ Contains(FItems, Carried(h)')
        /\ \A h \in Hands, k \in Positions(FItems) : FItems[k] = Carried(h)' => k <= FItemsInProcess
        /\ \A g, h \in Hands : Carried(g)' = Carried(h)' /\ Carried(g)' # NoItem => g = h
    BY <1>1, <1>3 DEF HeldInv
  <1>5. QED
    BY <1>2, <1>4 DEF HeldInv, Distinct, Contains, Positions

\* A new item goes behind all others, in no hand.
LEMMA AddsHeld ==
  ASSUME TypeOK, HeldInv, NEW i \in Items, Adds(i)
  PROVE  HeldInv'
  <1>1. /\ FItems \in Seq(Items) /\ ~Contains(FItems, i) /\ FItems' = Append(FItems, i) /\ i \notin FDoneItems
        /\ UNCHANGED <<FItemsInProcess, FDoneItems>> /\ status' = [status EXCEPT ![i] = "pending"]
        /\ status \in [Items -> Statuses] /\ status[i] = "unborn"
        /\ \A h \in Hands : Carried(h)' = Carried(h) /\ Carried(h) \in Items \cup {NoItem}
    BY CarriedType DEF Adds, HeldInv, SameHands, TypeOK, QueueTypeOK, ItemTypeOK
  <1>2. \A h \in Hands : Carried(h) # i
    BY <1>1, NullsAssumption DEF HeldInv
  <1>3. Distinct(FItems') /\ \A x : Contains(FItems', x) <=> Contains(FItems, x) \/ x = i
    BY <1>1, AppendElements DEF HeldInv
  <1>4. \A h \in Hands, k \in Positions(FItems') : FItems'[k] = Carried(h) => k <= FItemsInProcess
    <2>1. ASSUME NEW h \in Hands, NEW k \in Positions(FItems'), FItems'[k] = Carried(h) PROVE k <= FItemsInProcess
      <3>1. k \in Positions(FItems) /\ FItems[k] = Carried(h)
        BY <1>1, <1>2, <2>1, AppendFacts DEF Positions
      <3>2. QED
        BY <3>1 DEF HeldInv
    <2>2. QED
      BY <2>1
  <1>5. \A j \in Items : status'[j] = IF j = i THEN "pending" ELSE status[j]
    BY <1>1
  <1>6. /\ \A j \in Items : status'[j] = "unborn" => ~Contains(FItems', j) /\ j \notin FDoneItems'
        /\ \A h \in Hands : Carried(h) # NoItem => status'[Carried(h)] = "freed" \/ Contains(FItems', Carried(h))
    BY <1>1, <1>2, <1>3, <1>5 DEF HeldInv
  <1>7. QED
    BY <1>1, <1>3, <1>4, <1>6 DEF HeldInv

\* A transfer ordered to be executed now goes behind the ones in hand.
LEMMA PromotesHeld ==
  ASSUME TypeOK, PoolInvariant, HeldInv, NEW i \in Items, Promotes(i)
  PROVE  HeldInv'
  <1> DEFINE p == IndexOf(FItems, i)
             d == FItemsInProcess + 1
  <1>1. /\ FItems \in Seq(Items) /\ FItemsInProcess \in Nat /\ p \in Positions(FItems) /\ p > FItemsInProcess
        /\ FItems' = Move(FItems, p, d) /\ UNCHANGED <<FItemsInProcess, FDoneItems, status>>
        /\ \A h \in Hands : Carried(h)' = Carried(h)
    BY CountFacts, IndexOfFacts DEF Promotes, SameHands, TypeOK, QueueTypeOK
  <1> HIDE DEF p
  <1>2. d \in Positions(FItems)
    BY <1>1 DEF Positions
  <1>3. Distinct(FItems') /\ \A x : Contains(FItems', x) <=> Contains(FItems, x)
    BY <1>1, <1>2, MoveElements DEF HeldInv
  <1>4. \A h \in Hands, k \in Positions(FItems') : FItems'[k] = Carried(h) => k <= FItemsInProcess
    <2>1. ASSUME NEW h \in Hands, NEW k \in Positions(FItems'), FItems'[k] = Carried(h), k > FItemsInProcess PROVE FALSE
      <3>1. k \in Positions(FItems)
        BY <1>1, <1>2, MoveFacts DEF Positions
      <3>2. PICK j \in Positions(FItems) : j > FItemsInProcess /\ FItems'[k] = FItems[j]
        <4>1. FItems'[k] = IF k = d THEN FItems[p] ELSE IF p <= k /\ k < d THEN FItems[k + 1]
                           ELSE IF d < k /\ k <= p THEN FItems[k - 1] ELSE FItems[k]
          BY <1>1, <1>2, <3>1, MoveFacts
        <4>2. CASE k = d
          BY <1>1, <4>1, <4>2
        <4>3. CASE d < k /\ k <= p
          BY <1>1, <2>1, <3>1, <4>1, <4>3 DEF Positions
        <4>4. CASE d < k /\ p < k
          BY <1>1, <2>1, <3>1, <4>1, <4>4 DEF Positions
        <4>5. QED
          BY <1>1, <2>1, <3>1, <4>2, <4>3, <4>4 DEF Positions
      <3>3. FItems[j] = Carried(h)
        BY <2>1, <3>2
      <3>4. j <= FItemsInProcess
        BY <3>2, <3>3 DEF HeldInv
      <3>5. QED
        BY <1>1, <3>2, <3>4 DEF Positions
    <2>2. QED
      BY <1>1, <2>1, MoveFacts, <1>2 DEF Positions
  <1>5. QED
    BY <1>1, <1>3, <1>4 DEF HeldInv

\* An item in hand leaves the list, and the hand.
LEMMA RetiresHeld ==
  ASSUME TypeOK, PoolInvariant, HeldInv, NEW t \in Terminals, Retires(t)
  PROVE  HeldInv'
  <1> DEFINE p == IndexOf(FItems, Carried(t))
  <1>1. /\ Carried(t) \in Items /\ Contains(FItems, Carried(t)) /\ FItems \in Seq(Items) /\ t \in Hands
        /\ FItems' = DeleteAt(FItems, p) /\ FItemsInProcess' = FItemsInProcess - 1
        /\ FDoneItems' \subseteq FDoneItems \cup {Carried(t)} /\ StatusMoves
        /\ \A h \in Hands : Carried(h)' = (IF h = t THEN NoItem ELSE Carried(h)) /\ Carried(h) \in Items \cup {NoItem}
    BY NullsAssumption, CarriedType DEF Retires, HeldInv, Hands, SameBut, Remove, TypeOK,
       QueueTypeOK
  <1>2. p \in Positions(FItems) /\ FItems[p] = Carried(t) /\ p <= FItemsInProcess /\ FItemsInProcess \in Nat
    BY <1>1, IndexOfFacts, CountFacts DEF HeldInv
  <1> HIDE DEF p
  <1>3. Distinct(FItems') /\ \A x : Contains(FItems', x) <=> Contains(FItems, x) /\ x # Carried(t)
    BY <1>1, <1>2, DeleteAtElements DEF HeldInv
  <1>4. \A h \in Hands, k \in Positions(FItems') : FItems'[k] = Carried(h)' => k <= FItemsInProcess'
    <2>1. ASSUME NEW h \in Hands, NEW k \in Positions(FItems'), FItems'[k] = Carried(h)' PROVE k <= FItemsInProcess - 1
      <3>0. k \in 1..(Len(FItems) - 1) /\ FItems'[k] = IF k < p THEN FItems[k] ELSE FItems[k + 1]
        BY <1>1, <1>2, <2>1, DeleteAtFacts DEF Positions
      <3>1. k \in 1..(Len(FItems) - 1) /\ Carried(h)' = (IF k < p THEN FItems[k] ELSE FItems[k + 1]) /\ Carried(h)' \in Items
        BY <1>1, <2>1, <3>0
      <3>2. Carried(h)' = Carried(h)
        BY <1>1, <2>1, <3>1, NullsAssumption
      <3>3. CASE k < p
        BY <1>2, <3>1, <3>3 DEF Positions
      <3>4. CASE ~(k < p)
        <4>1. k + 1 \in Positions(FItems) /\ FItems[k + 1] = Carried(h)
          BY <1>1, <3>1, <3>2, <3>4 DEF Positions
        <4>2. k + 1 <= FItemsInProcess
          BY <4>1 DEF HeldInv
        <4>3. QED
          BY <1>2, <3>1, <4>2
      <3>5. QED
        BY <3>3, <3>4
    <2>2. QED
      BY <1>1, <2>1
  <1>5. /\ \A h \in Hands : Carried(h)' # NoItem => status'[Carried(h)'] = "freed" \/ Contains(FItems', Carried(h)')
        /\ \A g, h \in Hands : Carried(g)' = Carried(h)' /\ Carried(g)' # NoItem => g = h
    BY <1>1, <1>3 DEF HeldInv, StatusMoves
  <1>6. \A j \in Items : status'[j] = "unborn" => ~Contains(FItems', j) /\ j \notin FDoneItems'
    BY <1>1, <1>3 DEF HeldInv, StatusMoves
  <1>7. QED
    BY <1>3, <1>4, <1>5, <1>6 DEF HeldInv

\* An item in hand goes to the end of the list, and out of the hand.
LEMMA RetriesHeld ==
  ASSUME TypeOK, PoolInvariant, HeldInv, NEW t \in Terminals, Retries(t)
  PROVE  HeldInv'
  <1> DEFINE p == IndexOf(FItems, Carried(t))
             m == DeleteAt(FItems, p)
  <1>1. /\ Carried(t) \in Items /\ Contains(FItems, Carried(t)) /\ FItems \in Seq(Items) /\ t \in Hands
        /\ FItems' = Append(m, Carried(t)) /\ FItemsInProcess' = FItemsInProcess - 1
        /\ UNCHANGED <<FDoneItems, status>>
        /\ \A h \in Hands : Carried(h)' = (IF h = t THEN NoItem ELSE Carried(h)) /\ Carried(h) \in Items \cup {NoItem}
    BY NullsAssumption, CarriedType DEF Retries, Requeued, HeldInv, Hands, SameBut, Remove,
       TypeOK, QueueTypeOK
  <1>2. p \in Positions(FItems) /\ FItems[p] = Carried(t) /\ p <= FItemsInProcess /\ FItemsInProcess \in Nat
    BY <1>1, IndexOfFacts, CountFacts DEF HeldInv
  <1>3. Distinct(m) /\ m \in Seq(Items) /\ \A x : Contains(m, x) <=> Contains(FItems, x) /\ x # Carried(t)
    BY <1>1, <1>2, DeleteAtElements, DeleteAtFacts DEF HeldInv
  <1>4. \A k \in Positions(m) : k \in 1..(Len(FItems) - 1) /\ m[k] = IF k < p THEN FItems[k] ELSE FItems[k + 1]
    BY <1>1, <1>2, DeleteAtFacts DEF Positions
  <1> HIDE DEF p, m
  <1>5. Distinct(FItems') /\ \A x : Contains(FItems', x) <=> Contains(FItems, x)
    BY <1>1, <1>3, AppendElements
  <1>6. \A h \in Hands, k \in Positions(FItems') : FItems'[k] = Carried(h)' => k <= FItemsInProcess'
    <2>1. ASSUME NEW h \in Hands, NEW k \in Positions(FItems'), FItems'[k] = Carried(h)' PROVE k <= FItemsInProcess - 1
      <3>1. FItems'[k] \in Items /\ ((k \in Positions(m) /\ FItems'[k] = m[k]) \/ FItems'[k] = Carried(t))
        BY <1>1, <1>3, <2>1, AppendFacts DEF Positions
      <3>2. h # t /\ Carried(h)' = Carried(h) /\ Carried(h) # Carried(t)
        BY <1>1, <2>1, <3>1, NullsAssumption DEF HeldInv
      <3>3. k \in 1..(Len(FItems) - 1) /\ Carried(h) = IF k < p THEN FItems[k] ELSE FItems[k + 1]
        BY <1>4, <2>1, <3>1, <3>2
      <3>4. CASE k < p
        BY <1>2, <3>3, <3>4 DEF Positions
      <3>5. CASE ~(k < p)
        <4>1. k + 1 \in Positions(FItems) /\ FItems[k + 1] = Carried(h)
          BY <1>1, <3>3, <3>5 DEF Positions
        <4>2. k + 1 <= FItemsInProcess
          BY <4>1 DEF HeldInv
        <4>3. QED
          BY <1>2, <3>3, <4>2
      <3>6. QED
        BY <3>4, <3>5
    <2>2. QED
      BY <1>1, <2>1
  <1>7. /\ \A h \in Hands : Carried(h)' # NoItem => status'[Carried(h)'] = "freed" \/ Contains(FItems', Carried(h)')
        /\ \A g, h \in Hands : Carried(g)' = Carried(h)' /\ Carried(g)' # NoItem => g = h
        /\ \A j \in Items : status'[j] = "unborn" => ~Contains(FItems', j) /\ j \notin FDoneItems'
    BY <1>1, <1>5 DEF HeldInv
  <1>8. QED
    BY <1>5, <1>6, <1>7 DEF HeldInv

\* An item the user deletes is freed, in hand or not.
LEMMA DeletesHeld ==
  ASSUME TypeOK, HeldInv, NEW i \in Items, Deletes(i)
  PROVE  HeldInv'
  <1> DEFINE p == IndexOf(FItems, i)
  <1>1. /\ FItems \in Seq(Items) /\ p \in Positions(FItems) /\ FItems[p] = i
        /\ FItems' = DeleteAt(FItems, p) /\ UNCHANGED <<FItemsInProcess, FDoneItems>>
        /\ FItemsInProcess \in Int
        /\ \A j \in Items : status'[j] = IF j = i THEN "freed" ELSE status[j]
        /\ \A h \in Hands : Carried(h)' = Carried(h) /\ Carried(h) \in Items \cup {NoItem}
    BY IndexOfFacts, CarriedType DEF Deletes, SameHands, TypeOK, QueueTypeOK, ItemTypeOK
  <1> HIDE DEF p
  <1>2. Distinct(FItems') /\ \A x : Contains(FItems', x) <=> Contains(FItems, x) /\ x # i
    BY <1>1, DeleteAtElements DEF HeldInv
  <1>3. \A h \in Hands, k \in Positions(FItems') : FItems'[k] = Carried(h) => k <= FItemsInProcess
    <2>1. ASSUME NEW h \in Hands, NEW k \in Positions(FItems'), FItems'[k] = Carried(h) PROVE k <= FItemsInProcess
      <3>1. k \in 1..(Len(FItems) - 1) /\ FItems'[k] = IF k < p THEN FItems[k] ELSE FItems[k + 1]
        BY <1>1, <2>1, DeleteAtFacts DEF Positions
      <3>2. k \in Positions(FItems) /\ k + 1 \in Positions(FItems) /\ k \in Int
        BY <1>1, <3>1 DEF Positions
      <3>3. k <= FItemsInProcess \/ k + 1 <= FItemsInProcess
        BY <2>1, <3>1, <3>2 DEF HeldInv
      <3>4. QED
        BY <1>1, <3>2, <3>3
    <2>2. QED
      BY <2>1
  <1>4. QED
    BY <1>1, <1>2, <1>3 DEF HeldInv

\* The destructor frees what is left in the list.
LEMMA EmptiesHeld ==
  ASSUME TypeOK, HeldInv, Empties
  PROVE  HeldInv'
  <1>1. \A h \in Hands : Carried(h)' = Carried(h) /\ Carried(h) \in Items \cup {NoItem}
    BY CarriedType DEF Empties, SameHands
  <1>2. Positions(FItems') = {} /\ \A x : ~Contains(FItems', x)
    BY DEF Empties, Positions, Contains
  <1>3. \A h \in Hands : Carried(h) # NoItem => status'[Carried(h)] = "freed"
    BY <1>1 DEF Empties, HeldInv, StatusMoves
  <1>4. QED
    BY <1>1, <1>2, <1>3 DEF HeldInv, Empties, Distinct

\* Every shape keeps the invariant.
LEMMA HeldStep ==
  ASSUME TypeOK, PoolInvariant, HeldInv, Shape
  PROVE  HeldInv'
  BY RestsHeld, TakesHeld, PassesHeld, DropsHeld, AddsHeld, PromotesHeld, RetiresHeld,
     RetriesHeld, DeletesHeld,
     EmptiesHeld DEF Shape

\* In the beginning all hands are empty.
LEMMA InitCarry == Init => CarryInv
  <1> SUFFICES ASSUME Init PROVE CarryInv
    OBVIOUS
  <1>1. \A h \in Hands : Carried(h) = NoItem
    BY DEF Init, Carried, Hands
  <1>2. FItems = << >> /\ FDoneItems = {} /\ Positions(FItems) = {}
    BY DEF Init, Positions
  <1>3. QED
    BY <1>1, <1>2 DEF CarryInv, Contains, Distinct, Init

\* Every step has a shape and keeps the invariant.
LEMMA CarryStep ==
  ASSUME "move" \notin Operations, IInv, CarryInv, [Next]_vars
  PROVE  CarryInv' /\ Shape
  <1>1. Shape
    BY StepShape, StutterShape DEF IInv
  <1>2. HeldInv'
    BY <1>1, HeldCarry, HeldStep DEF IInv
  <1>3. qpc' # "assign" => qItem' = NoItem
    BY QueueHandStep DEF CarryInv, vars, threadVars
  <1>4. QED
    BY <1>1, <1>2, <1>3 DEF CarryInv, HeldInv

----------------------------------------------------------------------------
(* Completion events                                                       *)

\* Every shape keeps the events in step with the list.
LEMMA CompletionStep ==
  ASSUME TypeOK, PoolInvariant, HeldInv, EventsTrackList, Shape
  PROVE  EventsTrackList'
  <1> USE DEF EventsTrackList
  <1>1. CASE Rests \/ Takes \/ (\E t \in Terminals : Passes(t) \/ Drops(t))
    <2>1. FItems' = FItems /\ FCompleteEvent' = FCompleteEvent
      BY <1>1 DEF Rests, Takes, Passes, Drops, SameList, SameEnd
    <2>2. QED
      BY <2>1
  <1>2. ASSUME NEW i \in Items, Adds(i) PROVE EventsTrackList'
    <2>1. \A x : Contains(FItems', x) <=> Contains(FItems, x) \/ x = i
      BY <1>2, AppendElements DEF Adds, TypeOK, QueueTypeOK
    <2>2. QED
      BY <1>2, <2>1 DEF Adds
  <1>3. ASSUME NEW i \in Items, Promotes(i) PROVE EventsTrackList'
    <2>1. /\ FItems \in Seq(Items) /\ IndexOf(FItems, i) \in Positions(FItems) /\ IndexOf(FItems, i) > FItemsInProcess
          /\ FItems' = Move(FItems, IndexOf(FItems, i), FItemsInProcess + 1) /\ FCompleteEvent' = FCompleteEvent
      BY <1>3, IndexOfFacts DEF Promotes, TypeOK, QueueTypeOK
    <2>2. FItemsInProcess + 1 \in Positions(FItems)
      BY <2>1, CountFacts DEF Positions, TypeOK, QueueTypeOK
    <2>3. \A x : Contains(FItems', x) <=> Contains(FItems, x)
      BY <2>1, <2>2, MoveElements
    <2>4. QED
      BY <2>1, <2>3
  <1>4. ASSUME NEW t \in Terminals, Retries(t) PROVE EventsTrackList'
    <2>1. /\ Carried(t) \in Items /\ Contains(FItems, Carried(t)) /\ FItems \in Seq(Items)
          /\ FItems' = Append(DeleteAt(FItems, IndexOf(FItems, Carried(t))), Carried(t))
          /\ FCompleteEvent' = FCompleteEvent
      BY <1>4, NullsAssumption DEF Retries, Requeued, Remove, HeldInv, Hands, TypeOK, QueueTypeOK
    <2>2. /\ IndexOf(FItems, Carried(t)) \in Positions(FItems)
          /\ FItems[IndexOf(FItems, Carried(t))] = Carried(t)
      BY <2>1, IndexOfFacts
    <2>3. \A x : Contains(FItems', x) <=> Contains(FItems, x)
      BY <2>1, <2>2, DeleteAtElements, DeleteAtFacts, AppendElements DEF HeldInv
    <2>4. QED
      BY <2>1, <2>3
  <1>5. ASSUME NEW i \in Items, Contains(FItems, i), FItems' = DeleteAt(FItems, IndexOf(FItems, i)),
               FCompleteEvent' = [FCompleteEvent EXCEPT ![i] = Completed(i)]
        PROVE  EventsTrackList'
    <2>1. IndexOf(FItems, i) \in Positions(FItems) /\ FItems[IndexOf(FItems, i)] = i
      BY <1>5, IndexOfFacts
    <2>2. \A x : Contains(FItems', x) <=> Contains(FItems, x) /\ x # i
      BY <1>5, <2>1, DeleteAtElements DEF HeldInv, TypeOK, QueueTypeOK
    <2>3. QED
      BY <1>5, <2>2 DEF Completed, TypeOK, ItemTypeOK
  <1>6. ASSUME NEW t \in Terminals, Retires(t) PROVE EventsTrackList'
    <2>1. Carried(t) \in Items /\ Contains(FItems, Carried(t))
      BY <1>6, NullsAssumption DEF Retires, HeldInv, Hands
    <2>2. QED
      BY <1>5, <1>6, <2>1 DEF Retires, Remove
  <1>7. ASSUME NEW i \in Items, Deletes(i) PROVE EventsTrackList'
    BY <1>5, <1>7 DEF Deletes
  <1>8. CASE Empties
    <2>1. \A x : ~Contains(FItems', x)
      BY <1>8 DEF Empties, Contains, Positions
    <2>2. QED
      BY <1>8, <2>1 DEF Empties, Completed, TypeOK, ItemTypeOK
  <1>9. QED
    BY <1>1, <1>2, <1>3, <1>4, <1>6, <1>7, <1>8 DEF Shape

\* TTerminalQueue and TQueueItem::Complete: whoever waits for a transfer's event
\* hears of it when, and only when, the transfer leaves the queue, for any number
\* of items and workers and whatever the user, the connections and the destructor
\* do.  The one operation left out is ItemMove, which may take an item in hand
\* beyond the ones counted, so that it is taken on twice; without it even the
\* events of EventsTrackList, which excepts no transfer, track the list.
THEOREM CompletionSound ==
  "move" \notin Operations => (Spec => [](EventsTrackList /\ CompletionTracksList))
  <1> SUFFICES ASSUME "move" \notin Operations
               PROVE  Spec => [](EventsTrackList /\ CompletionTracksList)
    OBVIOUS
  <1>1. Init => CarryInv /\ EventsTrackList
    <2>1. Init => EventsTrackList
      BY DEF Init, EventsTrackList
    <2>2. QED
      BY <2>1, InitCarry
  <1>2. IInv /\ CarryInv /\ EventsTrackList /\ [Next]_vars => (CarryInv /\ EventsTrackList)'
    BY CarryStep, HeldCarry, CompletionStep DEF IInv
  <1>3. EventsTrackList => CompletionTracksList
    BY DEF CompletionTracksList
  <1>4. QED
    BY <1>1, <1>2, <1>3, Invariance, PTL DEF Spec

----------------------------------------------------------------------------
(* The number of workers                                                   *)

\* Every worker beyond the limit is covered by a temporary one granted: Hire and
\* TerminalFinished keep the account as long as the limit stays what it is.
LEMMA LimitStep ==
  ASSUME "limit" \notin Operations, TypeOK, PoolInvariant, WorkersWithinLimit, [Next]_vars
  PROVE  WorkersWithinLimit'
  <1> USE DEF queueVars, settingVars, itemVars, terminalVars, threadVars, UiKeeps
  <1>0. /\ FTransfersLimit \in Int /\ FTemporaryTerminals \in Nat /\ FTerminals \in Seq(Terminals) /\ Len(FTerminals) \in Nat
    BY DEF TypeOK, QueueTypeOK, SettingTypeOK
  <1>1. ASSUME FTransfersLimit' = FTransfersLimit,
               \/ FTemporaryTerminals' = FTemporaryTerminals
               \/ FTemporaryTerminals' = FTemporaryTerminals + 1,
               FTerminals' = FTerminals \/ (\E k, d \in Positions(FTerminals) : FTerminals' = Move(FTerminals, k, d))
        PROVE  WorkersWithinLimit'
    <2>1. Len(FTerminals') = Len(FTerminals)
      BY <1>0, <1>1, MoveFacts
    <2>2. QED
      BY <1>0, <1>1, <2>1 DEF WorkersWithinLimit
  <1>2. ASSUME NEW t \in Terminals, Contains(FTerminals, t), TerminalFree(t), UNCHANGED <<FTransfersLimit, FTemporaryTerminals>>
        PROVE  WorkersWithinLimit'
    <2>1. IndexOf(FTerminals, t) \in Positions(FTerminals) /\ 1 \in Positions(FTerminals)
      BY <1>0, <1>2, IndexOfFacts DEF Positions
    <2>2. QED
      BY <1>1, <1>2, <2>1 DEF TerminalFree
  <1>3. CASE QueueThread
    <2>1. ASSUME NEW t \in Terminals, Hire(t), ProcessEvent PROVE WorkersWithinLimit'
      <3>1. Len(FTerminals') = Len(FTerminals) + 1 /\ UNCHANGED <<FTransfersLimit, FTemporaryTerminals>> /\ MayHire
        BY <1>0, <2>1, AppendFacts DEF Hire, ProcessEvent
      <3>2. QED
        BY <1>0, <3>1 DEF MayHire, WorkersWithinLimit
    <2>2. CASE ProcessEvent /\ Reuse
      <3>1. 1 \in Positions(FTerminals) /\ Len(FTerminals) \in Positions(FTerminals)
        BY <1>0, <2>2 DEF Reuse, ProcessEvent, PoolInvariant, FreeTerminalsAreIdle, CloseInv,
           Closing, Positions
      <3>2. QED
        BY <1>1, <2>2, <3>1 DEF Reuse, ProcessEvent
    <2>3. CASE ProcessEvent /\ NothingToStart
      BY <1>1, <2>3 DEF ProcessEvent, NothingToStart
    <2>4. QED
      BY <1>1, <1>3, <2>1, <2>2, <2>3 DEF QueueThread, ProcessEvent, Process, QueueThreadEnds
  <1>4. ASSUME NEW t \in Terminals, Worker(t) PROVE WorkersWithinLimit'
    <2>1. CASE Free(t)
      <3>1. Contains(FTerminals, t) \/ (uipc = "joining" /\ t = uiTerminal)
        BY <2>1 DEF Free, PoolInvariant, ListInv
      <3>2. CASE Contains(FTerminals, t)
        BY <1>2, <2>1, <3>2 DEF Free
      <3>3. CASE uipc = "joining"
        \* FItemsSection is held: only a terminal without connection gets here.
        <4>1. UNCHANGED <<FTransfersLimit, FTemporaryTerminals, FTerminals>>
          BY <2>1, <3>3 DEF Free, ItemsSectionFree, TerminalFree
        <4>2. QED
          BY <1>1, <4>1
      <3>4. QED
        BY <3>1, <3>2, <3>3
    <2>2. CASE TerminalFinished(t)
      <3>1. IndexOf(FTerminals, t) \in Positions(FTerminals)
        BY <2>2, IndexOfFacts DEF TerminalFinished, Ends, ItemsSectionFree, PoolInvariant, ListInv
      <3>2. Len(FTerminals') = Len(FTerminals) - 1
        BY <1>0, <2>2, <3>1, DeleteAtFacts DEF TerminalFinished, Extracted
      <3>3. QED
        BY <1>0, <2>2, <3>1, <3>2 DEF TerminalFinished, WorkersWithinLimit, Positions
    <2>3. CASE ~Free(t) /\ ~TerminalFinished(t)
      <3>1. UNCHANGED <<FTransfersLimit, FTemporaryTerminals, FTerminals>>
        BY <1>4, <2>3 DEF Worker, Begin, Opened, StartTransfer, OpenFails, Cancelled,
           TransferEnds, ConnectionLost, Detach,
           UsesFreedItem, RetryItem, DeleteItem, SkipsRetire, SkipsFree, SkipsFinished
      <3>2. QED
        BY <3>1 DEF WorkersWithinLimit
    <2>4. QED
      BY <2>1, <2>2, <2>3
  <1>5. CASE UserInterface
    <2>1. CASE Idle
      <3>1. FFreeTerminals \in Positions(FTerminals) /\ Len(FTerminals) \in Positions(FTerminals)
        BY <1>0, <2>1 DEF Idle, Ui, PoolInvariant, FreeTerminalsAreIdle, Closing, Positions
      <3>2. QED
        BY <1>1, <2>1, <3>1 DEF Idle
    <2>2. CASE TerminalIdle
      <3>1. PICK t \in Terminals : t = uiTerminal /\ Contains(FTerminals, t)
        BY <2>2 DEF TerminalIdle, PoolInvariant, HandsInv, IdleTerminal, ListInv
      <3>2. QED
        BY <1>1, <1>2, <2>2, <3>1 DEF TerminalIdle
    <2>3. CASE TerminateFirst
      <3>1. Len(FTerminals') = Len(FTerminals) - 1 /\ UNCHANGED <<FTransfersLimit, FTemporaryTerminals>>
        BY <1>0, <2>3 DEF TerminateFirst
      <3>2. QED
        BY <1>0, <3>1 DEF WorkersWithinLimit
    <2>4. CASE ~Idle /\ ~TerminalIdle /\ ~TerminateFirst
      <3>1. ASSUME NEW value \in Limits, SetTransfersLimit(value) PROVE FALSE
        BY <3>1 DEF SetTransfersLimit, Ui
      <3>2. /\ FTransfersLimit' = FTransfersLimit /\ FTerminals' = FTerminals
            /\ FTemporaryTerminals' = FTemporaryTerminals \/ FTemporaryTerminals' = FTemporaryTerminals + 1
        BY <1>5, <2>4, <3>1 DEF UserInterface, AddItem, ItemExecuteNow, ItemDelete, DeletePending,
           CancelTransfer, DeleteDone,
           ItemMove, SetKeepDoneItemsFor, SetEnabled, Close, Destructor, EnterItemsSection, DeleteTerminal, FreeItems
      <3>3. QED
        BY <1>1, <3>2
    <2>5. QED
      BY <2>1, <2>2, <2>3, <2>4
  <1>6. CASE UNCHANGED vars
    BY <1>1, <1>6 DEF vars
  <1>7. QED
    BY <1>3, <1>4, <1>5, <1>6 DEF Next

\* TTerminalQueue::ProcessEvent never starts more workers than FTransfersLimit and
\* the FTemporaryTerminals granted by ItemExecuteNow, for every limit the
\* queue is created with, unless the user changes the limit meanwhile.
THEOREM WorkersLimited == "limit" \notin Operations => (Spec => []WorkersWithinLimit)
  <1> SUFFICES ASSUME "limit" \notin Operations PROVE Spec => []WorkersWithinLimit
    OBVIOUS
  <1>1. Init => WorkersWithinLimit
    BY LimitAssumption DEF Init, WorkersWithinLimit
  <1>2. IInv /\ WorkersWithinLimit /\ [Next]_vars => WorkersWithinLimit'
    BY LimitStep DEF IInv
  <1>3. QED
    BY <1>1, <1>2, Invariance, PTL DEF Spec

----------------------------------------------------------------------------
(* The items in process are the first of the list                          *)

\* Until the queue is closing every one of the first FItemsInProcess is in some
\* hand, and nothing in hand has left the list.
PrefixInv ==
  ~FTerminated =>
    /\ FItemsInProcess <= Len(FItems)
    /\ \A k \in 1..FItemsInProcess : \E h \in Hands : Carried(h) = FItems[k]
    /\ \A h \in Hands : Carried(h) # NoItem => Contains(FItems, Carried(h))

\* FTerminated is set once.
LEMMA TerminatedStays ==
  ASSUME [Next]_vars
  PROVE  /\ FTerminated' \in {FTerminated, TRUE}
         /\ "close" \notin Operations => FTerminated' = FTerminated
  <1> USE DEF queueVars, settingVars, itemVars, terminalVars, threadVars, UiKeeps
  <1>1. CASE QueueThread
    BY <1>1 DEF QueueThread, ProcessEvent, Process, QueueThreadEnds
  <1>2. ASSUME NEW t \in Terminals, Worker(t) PROVE FTerminated' = FTerminated
    BY <1>2 DEF Worker, Begin, Opened, StartTransfer, OpenFails, Cancelled, TransferEnds,
       ConnectionLost, Detach,
       UsesFreedItem, RetryItem, DeleteItem, SkipsRetire, Free, SkipsFree, TerminalFinished, SkipsFinished
  <1>3. CASE UserInterface
    BY <1>3 DEF UserInterface, AddItem, ItemExecuteNow, ItemDelete, DeletePending, CancelTransfer,
       DeleteDone,
       ItemMove, Idle, TerminalIdle, SetTransfersLimit, SetKeepDoneItemsFor, SetEnabled, Close, Ui, Destructor,
       EnterItemsSection, TerminateFirst, DeleteTerminal, FreeItems
  <1>4. CASE UNCHANGED vars
    BY <1>4 DEF vars
  <1>5. QED
    BY <1>1, <1>2, <1>3, <1>4 DEF Next

\* What is left of the list when an item in hand leaves it: one less in front,
\* and behind them what was there.
LEMMA LeavesPrefix ==
  ASSUME TypeOK, PoolInvariant, HeldInv, NEW t \in Terminals, Carried(t) \in Items, Contains(FItems, Carried(t))
  PROVE  LET p == IndexOf(FItems, Carried(t)) IN
         /\ FItems \in Seq(Items) /\ Len(FItems) \in Nat /\ FItemsInProcess \in Nat
         /\ p \in Positions(FItems) /\ FItems[p] = Carried(t) /\ p <= FItemsInProcess
         /\ DeleteAt(FItems, p) \in Seq(Items) /\ Len(DeleteAt(FItems, p)) = Len(FItems) - 1
         /\ \A k \in 1..(Len(FItems) - 1) : DeleteAt(FItems, p)[k] = IF k < p THEN FItems[k] ELSE FItems[k + 1]
         /\ \A x : Contains(DeleteAt(FItems, p), x) <=> Contains(FItems, x) /\ x # Carried(t)
  <1> DEFINE p == IndexOf(FItems, Carried(t))
  <1>1. FItems \in Seq(Items) /\ Len(FItems) \in Nat /\ FItemsInProcess \in Nat /\ t \in Hands
    BY CountFacts DEF TypeOK, QueueTypeOK, Hands
  <1>2. p \in Positions(FItems) /\ FItems[p] = Carried(t)
    BY IndexOfFacts
  <1> HIDE DEF p
  <1>3. p <= FItemsInProcess
    BY <1>1, <1>2 DEF HeldInv
  <1>4. /\ DeleteAt(FItems, p) \in Seq(Items) /\ Len(DeleteAt(FItems, p)) = Len(FItems) - 1
        /\ \A k \in 1..(Len(FItems) - 1) : DeleteAt(FItems, p)[k] = IF k < p THEN FItems[k] ELSE FItems[k + 1]
        /\ \A x : Contains(DeleteAt(FItems, p), x) <=> Contains(FItems, x) /\ x # Carried(t)
    BY <1>1, <1>2, DeleteAtFacts, DeleteAtElements DEF HeldInv
  <1>5. QED
    BY <1>1, <1>2, <1>3, <1>4 DEF p

\* Every shape keeps the first FItemsInProcess in hand.
LEMMA PrefixStep ==
  ASSUME "delete" \notin Operations, TypeOK, PoolInvariant, HeldInv, PrefixInv, Shape, FTerminated' \in {FTerminated, TRUE}
  PROVE  PrefixInv'
  <1> SUFFICES ASSUME ~FTerminated'
               PROVE  /\ FItemsInProcess' <= Len(FItems')
                      /\ \A k \in 1..FItemsInProcess' : \E h \in Hands : Carried(h)' = FItems'[k]
                      /\ \A h \in Hands : Carried(h)' # NoItem => Contains(FItems', Carried(h)')
    BY DEF PrefixInv
  <1>0. /\ ~FTerminated /\ FItems \in Seq(Items) /\ Len(FItems) \in Nat /\ FItemsInProcess \in Nat
        /\ FItemsInProcess <= Len(FItems)
        /\ \A k \in 1..FItemsInProcess : \E h \in Hands : Carried(h) = FItems[k]
        /\ \A h \in Hands : Carried(h) # NoItem => Contains(FItems, Carried(h))
    <2>1. FItems \in Seq(Items) /\ Len(FItems) \in Nat /\ FItemsInProcess \in Nat
      BY CountFacts DEF TypeOK, QueueTypeOK
    <2>2. ~FTerminated
      OBVIOUS
    <2>3. QED
      BY <2>1, <2>2 DEF PrefixInv
  <1> DEFINE Front == \A k \in 1..FItemsInProcess' : \E h \in Hands : Carried(h)' = FItems'[k]
             Listed == \A h \in Hands : Carried(h)' # NoItem => Contains(FItems', Carried(h)')
  <1>1. CASE Rests
    BY <1>0, <1>1 DEF Rests, SameHands, SameList
  <1>2. CASE Takes
    <2>1. /\ FItems' = FItems /\ FItemsInProcess' = FItemsInProcess + 1 /\ FItemsInProcess < Len(FItems)
          /\ \A h \in Hands : Carried(h)' = IF h = NoTerminal THEN NextItem ELSE Carried(h)
          /\ Carried(NoTerminal) = NoItem /\ NoTerminal \in Hands /\ NextItem = FItems[FItemsInProcess + 1]
      BY <1>0, <1>2 DEF Takes, SameBut, HasNext, NextItem, Hands
    <2>2. Contains(FItems, NextItem)
      BY <1>0, <2>1 DEF Contains, Positions
    <2>3. Listed
      BY <1>0, <2>1, <2>2
    <2>4. ASSUME NEW k \in 1..(FItemsInProcess + 1) PROVE \E h \in Hands : Carried(h)' = FItems[k]
      <3>1. CASE k = FItemsInProcess + 1
        BY <2>1, <3>1
      <3>2. CASE k # FItemsInProcess + 1
        <4>1. k \in 1..FItemsInProcess /\ FItems[k] \in Items
          BY <1>0, <3>2
        <4>2. PICK h \in Hands : Carried(h) = FItems[k]
          BY <1>0, <4>1
        <4>3. QED
          BY <2>1, <4>1, <4>2, NullsAssumption
      <3>3. QED
        BY <3>1, <3>2
    <2>5. Front
      BY <2>1, <2>4
    <2>6. QED
      BY <1>0, <2>1, <2>3, <2>5
  <1>3. ASSUME NEW t \in Terminals, Passes(t) PROVE FItemsInProcess' <= Len(FItems') /\ Front /\ Listed
    <2>1. /\ FItems' = FItems /\ FItemsInProcess' = FItemsInProcess /\ Carried(t) = NoItem
          /\ \A h \in Hands : Carried(h)' = IF h = t THEN Carried(NoTerminal) ELSE IF h = NoTerminal THEN NoItem ELSE Carried(h)
          /\ t \in Hands /\ NoTerminal \in Hands
      BY <1>3, NullsAssumption DEF Passes, SameList, Hands
    <2>2. \A k \in 1..FItemsInProcess : FItems[k] # NoItem
      BY <1>0, NullsAssumption
    <2>3. Front
      <3>1. ASSUME NEW k \in 1..FItemsInProcess PROVE \E h \in Hands : Carried(h)' = FItems[k]
        <4>1. PICK h \in Hands : Carried(h) = FItems[k]
          BY <1>0
        <4>2. CASE h = NoTerminal
          BY <2>1, <4>1, <4>2
        <4>3. CASE h # NoTerminal
          BY <2>1, <2>2, <4>1, <4>3
        <4>4. QED
          BY <4>2, <4>3
      <3>2. QED
        BY <2>1, <3>1
    <2>4. Listed
      BY <1>0, <2>1
    <2>5. QED
      BY <1>0, <2>1, <2>3, <2>4
  <1>4. ASSUME NEW i \in Items, Adds(i) PROVE FItemsInProcess' <= Len(FItems') /\ Front /\ Listed
    <2>1. /\ FItemsInProcess' = FItemsInProcess /\ Len(FItems') = Len(FItems) + 1
          /\ \A k \in 1..Len(FItems) : FItems'[k] = FItems[k]
          /\ \A x : Contains(FItems, x) => Contains(FItems', x)
          /\ \A h \in Hands : Carried(h)' = Carried(h)
      BY <1>0, <1>4, AppendFacts, AppendElements DEF Adds, SameHands
    <2>2. QED
      BY <1>0, <2>1
  <1>5. ASSUME NEW i \in Items, Promotes(i) PROVE FItemsInProcess' <= Len(FItems') /\ Front /\ Listed
    <2> DEFINE p == IndexOf(FItems, i)
    <2>1. /\ p \in Positions(FItems) /\ p > FItemsInProcess /\ FItemsInProcess' = FItemsInProcess
          /\ FItems' = Move(FItems, p, FItemsInProcess + 1)
          /\ \A h \in Hands : Carried(h)' = Carried(h)
      BY <1>5, IndexOfFacts DEF Promotes, SameHands
    <2> HIDE DEF p
    <2>2. FItemsInProcess + 1 \in Positions(FItems)
      BY <1>0, <2>1 DEF Positions
    <2>3. /\ Len(FItems') = Len(FItems) /\ \A x : Contains(FItems', x) <=> Contains(FItems, x)
      BY <1>0, <2>1, <2>2, MoveFacts, MoveElements
    <2>4. \A k \in 1..FItemsInProcess : FItems'[k] = FItems[k]
      <3>1. ASSUME NEW k \in 1..FItemsInProcess PROVE FItems'[k] = FItems[k]
        <4>1. k \in Positions(FItems) /\ k # FItemsInProcess + 1 /\ ~(p <= k) /\ ~(FItemsInProcess + 1 < k)
          BY <1>0, <2>1 DEF Positions
        <4>2. Move(FItems, p, FItemsInProcess + 1)[k] = IF k = FItemsInProcess + 1 THEN FItems[p]
                           ELSE IF p <= k /\ k < FItemsInProcess + 1 THEN FItems[k + 1]
                           ELSE IF FItemsInProcess + 1 < k /\ k <= p THEN FItems[k - 1] ELSE FItems[k]
          BY <4>1 DEF Move, Positions
        <4>3. QED
          BY <2>1, <4>1, <4>2
      <3>2. QED
        BY <3>1
    <2>5. QED
      BY <1>0, <2>1, <2>3, <2>4
  <1>6. ASSUME NEW t \in Terminals, Retires(t) \/ Retries(t) PROVE FItemsInProcess' <= Len(FItems') /\ Front /\ Listed
    <2> DEFINE p == IndexOf(FItems, Carried(t))
               m == DeleteAt(FItems, p)
    <2>1. /\ Carried(t) \in Items /\ Contains(FItems, Carried(t)) /\ FItemsInProcess' = FItemsInProcess - 1
          /\ FItems' = m \/ FItems' = Append(m, Carried(t))
          /\ \A h \in Hands : Carried(h)' = IF h = t THEN NoItem ELSE Carried(h)
          /\ t \in Hands
      BY <1>0, <1>6, NullsAssumption DEF Retires, Retries, Requeued, Remove, SameBut, Hands
    <2>2. /\ p \in Positions(FItems) /\ FItems[p] = Carried(t) /\ p <= FItemsInProcess
          /\ m \in Seq(Items) /\ Len(m) = Len(FItems) - 1
          /\ \A k \in 1..(Len(FItems) - 1) : m[k] = IF k < p THEN FItems[k] ELSE FItems[k + 1]
          /\ \A x : Contains(m, x) <=> Contains(FItems, x) /\ x # Carried(t)
      BY <2>1, LeavesPrefix
    <2> HIDE DEF p, m
    <2>3. /\ FItemsInProcess' <= Len(FItems')
          /\ \A k \in 1..(Len(FItems) - 1) : FItems'[k] = m[k]
          /\ \A x : Contains(m, x) => Contains(FItems', x)
      <3>1. CASE FItems' = m
        BY <1>0, <2>1, <2>2, <3>1
      <3>2. CASE FItems' = Append(m, Carried(t))
        <4>1. /\ Len(FItems') = Len(m) + 1 /\ \A k \in 1..Len(m) : FItems'[k] = m[k]
              /\ \A x : Contains(m, x) => Contains(FItems', x)
          BY <2>1, <2>2, <3>2, AppendFacts, AppendElements
        <4>2. QED
          BY <1>0, <2>1, <2>2, <4>1
      <3>3. QED
        BY <2>1, <3>1, <3>2
    <2>4. Front
      <3>1. ASSUME NEW k \in 1..(FItemsInProcess - 1) PROVE \E h \in Hands : Carried(h)' = FItems'[k]
        <4>1. PICK j \in 1..FItemsInProcess : j # p /\ FItems'[k] = FItems[j]
          <5>1. k \in 1..(Len(FItems) - 1) /\ k \in 1..FItemsInProcess /\ k + 1 \in 1..FItemsInProcess /\ p \in Int
            BY <1>0, <2>2 DEF Positions
          <5>2. FItems'[k] = IF k < p THEN FItems[k] ELSE FItems[k + 1]
            BY <2>2, <2>3, <5>1
          <5>3. CASE k < p
            BY <5>1, <5>2, <5>3
          <5>4. CASE ~(k < p)
            BY <5>1, <5>2, <5>4
          <5>5. QED
            BY <5>3, <5>4
        <4>2. FItems[j] # Carried(t)
          BY <1>0, <2>2, <4>1 DEF HeldInv, Distinct, Positions
        <4>3. PICK h \in Hands : Carried(h) = FItems[j]
          BY <1>0
        <4>4. QED
          BY <2>1, <4>1, <4>2, <4>3
      <3>2. QED
        BY <2>1, <3>1
    <2>5. Listed
      <3>1. ASSUME NEW h \in Hands, Carried(h)' # NoItem PROVE Contains(FItems', Carried(h)')
        <4>1. h # t /\ Carried(h)' = Carried(h) /\ Carried(h) # NoItem
          BY <2>1, <3>1
        <4>2. Carried(h) # Carried(t) /\ Contains(FItems, Carried(h))
          BY <1>0, <2>1, <4>1 DEF HeldInv
        <4>3. QED
          BY <2>2, <2>3, <4>1, <4>2
      <3>2. QED
        BY <3>1
    <2>6. QED
      BY <2>3, <2>4, <2>5
  <1>7. QED
    BY <1>0, <1>1, <1>2, <1>3, <1>4, <1>5, <1>6 DEF Shape, Drops, Deletes, Empties

\* In the beginning nothing is in process.
LEMMA InitPrefix == Init => PrefixInv
  <1> SUFFICES ASSUME Init PROVE PrefixInv
    OBVIOUS
  <1>1. \A h \in Hands : Carried(h) = NoItem
    BY DEF Init, Carried, Hands
  <1>2. FItems = << >> /\ FItemsInProcess = 0
    BY DEF Init
  <1>3. QED
    BY <1>1, <1>2 DEF PrefixInv

\* The queue without the operations that reach into the items in process.
LEMMA PrefixInvariance ==
  "move" \notin Operations /\ "delete" \notin Operations => (Spec => [](IInv /\ CarryInv /\ PrefixInv))
  <1> SUFFICES ASSUME "move" \notin Operations, "delete" \notin Operations PROVE Spec => [](IInv /\ CarryInv /\ PrefixInv)
    OBVIOUS
  <1>1. Init => CarryInv /\ PrefixInv
    BY InitCarry, InitPrefix
  <1>2. IInv /\ CarryInv /\ PrefixInv /\ [Next]_vars => (CarryInv /\ PrefixInv)'
    <2> SUFFICES ASSUME IInv, CarryInv, PrefixInv, [Next]_vars PROVE CarryInv' /\ PrefixInv'
      OBVIOUS
    <2>1. CarryInv' /\ Shape
      BY CarryStep
    <2>2. FTerminated' \in {FTerminated, TRUE}
      BY TerminatedStays
    <2>3. PrefixInv'
      BY <2>1, <2>2, HeldCarry, PrefixStep DEF IInv
    <2>4. QED
      BY <2>1, <2>3
  <1>3. QED
    BY <1>1, <1>2, Invariance, PTL DEF Spec

\* What is in process is what is in some hand.
HandsMatch ==
  /\ \A i : i \in InProcess <=> i \in Items /\ \E h \in Hands : Carried(h) = i
  /\ \A i \in Items : Carriers(i) = {t \in Terminals : Carried(t) = i}

\* InProcess and Carriers, said of hands.
LEMMA InProcessHands == PoolInvariant => HandsMatch
  <1> SUFFICES ASSUME PoolInvariant PROVE HandsMatch
    OBVIOUS
  <1>1. \A t \in Terminals : t # NoTerminal /\ (item[t] # NoItem => FItem[t] = NoItem)
    BY NullsAssumption DEF PoolInvariant, WorkerInv
  <1>2. \A i \in Items : i # NoItem
    BY NullsAssumption
  <1>3. \A i \in Items : Carriers(i) = {t \in Terminals : Carried(t) = i}
    BY <1>1, <1>2 DEF Carriers, Carried
  <1>4. Carried(NoTerminal) = qItem
    BY DEF Carried
  <1>5. QED
    BY <1>3, <1>4 DEF HandsMatch, InProcess, Hands

\* InProcessIsPrefix, read off from the invariants.
LEMMA PrefixHolds ==
  ASSUME IInv, CarryInv, PrefixInv
  PROVE  InProcessIsPrefix
  <1> SUFFICES ASSUME ~FTerminated PROVE
        /\ FItemsInProcess \in 0..Len(FItems)
        /\ InProcess = {FItems[k] : k \in 1..FItemsInProcess}
        /\ \A i \in InProcess : Cardinality(Carriers(i)) + (IF qItem = i THEN 1 ELSE 0) = 1
    BY DEF InProcessIsPrefix
  <1>0. TypeOK /\ PoolInvariant /\ HeldInv
    BY HeldCarry DEF IInv
  <1>1. /\ FItems \in Seq(Items) /\ Len(FItems) \in Nat /\ FItemsInProcess \in Nat /\ FItemsInProcess <= Len(FItems)
        /\ \A k \in 1..FItemsInProcess : \E h \in Hands : Carried(h) = FItems[k]
        /\ \A h \in Hands : Carried(h) # NoItem => Contains(FItems, Carried(h))
    BY <1>0, CountFacts DEF PrefixInv, TypeOK, QueueTypeOK
  <1>2. ASSUME NEW k \in 1..FItemsInProcess PROVE FItems[k] \in InProcess
    <2>1. FItems[k] \in Items
      BY <1>1
    <2>2. QED
      BY <1>0, <1>1, <2>1, InProcessHands DEF HandsMatch
  <1>3. ASSUME NEW i \in InProcess PROVE \E k \in 1..FItemsInProcess : FItems[k] = i
    <2>1. PICK h \in Hands : Carried(h) = i /\ i # NoItem
      BY <1>0, InProcessHands, NullsAssumption DEF HandsMatch
    <2>2. PICK k \in Positions(FItems) : FItems[k] = i
      BY <1>1, <2>1 DEF Contains
    <2>3. k <= FItemsInProcess
      BY <1>0, <2>1, <2>2 DEF HeldInv
    <2>4. QED
      BY <1>1, <2>2, <2>3 DEF Positions
  <1>4. ASSUME NEW i \in InProcess PROVE Cardinality(Carriers(i)) + (IF qItem = i THEN 1 ELSE 0) = 1
    <2>1. i \in Items /\ i # NoItem /\ Carriers(i) = {t \in Terminals : Carried(t) = i}
      BY <1>0, InProcessHands, NullsAssumption DEF HandsMatch
    <2>2. PICK h \in Hands : Carried(h) = i
      BY <1>0, InProcessHands DEF HandsMatch
    <2>3. \A g \in Hands : Carried(g) = i => g = h
      BY <1>0, <2>1, <2>2 DEF HeldInv
    <2>4. Carried(NoTerminal) = qItem /\ NoTerminal \in Hands /\ NoTerminal \notin Terminals /\ Terminals \subseteq Hands
      BY NullsAssumption DEF Carried, Hands
    <2>5. CASE qItem = i
      <3>1. Carriers(i) = {}
        BY <2>1, <2>3, <2>4, <2>5
      <3>2. QED
        BY <2>5, <3>1, FS_EmptySet
    <2>6. CASE qItem # i
      <3>1. h \in Terminals
        BY <2>2, <2>4, <2>6 DEF Hands
      <3>2. Carriers(i) = {h}
        BY <2>1, <2>2, <2>3, <2>4, <3>1
      <3>3. Cardinality(Carriers(i)) = 1
        BY <3>2, FS_Singleton
      <3>4. QED
        BY <2>6, <3>3
    <2>7. QED
      BY <2>5, <2>6
  <1>5. QED
    BY <1>1, <1>2, <1>3, <1>4

\* ProcessEvent, RetryItem, DeleteItem and ItemExecuteNow keep what they all rely
\* on: the first FItemsInProcess of FItems are exactly the items taken on, each by
\* one thread, for any number of items and workers.  Moving or deleting an
\* item already handed over but still pending breaks it, so both are left out.
THEOREM InProcessSound ==
  "move" \notin Operations /\ "delete" \notin Operations => (Spec => []InProcessIsPrefix)
  <1> SUFFICES ASSUME "move" \notin Operations, "delete" \notin Operations PROVE Spec => []InProcessIsPrefix
    OBVIOUS
  <1>1. IInv /\ CarryInv /\ PrefixInv => InProcessIsPrefix
    BY PrefixHolds
  <1>2. Spec => [](IInv /\ CarryInv /\ PrefixInv)
    BY PrefixInvariance
  <1>3. QED
    BY <1>1, <1>2, PTL

----------------------------------------------------------------------------
(* The queue implements TransferQueue                                      *)

\* The abstract state: what waits and what has left; what is active is InProcess.
Waiting == SubSeq(FItems, FItemsInProcess + 1, Len(FItems))
Left == {i \in Items : status[i] # "unborn" /\ ~Contains(FItems, i)}

\* The end of a list, element by element.
LEMMA RestFacts ==
  ASSUME NEW S, NEW s \in Seq(S), NEW f \in 0..Len(s)
  PROVE  /\ SubSeq(s, f + 1, Len(s)) \in Seq(S)
         /\ Len(SubSeq(s, f + 1, Len(s))) = Len(s) - f
         /\ \A k \in 1..(Len(s) - f) : SubSeq(s, f + 1, Len(s))[k] = s[f + k]
  <1>1. Len(s) \in Nat /\ f + 1 \in Int /\ \A i \in (f + 1)..Len(s) : s[i] \in S
    OBVIOUS
  <1>2. /\ SubSeq(s, f + 1, Len(s)) \in Seq(S)
        /\ Len(SubSeq(s, f + 1, Len(s))) = IF f + 1 <= Len(s) THEN Len(s) - (f + 1) + 1 ELSE 0
        /\ \A i \in 1..(Len(s) - (f + 1) + 1) : SubSeq(s, f + 1, Len(s))[i] = s[f + 1 + i - 1]
    BY <1>1, SubSeqProperties
  <1>3. \A k \in 1..(Len(s) - f) : k \in 1..(Len(s) - (f + 1) + 1) /\ f + 1 + k - 1 = f + k
    BY <1>1
  <1>4. QED
    BY <1>1, <1>2, <1>3

\* The invariant under which a step is read as a step of TransferQueue.
OpenQueue == TypeOK /\ PoolInvariant /\ HeldInv /\ PrefixInv /\ ~FTerminated

\* The abstract state, element by element.
LEMMA OpenFacts ==
  ASSUME OpenQueue
  PROVE  /\ FItems \in Seq(Items) /\ Len(FItems) \in Nat /\ FItemsInProcess \in 0..Len(FItems)
         /\ Waiting \in Seq(Items) /\ Len(Waiting) = Len(FItems) - FItemsInProcess
         /\ \A k \in 1..(Len(FItems) - FItemsInProcess) : Waiting[k] = FItems[FItemsInProcess + k]
         /\ \A h \in Hands : Carried(h) # NoItem => Contains(FItems, Carried(h))
         /\ \A i : Contains(Waiting, i) => Contains(FItems, i)
         /\ HandsMatch
  <1>1. FItems \in Seq(Items) /\ Len(FItems) \in Nat /\ FItemsInProcess \in 0..Len(FItems)
    BY CountFacts DEF OpenQueue, PrefixInv, TypeOK, QueueTypeOK
  <1>2. /\ Waiting \in Seq(Items) /\ Len(Waiting) = Len(FItems) - FItemsInProcess
        /\ \A k \in 1..(Len(FItems) - FItemsInProcess) : Waiting[k] = FItems[FItemsInProcess + k]
    BY <1>1, RestFacts DEF Waiting
  <1>3. \A k \in Positions(Waiting) : FItemsInProcess + k \in Positions(FItems) /\ Waiting[k] = FItems[FItemsInProcess + k]
    BY <1>1, <1>2 DEF Positions
  <1>4. QED
    BY <1>1, <1>2, <1>3, InProcessHands DEF OpenQueue, PrefixInv, Contains

\* FItemsInProcess is never negative, as a formula of any state.
LEMMA CountNatural == TypeOK /\ PoolInvariant => FItemsInProcess \in Nat
  BY CountFacts

\* The same of the next state.
LEMMA OpenFactsNext ==
  ASSUME OpenQueue'
  PROVE  /\ FItems' \in Seq(Items) /\ FItemsInProcess' \in 0..Len(FItems')
         /\ Waiting' \in Seq(Items) /\ Len(Waiting') = Len(FItems') - FItemsInProcess'
         /\ \A k \in 1..(Len(FItems') - FItemsInProcess') : Waiting'[k] = FItems'[FItemsInProcess' + k]
         /\ HandsMatch'
  <1>1. (PoolInvariant => HandsMatch)'
    BY InProcessHands, PTL
  <1>2. (TypeOK /\ PoolInvariant => FItemsInProcess \in Nat)'
    BY CountNatural, PTL
  <1>3. FItems' \in Seq(Items) /\ FItemsInProcess' \in 0..Len(FItems')
    BY <1>2 DEF OpenQueue, PrefixInv, TypeOK, QueueTypeOK
  <1>4. /\ Waiting' \in Seq(Items) /\ Len(Waiting') = Len(FItems') - FItemsInProcess'
        /\ \A k \in 1..(Len(FItems') - FItemsInProcess') : Waiting'[k] = FItems'[FItemsInProcess' + k]
    BY <1>3, RestFacts DEF Waiting
  <1>5. QED
    BY <1>1, <1>3, <1>4 DEF OpenQueue

\* What each shape does to the abstract state.
LEMMA SameActive ==
  ASSUME OpenQueue, OpenQueue', \A i \in Items : (\E h \in Hands : Carried(h)' = i) <=> (\E h \in Hands : Carried(h) = i)
  PROVE  InProcess' = InProcess
  BY OpenFacts, OpenFactsNext DEF HandsMatch

\* A step of rest changes nothing of the abstract state.
LEMMA RestsQueue ==
  ASSUME OpenQueue, OpenQueue', Rests
  PROVE  UNCHANGED <<Waiting, InProcess, Left>>
  <1>1. FItems' = FItems /\ FItemsInProcess' = FItemsInProcess /\ StatusMoves /\ \A h \in Hands : Carried(h)' = Carried(h)
    BY DEF Rests, SameList, SameHands
  <1>2. Waiting' = Waiting
    BY <1>1 DEF Waiting
  <1>3. InProcess' = InProcess
    BY <1>1, SameActive
  <1>4. Left' = Left
    BY <1>1 DEF Left, StatusMoves
  <1>5. QED
    BY <1>2, <1>3, <1>4

\* Nor does an item that changes hands.
LEMMA PassesQueue ==
  ASSUME OpenQueue, OpenQueue', NEW t \in Terminals, Passes(t)
  PROVE  UNCHANGED <<Waiting, InProcess, Left>>
  <1>1. /\ FItems' = FItems /\ FItemsInProcess' = FItemsInProcess /\ status' = status
        /\ \A h \in Hands : Carried(h)' = IF h = t THEN Carried(NoTerminal) ELSE IF h = NoTerminal THEN NoItem ELSE Carried(h)
        /\ Carried(t) = NoItem /\ t \in Hands /\ NoTerminal \in Hands
    BY NullsAssumption DEF Passes, SameList, Hands
  <1>2. Waiting' = Waiting /\ Left' = Left
    BY <1>1 DEF Waiting, Left
  <1>3. ASSUME NEW i \in Items PROVE (\E h \in Hands : Carried(h)' = i) <=> (\E h \in Hands : Carried(h) = i)
    <2>1. i # NoItem
      BY NullsAssumption
    <2>2. ASSUME NEW h \in Hands, Carried(h) = i PROVE \E g \in Hands : Carried(g)' = i
      <3>1. CASE h = NoTerminal
        BY <1>1, <2>2, <3>1
      <3>2. CASE h # NoTerminal
        BY <1>1, <2>1, <2>2, <3>2
      <3>3. QED
        BY <3>1, <3>2
    <2>3. ASSUME NEW h \in Hands, Carried(h)' = i PROVE \E g \in Hands : Carried(g) = i
      BY <1>1, <2>1, <2>3
    <2>4. QED
      BY <2>2, <2>3
  <1>4. InProcess' = InProcess
    BY <1>3, SameActive
  <1>5. QED
    BY <1>2, <1>4

\* Taking the next item on is Start.
LEMMA TakesQueue ==
  ASSUME OpenQueue, OpenQueue', Takes
  PROVE  Queue!Start
  <1>1. /\ FItems' = FItems /\ FItemsInProcess' = FItemsInProcess + 1 /\ StatusMoves /\ HasNext
        /\ \A h \in Hands : Carried(h)' = IF h = NoTerminal THEN NextItem ELSE Carried(h)
        /\ Carried(NoTerminal) = NoItem /\ NoTerminal \in Hands
    BY DEF Takes, SameBut, Hands
  <1>2. Waiting # << >> /\ Head(Waiting) = NextItem /\ NextItem \in Items
    <2>1. Len(Waiting) > 0 /\ Waiting[1] = FItems[FItemsInProcess + 1] /\ Waiting \in Seq(Items)
      BY <1>1, OpenFacts DEF HasNext
    <2>2. QED
      BY <2>1 DEF NextItem
  <1>3. Waiting' = Tail(Waiting)
    <2> DEFINE n == Len(FItems) - FItemsInProcess - 1
    <2>1. /\ Tail(Waiting) \in Seq(Items) /\ Len(Tail(Waiting)) = n /\ n \in Nat
          /\ \A k \in 1..n : Tail(Waiting)[k] = Waiting[k + 1]
      BY <1>2, OpenFacts, HeadTailProperties
    <2>2. /\ Waiting' \in Seq(Items) /\ Len(Waiting') = n
          /\ \A k \in 1..n : Waiting'[k] = FItems[FItemsInProcess + 1 + k]
      BY <1>1, OpenFacts, OpenFactsNext
    <2>3. \A k \in 1..n : Waiting[k + 1] = FItems[FItemsInProcess + (k + 1)] /\ FItemsInProcess + (k + 1) = FItemsInProcess + 1 + k
      BY OpenFacts
    <2>4. \A k \in 1..n : Waiting'[k] = Tail(Waiting)[k]
      BY <2>1, <2>2, <2>3
    <2> HIDE DEF n
    <2>5. QED
      BY <2>1, <2>2, <2>4, SeqEqual
  <1>4. InProcess' = InProcess \cup {NextItem}
    <2>1. ASSUME NEW i \in Items PROVE i \in InProcess' <=> i \in InProcess \/ i = NextItem
      <3>1. i \in InProcess' <=> \E h \in Hands : Carried(h)' = i
        BY OpenFactsNext DEF HandsMatch
      <3>2. i \in InProcess <=> \E h \in Hands : Carried(h) = i
        BY OpenFacts DEF HandsMatch
      <3>3. i # NoItem
        BY NullsAssumption
      <3>4. QED
        BY <1>1, <3>1, <3>2, <3>3
    <2>2. InProcess \subseteq Items /\ InProcess' \subseteq Items
      BY DEF InProcess
    <2>3. QED
      BY <1>2, <2>1, <2>2
  <1>5. Left' = Left
    BY <1>1 DEF Left, StatusMoves
  <1>6. QED
    BY <1>2, <1>3, <1>4, <1>5 DEF Queue!Start, Waiting, Left

\* AddItem is Submit.
LEMMA AddsQueue ==
  ASSUME OpenQueue, OpenQueue', NEW i \in Items, Adds(i)
  PROVE  Queue!Submit(i)
  <1>1. /\ ~Contains(FItems, i) /\ status[i] = "unborn" /\ FItems' = Append(FItems, i) /\ FItemsInProcess' = FItemsInProcess
        /\ \A j \in Items : status'[j] = IF j = i THEN "pending" ELSE status[j]
        /\ \A h \in Hands : Carried(h)' = Carried(h)
    BY DEF Adds, SameHands, OpenQueue, HeldInv, TypeOK, ItemTypeOK
  <1>2. ~Contains(Waiting, i) /\ i \notin InProcess /\ i \notin Left
    BY <1>1, OpenFacts, NullsAssumption DEF HandsMatch, Left
  <1>3. Waiting' = Append(Waiting, i)
    <2> DEFINE n == Len(FItems) - FItemsInProcess
    <2>1. /\ Len(FItems') = Len(FItems) + 1 /\ \A k \in 1..Len(FItems) : FItems'[k] = FItems[k]
          /\ FItems'[Len(FItems) + 1] = i
      BY <1>1, OpenFacts, AppendFacts
    <2>2. /\ Waiting' \in Seq(Items) /\ Len(Waiting') = n + 1
          /\ \A k \in 1..(n + 1) : Waiting'[k] = FItems'[FItemsInProcess + k]
      BY <1>1, <2>1, OpenFacts, OpenFactsNext
    <2>3. /\ Append(Waiting, i) \in Seq(Items) /\ Len(Append(Waiting, i)) = n + 1 /\ Append(Waiting, i)[n + 1] = i
          /\ \A k \in 1..n : Append(Waiting, i)[k] = Waiting[k]
      BY OpenFacts, AppendFacts
    <2>4. \A k \in 1..n : FItemsInProcess + k \in 1..Len(FItems)
      BY OpenFacts
    <2>5. \A k \in 1..n : k \in 1..(n + 1) /\ Waiting'[k] = Append(Waiting, i)[k]
      BY <2>1, <2>2, <2>3, <2>4, OpenFacts
    <2>6. n \in Nat /\ FItemsInProcess + (n + 1) = Len(FItems) + 1
      BY OpenFacts
    <2>7. Waiting'[n + 1] = i
      BY <2>1, <2>2, <2>6
    <2> HIDE DEF n
    <2>8. \A k \in 1..(n + 1) : Waiting'[k] = Append(Waiting, i)[k]
      BY <2>3, <2>5, <2>6, <2>7
    <2>9. QED
      BY <2>2, <2>3, <2>8, SeqEqual
  <1>4. InProcess' = InProcess
    BY <1>1, SameActive
  <1>5. Left' = Left
    <2>1. \A x : Contains(FItems', x) <=> Contains(FItems, x) \/ x = i
      BY <1>1, OpenFacts, AppendElements
    <2>2. QED
      BY <1>1, <2>1 DEF Left
  <1>6. QED
    BY <1>2, <1>3, <1>4, <1>5 DEF Queue!Submit, Queue!Waits, Queue!Contains, Queue!Positions,
       Contains, Positions, Waiting, Left

\* ItemExecuteNow is Promote.
LEMMA PromotesQueue ==
  ASSUME OpenQueue, OpenQueue', NEW i \in Items, Promotes(i)
  PROVE  Queue!Promote(i)
  <1> DEFINE f == FItemsInProcess
             p == IndexOf(FItems, i)
             n == Len(FItems) - f
             q == p - f
  <1>1. /\ p \in Positions(FItems) /\ p > f /\ FItems[p] = i /\ FItems' = Move(FItems, p, f + 1)
        /\ FItemsInProcess' = FItemsInProcess /\ status' = status
        /\ \A h \in Hands : Carried(h)' = Carried(h)
    BY IndexOfFacts DEF Promotes, SameHands
  <1>2. /\ f \in Nat /\ Len(FItems) \in Nat /\ n \in Nat /\ p \in f + 1..Len(FItems) /\ q \in 1..n
        /\ f + 1 \in Positions(FItems) /\ FItems \in Seq(Items) /\ f + q = p
    BY <1>1, OpenFacts DEF Positions
  <1>3. Waiting \in Seq(Items) /\ Len(Waiting) = n /\ \A k \in 1..n : Waiting[k] = FItems[f + k]
    BY OpenFacts
  <1>4. Len(FItems') = Len(FItems) /\ \A x : Contains(FItems', x) <=> Contains(FItems, x)
    BY <1>1, <1>2, MoveFacts, MoveElements
  <1>5. Waiting' \in Seq(Items) /\ Len(Waiting') = n /\ \A k \in 1..n : Waiting'[k] = FItems'[f + k]
    BY <1>1, <1>4, OpenFactsNext
  <1> HIDE DEF f, p, n, q
  <1>6. Contains(Waiting, i) /\ IndexOf(Waiting, i) = q
    <2>1. q \in Positions(Waiting) /\ Waiting[q] = i
      BY <1>1, <1>2, <1>3 DEF Positions
    <2>2. Contains(Waiting, i)
      BY <2>1 DEF Contains
    <2>3. IndexOf(Waiting, i) \in Positions(Waiting) /\ Waiting[IndexOf(Waiting, i)] = i
      BY <2>2, IndexOfFacts
    <2>4. ASSUME NEW k \in Positions(Waiting), Waiting[k] = i PROVE k = q
      <3>1. k \in 1..n /\ f + k \in Positions(FItems) /\ FItems[f + k] = i
        BY <1>2, <1>3, <2>4 DEF Positions, n
      <3>2. f + k = p
        BY <1>1, <3>1 DEF OpenQueue, HeldInv, Distinct
      <3>3. QED
        BY <1>2, <3>1, <3>2
    <2>5. QED
      BY <2>2, <2>3, <2>4
  <1>7. Waiting' = Move(Waiting, q, 1)
    <2>1. 1 \in Positions(Waiting) /\ q \in Positions(Waiting)
      BY <1>2, <1>3 DEF Positions
    <2>2. /\ Move(Waiting, q, 1) \in Seq(Items) /\ Len(Move(Waiting, q, 1)) = n
          /\ \A k \in 1..n : Move(Waiting, q, 1)[k] = IF k = 1 THEN Waiting[q] ELSE IF q <= k /\ k < 1 THEN Waiting[k + 1]
                                ELSE IF 1 < k /\ k <= q THEN Waiting[k - 1] ELSE Waiting[k]
      BY <1>3, <2>1, MoveFacts DEF Positions
    <2>3. ASSUME NEW k \in 1..n PROVE Waiting'[k] = Move(Waiting, q, 1)[k]
      <3>1. f + k \in Positions(FItems)
        BY <1>2 DEF Positions, n
      <3>2. Move(FItems, p, f + 1)[f + k] =
              IF f + k = f + 1 THEN FItems[p] ELSE IF p <= f + k /\ f + k < f + 1 THEN FItems[f + k + 1]
              ELSE IF f + 1 < f + k /\ f + k <= p THEN FItems[f + k - 1] ELSE FItems[f + k]
        <4>1. \A j \in Positions(FItems) : Move(FItems, p, f + 1)[j] =
                IF j = f + 1 THEN FItems[p] ELSE IF p <= j /\ j < f + 1 THEN FItems[j + 1]
                ELSE IF f + 1 < j /\ j <= p THEN FItems[j - 1] ELSE FItems[j]
          BY <1>1, <1>2, MoveFacts
        <4>2. QED
          BY <1>2, <3>1, <4>1
      <3>3. Waiting'[k] = Move(FItems, p, f + 1)[f + k]
        BY <1>1, <1>5
      <3>4. CASE k = 1
        <4>1. Waiting'[k] = FItems[p]
          BY <1>2, <3>2, <3>3, <3>4
        <4>2. QED
          BY <1>2, <1>3, <2>2, <3>4, <4>1
      <3>5. CASE 1 < k /\ k <= q
        <4>1. Waiting'[k] = FItems[f + k - 1]
          BY <1>2, <3>2, <3>3, <3>5
        <4>2. k - 1 \in 1..n /\ f + (k - 1) = f + k - 1
          BY <1>2, <3>5
        <4>3. Move(Waiting, q, 1)[k] = Waiting[k - 1]
          BY <1>2, <2>2, <3>5
        <4>4. QED
          BY <1>3, <4>1, <4>2, <4>3
      <3>6. CASE q < k
        <4>1. Waiting'[k] = FItems[f + k]
          BY <1>2, <3>2, <3>3, <3>6
        <4>2. Move(Waiting, q, 1)[k] = Waiting[k]
          BY <1>2, <2>2, <3>6
        <4>3. QED
          BY <1>3, <4>1, <4>2
      <3>7. QED
        BY <1>2, <3>4, <3>5, <3>6
    <2>4. QED
      BY <1>5, <2>2, <2>3, SeqEqual
  <1>8. InProcess' = InProcess
    BY <1>1, SameActive
  <1>9. Left' = Left
    BY <1>1, <1>4 DEF Left
  <1>10. Queue!Contains(Waiting, i) /\ Queue!Move(Waiting, Queue!IndexOf(Waiting, i), 1) = Move(Waiting, q, 1)
    BY <1>6 DEF Queue!Contains, Queue!Positions, Queue!IndexOf, Queue!Move, Contains, Positions,
       IndexOf, Move
  <1>11. QED
    BY <1>7, <1>8, <1>9, <1>10 DEF Queue!Promote, Queue!Waits, Waiting, Left

\* An item that leaves the hand leaves InProcess, and no other does.
LEMMA LeavesActive ==
  ASSUME OpenQueue, OpenQueue', NEW t \in Terminals, Carried(t) \in Items, Carried(t)' = NoItem, SameBut(t)
  PROVE  Carried(t) \in InProcess /\ InProcess' = InProcess \ {Carried(t)}
  <1>1. t \in Hands /\ \A h \in Hands : Carried(h)' = IF h = t THEN NoItem ELSE Carried(h)
    BY DEF SameBut, Hands
  <1>2. \A h \in Hands : Carried(h) = Carried(t) => h = t
    BY <1>1, NullsAssumption DEF OpenQueue, HeldInv
  <1>3. ASSUME NEW i \in Items PROVE i \in InProcess' <=> i \in InProcess /\ i # Carried(t)
    <2>1. i \in InProcess' <=> \E h \in Hands : Carried(h)' = i
      BY OpenFactsNext DEF HandsMatch
    <2>2. i \in InProcess <=> \E h \in Hands : Carried(h) = i
      BY OpenFacts DEF HandsMatch
    <2>3. i # NoItem
      BY NullsAssumption
    <2>4. QED
      BY <1>1, <1>2, <2>1, <2>2, <2>3
  <1>4. Carried(t) \in InProcess
    BY <1>1, OpenFacts DEF HandsMatch
  <1>5. InProcess \subseteq Items /\ InProcess' \subseteq Items
    BY DEF InProcess
  <1>6. QED
    BY <1>3, <1>4, <1>5

\* What waits is the same when an item in front of it leaves the list.
LEMMA LeavesWaiting ==
  ASSUME OpenQueue, NEW t \in Terminals, Carried(t) \in Items
  PROVE  LET m == DeleteAt(FItems, IndexOf(FItems, Carried(t))) IN
         /\ m \in Seq(Items) /\ Len(m) = Len(FItems) - 1 /\ FItemsInProcess - 1 \in 0..Len(m)
         /\ \A k \in 1..(Len(FItems) - FItemsInProcess) : FItemsInProcess - 1 + k \in 1..Len(m) /\ m[FItemsInProcess - 1 + k] = Waiting[k]
         /\ \A x : Contains(m, x) <=> Contains(FItems, x) /\ x # Carried(t)
  <1> DEFINE p == IndexOf(FItems, Carried(t))
             m == DeleteAt(FItems, p)
  <1>1. Contains(FItems, Carried(t))
    BY OpenFacts, NullsAssumption DEF Hands
  <1>2. /\ p \in Positions(FItems) /\ p <= FItemsInProcess
        /\ m \in Seq(Items) /\ Len(m) = Len(FItems) - 1
        /\ \A k \in 1..(Len(FItems) - 1) : m[k] = IF k < p THEN FItems[k] ELSE FItems[k + 1]
        /\ \A x : Contains(m, x) <=> Contains(FItems, x) /\ x # Carried(t)
    BY <1>1, LeavesPrefix DEF OpenQueue
  <1> HIDE DEF m, p
  <1>3. /\ Len(FItems) \in Nat /\ FItemsInProcess \in 0..Len(FItems) /\ p \in 1..FItemsInProcess
        /\ \A k \in 1..(Len(FItems) - FItemsInProcess) : Waiting[k] = FItems[FItemsInProcess + k]
    BY <1>2, OpenFacts DEF Positions
  <1>4. ASSUME NEW k \in 1..(Len(FItems) - FItemsInProcess)
        PROVE  FItemsInProcess - 1 + k \in 1..Len(m) /\ m[FItemsInProcess - 1 + k] = Waiting[k]
    <2>1. /\ FItemsInProcess - 1 + k \in 1..(Len(FItems) - 1) /\ ~(FItemsInProcess - 1 + k < p)
          /\ FItemsInProcess - 1 + k + 1 = FItemsInProcess + k
      BY <1>3
    <2>2. m[FItemsInProcess - 1 + k] = FItems[FItemsInProcess + k]
      BY <1>2, <2>1
    <2>3. QED
      BY <1>2, <1>3, <2>1, <2>2
  <1>5. FItemsInProcess - 1 \in 0..Len(m)
    BY <1>2, <1>3
  <1>6. QED
    BY <1>2, <1>4, <1>5 DEF m, p

\* DeleteItem is Finish.
LEMMA RetiresQueue ==
  ASSUME OpenQueue, OpenQueue', NEW t \in Terminals, Retires(t)
  PROVE  \E i \in Items : Queue!Finish(i)
  <1> DEFINE n == Len(FItems) - FItemsInProcess
  <1>1. /\ Carried(t) \in Items /\ Contains(FItems, Carried(t)) /\ FItemsInProcess' = FItemsInProcess - 1
        /\ FItems' = DeleteAt(FItems, IndexOf(FItems, Carried(t))) /\ StatusMoves
        /\ Carried(t)' = NoItem /\ SameBut(t)
    BY OpenFacts, NullsAssumption DEF Retires, Remove, Hands
  <1>2. Carried(t) \in InProcess /\ InProcess' = InProcess \ {Carried(t)}
    BY <1>1, LeavesActive
  <1>3. /\ Len(FItems') = Len(FItems) - 1
        /\ \A k \in 1..n : FItemsInProcess' + k \in 1..Len(FItems') /\ FItems'[FItemsInProcess' + k] = Waiting[k]
        /\ \A x : Contains(FItems', x) <=> Contains(FItems, x) /\ x # Carried(t)
    BY <1>1, LeavesWaiting
  <1>4. Waiting' = Waiting
    <2>1. Waiting \in Seq(Items) /\ Len(Waiting) = n /\ Len(FItems) \in Nat /\ FItemsInProcess \in Nat
      BY OpenFacts
    <2>2. /\ Waiting' \in Seq(Items) /\ Len(Waiting') = n
          /\ \A k \in 1..n : Waiting'[k] = FItems'[FItemsInProcess' + k]
      BY <1>1, <1>3, <2>1, OpenFactsNext
    <2> HIDE DEF n
    <2>3. QED
      BY <1>3, <2>1, <2>2, SeqEqual
  <1>5. status[Carried(t)] # "unborn"
    BY <1>1 DEF OpenQueue, HeldInv
  <1>6. Left' = Left \cup {Carried(t)}
    BY <1>1, <1>3, <1>5 DEF Left, StatusMoves
  <1>7. PICK i \in Items : i = Carried(t)
    BY <1>1
  <1>8. Queue!Finish(i)
    BY <1>2, <1>4, <1>6, <1>7 DEF Queue!Finish, Waiting, Left
  <1>9. QED
    BY <1>8

\* RetryItem is Requeue.
LEMMA RetriesQueue ==
  ASSUME OpenQueue, OpenQueue', NEW t \in Terminals, Retries(t)
  PROVE  \E i \in Items : Queue!Requeue(i)
  <1> DEFINE n == Len(FItems) - FItemsInProcess
             m == DeleteAt(FItems, IndexOf(FItems, Carried(t)))
  <1>1. /\ Carried(t) \in Items /\ Contains(FItems, Carried(t)) /\ FItemsInProcess' = FItemsInProcess - 1
        /\ FItems' = Append(m, Carried(t)) /\ status' = status
        /\ Carried(t)' = NoItem /\ SameBut(t)
    BY OpenFacts, NullsAssumption DEF Retries, Requeued, Remove, Hands
  <1>2. Carried(t) \in InProcess /\ InProcess' = InProcess \ {Carried(t)}
    BY <1>1, LeavesActive
  <1>3. /\ m \in Seq(Items) /\ Len(m) = Len(FItems) - 1
        /\ \A k \in 1..n : FItemsInProcess' + k \in 1..Len(m) /\ m[FItemsInProcess' + k] = Waiting[k]
        /\ \A x : Contains(m, x) <=> Contains(FItems, x) /\ x # Carried(t)
    BY <1>1, LeavesWaiting
  <1> HIDE DEF m
  <1>4. /\ Len(FItems') = Len(FItems) /\ FItems'[Len(FItems)] = Carried(t)
        /\ \A k \in 1..Len(m) : FItems'[k] = m[k]
        /\ \A x : Contains(FItems', x) <=> Contains(FItems, x)
    <2>1. /\ Len(FItems') = Len(m) + 1 /\ FItems'[Len(m) + 1] = Carried(t)
          /\ \A k \in 1..Len(m) : FItems'[k] = m[k]
          /\ \A x : Contains(FItems', x) <=> Contains(m, x) \/ x = Carried(t)
      BY <1>1, <1>3, AppendFacts, AppendElements
    <2>2. Len(m) + 1 = Len(FItems)
      BY <1>3, OpenFacts
    <2>3. QED
      BY <1>1, <1>3, <2>1, <2>2
  <1>5. Waiting' = Append(Waiting, Carried(t))
    <2>1. Waiting \in Seq(Items) /\ Len(Waiting) = n /\ Len(FItems) \in Nat /\ FItemsInProcess \in Nat /\ n \in Nat
      BY OpenFacts
    <2>2. /\ Waiting' \in Seq(Items) /\ Len(Waiting') = n + 1
          /\ \A k \in 1..(n + 1) : Waiting'[k] = FItems'[FItemsInProcess' + k]
      <3>1. Len(FItems') - FItemsInProcess' = n + 1
        BY <1>1, <1>4, <2>1
      <3>2. QED
        BY <3>1, OpenFactsNext
    <2>3. /\ Append(Waiting, Carried(t)) \in Seq(Items) /\ Len(Append(Waiting, Carried(t))) = n + 1
          /\ Append(Waiting, Carried(t))[n + 1] = Carried(t)
          /\ \A k \in 1..n : Append(Waiting, Carried(t))[k] = Waiting[k]
      BY <1>1, <2>1, AppendFacts
    <2>4. FItemsInProcess' + (n + 1) = Len(FItems)
      BY <1>1, <2>1
    <2> HIDE DEF n
    <2>5. ASSUME NEW k \in 1..n PROVE k \in 1..(n + 1) /\ Waiting'[k] = Waiting[k]
      <3>1. k \in 1..(n + 1) /\ Waiting'[k] = FItems'[FItemsInProcess' + k]
        BY <2>1, <2>2
      <3>2. FItemsInProcess' + k \in 1..Len(m) /\ m[FItemsInProcess' + k] = Waiting[k]
        BY <1>3 DEF n
      <3>3. QED
        BY <1>4, <3>1, <3>2
    <2>6. Waiting'[n + 1] = Carried(t)
      BY <1>4, <2>1, <2>2, <2>4
    <2>7. \A k \in 1..(n + 1) : Waiting'[k] = Append(Waiting, Carried(t))[k]
      BY <2>1, <2>3, <2>5, <2>6
    <2>8. QED
      BY <2>2, <2>3, <2>7, SeqEqual
  <1>6. Left' = Left
    BY <1>1, <1>4 DEF Left
  <1>7. PICK i \in Items : i = Carried(t)
    BY <1>1
  <1>8. Queue!Requeue(i)
    BY <1>2, <1>5, <1>6, <1>7 DEF Queue!Requeue, Waiting, Left
  <1>9. QED
    BY <1>8

\* Every shape is a step of TransferQueue or a stutter.
LEMMA QueueStep ==
  ASSUME "delete" \notin Operations, OpenQueue, OpenQueue', Shape
  PROVE  Queue!Next \/ UNCHANGED Queue!vars
  <1>1. CASE Rests \/ (\E t \in Terminals : Passes(t))
    BY <1>1, RestsQueue, PassesQueue DEF Queue!vars, Waiting, Left
  <1>2. CASE Takes
    BY <1>2, TakesQueue DEF Queue!Next
  <1>3. ASSUME NEW i \in Items, Adds(i) \/ Promotes(i) PROVE Queue!Next
    BY <1>3, AddsQueue, PromotesQueue DEF Queue!Next
  <1>4. ASSUME NEW t \in Terminals, Retires(t) \/ Retries(t) PROVE Queue!Next
    BY <1>4, RetiresQueue, RetriesQueue DEF Queue!Next
  <1>5. ~Empties /\ (\A t \in Terminals : ~Drops(t)) /\ (\A i \in Items : ~Deletes(i))
    BY DEF OpenQueue, Empties, Drops, Deletes
  <1>6. QED
    BY <1>1, <1>2, <1>3, <1>4, <1>5 DEF Shape

\* The queue of Queue.cpp is a TransferQueue, for any number of items and workers,
\* any limits and failures: transfers start in the order of the list, each taken on
\* by one thread, and each one taken on leaves the queue or goes to its end.  Left
\* out are the operations that reach into the items in process (move, delete) and
\* the destructor, which abandons them.
THEOREM QueueImplements ==
  "move" \notin Operations /\ "delete" \notin Operations /\ "close" \notin Operations => (Spec => ImplementsTransferQueue)
  <1> SUFFICES ASSUME "move" \notin Operations, "delete" \notin Operations, "close" \notin Operations
               PROVE  Spec => ImplementsTransferQueue
    OBVIOUS
  <1>1. Init => Queue!Init /\ ~FTerminated
    <2> SUFFICES ASSUME Init PROVE Queue!Init /\ ~FTerminated
      OBVIOUS
    <2>1. FItems = << >> /\ FItemsInProcess = 0 /\ \A i \in Items : status[i] = "unborn"
      BY DEF Init
    <2>2. SubSeq(FItems, FItemsInProcess + 1, Len(FItems)) = << >>
      BY <2>1, SubSeqEmpty
    <2>3. InProcess = {}
      BY NullsAssumption DEF Init, InProcess, Carriers
    <2>4. QED
      BY <2>1, <2>2, <2>3 DEF Init, Queue!Init
  <1>2. ~FTerminated /\ [Next]_vars => ~FTerminated'
    BY TerminatedStays
  <1>3. /\ IInv /\ CarryInv /\ PrefixInv /\ ~FTerminated
        /\ (IInv /\ CarryInv /\ PrefixInv /\ ~FTerminated)' /\ [Next]_vars
        => [Queue!Next]_Queue!vars
    <2> SUFFICES ASSUME IInv, CarryInv, PrefixInv, ~FTerminated, (IInv /\ CarryInv /\ PrefixInv /\ ~FTerminated)', [Next]_vars
                 PROVE  Queue!Next \/ UNCHANGED Queue!vars
      OBVIOUS
    <2>1. Shape
      BY CarryStep
    <2>2. OpenQueue /\ OpenQueue'
      BY DEF OpenQueue, IInv, CarryInv, HeldInv
    <2>3. QED
      BY <2>1, <2>2, QueueStep
  <1>4. Spec => [](IInv /\ CarryInv /\ PrefixInv)
    BY PrefixInvariance
  <1>5. QED
    BY <1>1, <1>2, <1>3, <1>4, PTL DEF Spec, ImplementsTransferQueue, Queue!Spec
=============================================================================
