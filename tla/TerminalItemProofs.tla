-------------------------- MODULE TerminalItemProofs --------------------------
(***************************************************************************)
(* Proofs about TerminalItem, for any number of items, questions and       *)
(* failures, and for users of any habits.                                  *)
(***************************************************************************)
EXTENDS TerminalItem, TLAPS

\* The types of TypeOK, one by one.
FlagsOK ==
  /\ FEvent \in BOOLEAN /\ FTerminated \in BOOLEAN /\ FCancel \in BOOLEAN /\ FPause \in BOOLEAN
  /\ Active \in BOOLEAN /\ retry \in BOOLEAN /\ cancelled \in BOOLEAN /\ free \in BOOLEAN
  /\ stray \in BOOLEAN
NumbersOK ==
  /\ FUserAction \in Nat /\ asks \in Nat /\ shown \in Nat /\ failures \in Nat
  /\ FUserAction <= asks /\ asks <= MaxAsks /\ shown <= asks /\ failures <= MaxFailures
ThreadsOK ==
  /\ pc \in HasItem \cup {"check", "wait", "begin", "retire", "release", "gone"}
  /\ back \in {"check", "connecting", "running", "finish"}
  /\ qpc \in {"ready", "trigger"}
  /\ uipc \in {"ready", "pause", "resume", "answer", "showing", "cancel", "flag", "wake", "closing"}
ItemsOK ==
  /\ FItem \in Items \cup {NoItem} /\ uiItem \in Items \cup {NoItem}
  /\ pc \in HasItem => FItem # NoItem
  /\ pc \in {"retire", "release"} => FItem = NoItem
  /\ uipc \in {"cancel", "flag"} => uiItem # NoItem
  /\ status \in [Items -> Taken \cup {"pending", "left"}]
  /\ FTerminalItem \in [Items -> BOOLEAN]
ItemTypeOK == FlagsOK /\ NumbersOK /\ ThreadsOK /\ ItemsOK

\* A free worker has no item; one that executes an item is the worker the item
\* names; and an error message is followed by the end of ProcessEvent, another
\* question by what has asked.
PlaceInv ==
  /\ free => FItem = NoItem /\ pc \in Outside \cup {"begin"}
  /\ pc = "gone" => FTerminated
  /\ \A i \in Items : FTerminalItem[i] <=> FItem = i /\ pc \in HasItem \ {"forget"}
  /\ pc \in {"show", "asking", "asked"} => back \in {"connecting", "running", "finish"}

\* The item of a worker is the only one that shows activity.
Activity == Questions \cup {"connecting", "processing", "paused"}
StatusInv ==
  \A i \in Items :
    /\ status[i] \in Activity => FItem = i /\ pc \in HasItem \ {"unlink", "forget"}
    /\ status[i] \in Questions => pc \in {"asking", "asked"}
    /\ status[i] = "paused" => pc \in {"paused", "resuming"}

\* A question that can be seen is the last one asked, and it is not answered.
QuestionInv ==
  /\ answered \subseteq 1..asks
  /\ FUserAction # 0 => pc \in {"asking", "asked"} /\ FUserAction = asks /\ asks \notin answered
  /\ uipc = "showing" => shown # 0

\* While ItemDelete keeps FItemsSection, the worker gets no further than Retire.
CancelInv == uipc = "flag" => (FItem = uiItem /\ pc \in HasItem) \/ pc = "retire"

\* Without a stray event, the event is set for one purpose at a time: for an
\* item that has not begun, for the question that was answered, for the end of
\* a pause, or to terminate the worker, when it has no item or the queue closes.
AnswerInv == ~stray =>
  /\ FTerminated /\ uipc # "closing" =>
       ~free /\ FItem = NoItem /\ qpc = "ready" /\ pc \in {"check", "gone"}
  /\ uipc = "closing" => qpc = "ready" /\ FTerminated
  /\ qpc = "trigger" => pc \in {"check", "wait"} /\ ~FEvent /\ FItem # NoItem
  /\ FEvent /\ ~FTerminated => \/ pc \in {"check", "wait"} /\ FItem # NoItem
                               \/ pc = "asking" /\ asks \in answered
                               \/ pc = "paused"
  /\ pc = "begin" => FItem # NoItem
  /\ pc = "asked" => asks \in answered \/ FTerminated
  /\ uipc = "showing" => pc = "asking" /\ shown = asks /\ FUserAction = asks

IInv == ItemTypeOK /\ PlaceInv /\ StatusInv /\ QuestionInv /\ CancelInv /\ AnswerInv

----------------------------------------------------------------------------
(* The steps, one part of the invariant after the other                    *)

\* Every step keeps the flags Boolean.
LEMMA FlagsTyped ==
  ASSUME IInv, Next
  PROVE  FlagsOK'
  <1> USE DEF IInv, ItemTypeOK, FlagsOK, flagVars, placeVars,
         itemVars, threadVars, historyVars
  <1>1. CASE Check
    BY <1>1 DEF Check
  <1>2. CASE Wake
    BY <1>2 DEF Wake, EventConsumed
  <1>3. CASE BeginWithoutItem
    BY <1>3 DEF BeginWithoutItem
  <1>4. CASE Begin
    BY <1>4 DEF Begin
  <1>5. CASE Open \/ Execute \/ TransferEnds
    BY <1>5 DEF Open, Execute, TransferEnds
  <1>6. CASE Fail
    BY <1>6 DEF Fail
  <1>7. CASE SetDone \/ Detach
    BY <1>7 DEF SetDone, Detach, StatusDone
  <1>8. CASE Forget
    BY <1>8 DEF Forget, Forgotten
  <1>9. CASE Retire
    BY <1>9 DEF Retire, ItemsSectionFree
  <1>10. CASE Release
    BY <1>10 DEF Release
  <1>11. CASE Ask
    BY <1>11 DEF Ask, Question
  <1>12. CASE ShowError
    BY <1>12 DEF ShowError, Question
  <1>13. CASE AskingEnds
    BY <1>13 DEF AskingEnds, EventConsumed
  <1>14. CASE Asked
    BY <1>14 DEF Asked, ActionCleared, PrevStatus
  <1>15. CASE Progress \/ Paused
    BY <1>15 DEF Progress, Paused
  <1>16. CASE PauseEnds \/ Resumed
    BY <1>16 DEF PauseEnds, Resumed, EventConsumed
  <1>17. CASE Process
    BY <1>17 DEF Process, CriticalSectionFree, Outside
  <1>18. CASE Trigger
    BY <1>18 DEF Trigger, Signal
  <1>19. CASE LookUps
    BY <1>19 DEF LookUps, LookUp
  <1>20. CASE Pause
    BY <1>20 DEF Pause, Fails, Returns
  <1>21. CASE Resume
    BY <1>21 DEF Resume, SetsEvent, Fails, Returns
  <1>22. CASE Show
    BY <1>22 DEF Show, Fails, Returns
  <1>23. CASE Answer
    BY <1>23 DEF Answer, Fails, Returns, AnswerHeard
  <1>24. CASE Cancel
    BY <1>24 DEF Cancel, Returns
  <1>25. CASE CancelFlag
    BY <1>25 DEF CancelFlag
  <1>26. CASE CancelWakes
    BY <1>26 DEF CancelWakes, SetsEvent, Fails, Returns, WaitsForUser
  <1>27. CASE Terminate
    BY <1>27 DEF Terminate
  <1>28. QED
    BY <1>1, <1>2, <1>3, <1>4, <1>5, <1>6, <1>7, <1>8, <1>9, <1>10, <1>11, <1>12, <1>13, <1>14,
       <1>15, <1>16, <1>17, <1>18, <1>19, <1>20, <1>21, <1>22, <1>23, <1>24, <1>25, <1>26, <1>27
       DEF Next, Worker, ProcessEvent, WaitForUserAction,
       OperationProgress, Requests

\* Every step keeps the numbers in their bounds.
LEMMA NumbersTyped ==
  ASSUME IInv, Next
  PROVE  NumbersOK'
  <1> USE BoundAssumption DEF IInv, ItemTypeOK, NumbersOK, flagVars, placeVars,
         itemVars, threadVars, historyVars
  <1>1. CASE Check
    BY <1>1 DEF Check
  <1>2. CASE Wake
    BY <1>2 DEF Wake, EventConsumed
  <1>3. CASE BeginWithoutItem
    BY <1>3 DEF BeginWithoutItem
  <1>4. CASE Begin
    BY <1>4 DEF Begin
  <1>5. CASE Open \/ Execute \/ TransferEnds
    BY <1>5 DEF Open, Execute, TransferEnds
  <1>6. CASE Fail
    BY <1>6 DEF Fail
  <1>7. CASE SetDone \/ Detach
    BY <1>7 DEF SetDone, Detach, StatusDone
  <1>8. CASE Forget
    BY <1>8 DEF Forget, Forgotten
  <1>9. CASE Retire
    BY <1>9 DEF Retire, ItemsSectionFree
  <1>10. CASE Release
    BY <1>10 DEF Release
  <1>11. CASE Ask
    BY <1>11 DEF Ask, Question
  <1>12. CASE ShowError
    BY <1>12 DEF ShowError, Question
  <1>13. CASE AskingEnds
    BY <1>13 DEF AskingEnds, EventConsumed
  <1>14. CASE Asked
    BY <1>14 DEF Asked, ActionCleared, PrevStatus
  <1>15. CASE Progress \/ Paused
    BY <1>15 DEF Progress, Paused
  <1>16. CASE PauseEnds \/ Resumed
    BY <1>16 DEF PauseEnds, Resumed, EventConsumed
  <1>17. CASE Process
    BY <1>17 DEF Process, CriticalSectionFree, Outside
  <1>18. CASE Trigger
    BY <1>18 DEF Trigger, Signal
  <1>19. CASE LookUps
    BY <1>19 DEF LookUps, LookUp
  <1>20. CASE Pause
    <2>1. /\ asks' = asks /\ failures' = failures
          /\ FUserAction' \in {FUserAction, 0} /\ shown' \in {shown, 0, FUserAction}
      BY <1>20 DEF Pause, Fails, Returns
    <2>2. QED
      BY <2>1
  <1>21. CASE Resume
    <2>1. /\ asks' = asks /\ failures' = failures
          /\ FUserAction' \in {FUserAction, 0} /\ shown' \in {shown, 0, FUserAction}
      BY <1>21 DEF Resume, SetsEvent, Fails, Returns
    <2>2. QED
      BY <2>1
  <1>22. CASE Show
    <2>1. /\ asks' = asks /\ failures' = failures
          /\ FUserAction' \in {FUserAction, 0} /\ shown' \in {shown, 0, FUserAction}
      BY <1>22 DEF Show, Fails, Returns
    <2>2. QED
      BY <2>1
  <1>23. CASE Answer
    <2>1. /\ asks' = asks /\ failures' = failures
          /\ FUserAction' \in {FUserAction, 0} /\ shown' \in {shown, 0, FUserAction}
      BY <1>23 DEF Answer, Fails, Returns
    <2>2. QED
      BY <2>1
  <1>24. CASE Cancel
    <2>1. /\ asks' = asks /\ failures' = failures
          /\ FUserAction' \in {FUserAction, 0} /\ shown' \in {shown, 0, FUserAction}
      BY <1>24 DEF Cancel, Returns
    <2>2. QED
      BY <2>1
  <1>25. CASE CancelFlag
    BY <1>25 DEF CancelFlag
  <1>26. CASE CancelWakes
    <2>1. /\ asks' = asks /\ failures' = failures
          /\ FUserAction' \in {FUserAction, 0} /\ shown' \in {shown, 0, FUserAction}
      BY <1>26 DEF CancelWakes, SetsEvent, Fails, Returns
    <2>2. QED
      BY <2>1
  <1>27. CASE Terminate
    BY <1>27 DEF Terminate
  <1>28. QED
    BY <1>1, <1>2, <1>3, <1>4, <1>5, <1>6, <1>7, <1>8, <1>9, <1>10, <1>11, <1>12, <1>13, <1>14,
       <1>15, <1>16, <1>17, <1>18, <1>19, <1>20, <1>21, <1>22, <1>23, <1>24, <1>25, <1>26, <1>27
       DEF Next, Worker, ProcessEvent, WaitForUserAction,
       OperationProgress, Requests

\* Every step leads to a place of its thread.
LEMMA ThreadsTyped ==
  ASSUME IInv, Next
  PROVE  ThreadsOK'
  <1> USE DEF IInv, ItemTypeOK, ThreadsOK, PlaceInv, HasItem,
         flagVars, placeVars, itemVars, threadVars, historyVars
  <1>1. CASE Check
    BY <1>1 DEF Check
  <1>2. CASE Wake
    BY <1>2 DEF Wake, EventConsumed
  <1>3. CASE BeginWithoutItem
    BY <1>3 DEF BeginWithoutItem
  <1>4. CASE Begin
    BY <1>4 DEF Begin
  <1>5. CASE Open \/ Execute \/ TransferEnds
    BY <1>5 DEF Open, Execute, TransferEnds
  <1>6. CASE Fail
    BY <1>6 DEF Fail
  <1>7. CASE SetDone \/ Detach
    BY <1>7 DEF SetDone, Detach, StatusDone
  <1>8. CASE Forget
    BY <1>8 DEF Forget, Forgotten
  <1>9. CASE Retire
    BY <1>9 DEF Retire, ItemsSectionFree
  <1>10. CASE Release
    BY <1>10 DEF Release
  <1>11. CASE Ask
    BY <1>11 DEF Ask, Question
  <1>12. CASE ShowError
    BY <1>12 DEF ShowError, Question
  <1>13. CASE AskingEnds
    BY <1>13 DEF AskingEnds, EventConsumed
  <1>14. CASE Asked
    BY <1>14 DEF Asked, ActionCleared, PrevStatus
  <1>15. CASE Progress \/ Paused
    BY <1>15 DEF Progress, Paused
  <1>16. CASE PauseEnds \/ Resumed
    BY <1>16 DEF PauseEnds, Resumed, EventConsumed
  <1>17. CASE Process
    BY <1>17 DEF Process, CriticalSectionFree, Outside
  <1>18. CASE Trigger
    BY <1>18 DEF Trigger, Signal
  <1>19. CASE LookUps
    BY <1>19 DEF LookUps, LookUp
  <1>20. CASE Pause
    BY <1>20 DEF Pause, Fails, Returns
  <1>21. CASE Resume
    BY <1>21 DEF Resume, SetsEvent, Fails, Returns
  <1>22. CASE Show
    BY <1>22 DEF Show, Fails, Returns
  <1>23. CASE Answer
    BY <1>23 DEF Answer, Fails, Returns, AnswerHeard
  <1>24. CASE Cancel
    BY <1>24 DEF Cancel, Returns
  <1>25. CASE CancelFlag
    BY <1>25 DEF CancelFlag
  <1>26. CASE CancelWakes
    BY <1>26 DEF CancelWakes, SetsEvent, Fails, Returns, WaitsForUser
  <1>27. CASE Terminate
    BY <1>27 DEF Terminate
  <1>28. QED
    BY <1>1, <1>2, <1>3, <1>4, <1>5, <1>6, <1>7, <1>8, <1>9, <1>10, <1>11, <1>12, <1>13, <1>14,
       <1>15, <1>16, <1>17, <1>18, <1>19, <1>20, <1>21, <1>22, <1>23, <1>24, <1>25, <1>26, <1>27
       DEF Next, Worker, ProcessEvent, WaitForUserAction,
       OperationProgress, Requests

\* Every step keeps the items of the threads, and what is known of the items.
LEMMA ItemsTyped ==
  ASSUME IInv, Next
  PROVE  ItemsOK'
  <1> USE NullAssumption DEF IInv, ItemTypeOK, ItemsOK, PlaceInv, HasItem, Taken,
         Questions, Outside,
          flagVars, placeVars, itemVars, threadVars, historyVars
  <1>1. CASE Check
    BY <1>1 DEF Check
  <1>2. CASE Wake
    BY <1>2 DEF Wake, EventConsumed
  <1>3. CASE BeginWithoutItem
    BY <1>3 DEF BeginWithoutItem
  <1>4. CASE Begin
    BY <1>4 DEF Begin
  <1>5. CASE Open \/ Execute \/ TransferEnds
    BY <1>5 DEF Open, Execute, TransferEnds
  <1>6. CASE Fail
    BY <1>6 DEF Fail
  <1>7. CASE SetDone \/ Detach
    BY <1>7 DEF SetDone, Detach, StatusDone
  <1>8. CASE Forget
    BY <1>8 DEF Forget, Forgotten
  <1>9. CASE Retire
    BY <1>9 DEF Retire, ItemsSectionFree
  <1>10. CASE Release
    BY <1>10 DEF Release
  <1>11. CASE Ask
    BY <1>11 DEF Ask, Question
  <1>12. CASE ShowError
    BY <1>12 DEF ShowError, Question
  <1>13. CASE AskingEnds
    BY <1>13 DEF AskingEnds, EventConsumed
  <1>14. CASE Asked
    BY <1>14 DEF Asked, ActionCleared, PrevStatus
  <1>15. CASE Progress \/ Paused
    BY <1>15 DEF Progress, Paused
  <1>16. CASE PauseEnds \/ Resumed
    BY <1>16 DEF PauseEnds, Resumed, EventConsumed
  <1>17. CASE Process
    BY <1>17 DEF Process, CriticalSectionFree, Outside
  <1>18. CASE Trigger
    BY <1>18 DEF Trigger, Signal
  <1>19. CASE LookUps
    BY <1>19 DEF LookUps, LookUp
  <1>20. CASE Pause
    <2>1. /\ UNCHANGED <<FItem, status, FTerminalItem, pc>>
          /\ uiItem' \in {uiItem, NoItem}
          /\ uipc' \in {"cancel", "flag"} => uipc = "cancel" /\ uiItem' = uiItem
      BY <1>20 DEF Pause, Fails, Returns
    <2>2. QED
      BY <2>1
  <1>21. CASE Resume
    <2>1. /\ UNCHANGED <<FItem, status, FTerminalItem, pc>>
          /\ uiItem' \in {uiItem, NoItem}
          /\ uipc' \in {"cancel", "flag"} => uipc = "cancel" /\ uiItem' = uiItem
      BY <1>21 DEF Resume, SetsEvent, Fails, Returns
    <2>2. QED
      BY <2>1
  <1>22. CASE Show
    <2>1. /\ UNCHANGED <<FItem, status, FTerminalItem, pc>>
          /\ uiItem' \in {uiItem, NoItem}
          /\ uipc' \in {"cancel", "flag"} => uipc = "cancel" /\ uiItem' = uiItem
      BY <1>22 DEF Show, Fails, Returns
    <2>2. QED
      BY <2>1
  <1>23. CASE Answer
    <2>1. /\ UNCHANGED <<FItem, status, FTerminalItem, pc>>
          /\ uiItem' \in {uiItem, NoItem}
          /\ uipc' \in {"cancel", "flag"} => uipc = "cancel" /\ uiItem' = uiItem
      BY <1>23 DEF Answer, Fails, Returns
    <2>2. QED
      BY <2>1
  <1>24. CASE Cancel
    <2>1. /\ UNCHANGED <<FItem, status, FTerminalItem, pc>>
          /\ uiItem' \in {uiItem, NoItem}
          /\ uipc' \in {"cancel", "flag"} => uipc = "cancel" /\ uiItem' = uiItem
      BY <1>24 DEF Cancel, Returns
    <2>2. QED
      BY <2>1
  <1>25. CASE CancelFlag
    BY <1>25 DEF CancelFlag
  <1>26. CASE CancelWakes
    <2>1. /\ UNCHANGED <<FItem, status, FTerminalItem, pc>>
          /\ uiItem' \in {uiItem, NoItem}
          /\ uipc' \in {"cancel", "flag"} => uipc = "cancel" /\ uiItem' = uiItem
      BY <1>26 DEF CancelWakes, SetsEvent, Fails, Returns
    <2>2. QED
      BY <2>1
  <1>27. CASE Terminate
    BY <1>27 DEF Terminate
  <1>28. QED
    BY <1>1, <1>2, <1>3, <1>4, <1>5, <1>6, <1>7, <1>8, <1>9, <1>10, <1>11, <1>12, <1>13, <1>14,
       <1>15, <1>16, <1>17, <1>18, <1>19, <1>20, <1>21, <1>22, <1>23, <1>24, <1>25, <1>26, <1>27
       DEF Next, Worker, ProcessEvent, WaitForUserAction,
       OperationProgress, Requests

\* Every step keeps the places.
LEMMA Placed ==
  ASSUME IInv, Next
  PROVE  PlaceInv'
  <1> USE NullAssumption DEF IInv, ItemTypeOK, ItemsOK, ThreadsOK, PlaceInv,
         HasItem, Outside, flagVars, placeVars, itemVars, threadVars, historyVars
  <1>1. CASE Check
    BY <1>1 DEF Check
  <1>2. CASE Wake
    BY <1>2 DEF Wake, EventConsumed
  <1>3. CASE BeginWithoutItem
    BY <1>3 DEF BeginWithoutItem
  <1>4. CASE Begin
    BY <1>4 DEF Begin
  <1>5. CASE Open \/ Execute \/ TransferEnds
    BY <1>5 DEF Open, Execute, TransferEnds
  <1>6. CASE Fail
    BY <1>6 DEF Fail
  <1>7. CASE SetDone \/ Detach
    BY <1>7 DEF SetDone, Detach, StatusDone
  <1>8. CASE Forget
    BY <1>8 DEF Forget, Forgotten
  <1>9. CASE Retire
    BY <1>9 DEF Retire, ItemsSectionFree
  <1>10. CASE Release
    BY <1>10 DEF Release
  <1>11. CASE Ask
    BY <1>11 DEF Ask, Question
  <1>12. CASE ShowError
    BY <1>12 DEF ShowError, Question
  <1>13. CASE AskingEnds
    BY <1>13 DEF AskingEnds, EventConsumed
  <1>14. CASE Asked
    BY <1>14 DEF Asked, ActionCleared, PrevStatus
  <1>15. CASE Progress \/ Paused
    BY <1>15 DEF Progress, Paused
  <1>16. CASE PauseEnds \/ Resumed
    BY <1>16 DEF PauseEnds, Resumed, EventConsumed
  <1>17. CASE Process
    BY <1>17 DEF Process, CriticalSectionFree, Outside
  <1>18. CASE Trigger
    BY <1>18 DEF Trigger, Signal
  <1>19. CASE LookUps
    BY <1>19 DEF LookUps, LookUp
  <1>20. CASE Pause
    BY <1>20 DEF Pause, Fails, Returns
  <1>21. CASE Resume
    BY <1>21 DEF Resume, SetsEvent, Fails, Returns
  <1>22. CASE Show
    BY <1>22 DEF Show, Fails, Returns
  <1>23. CASE Answer
    BY <1>23 DEF Answer, Fails, Returns, AnswerHeard
  <1>24. CASE Cancel
    BY <1>24 DEF Cancel, Returns
  <1>25. CASE CancelFlag
    BY <1>25 DEF CancelFlag
  <1>26. CASE CancelWakes
    BY <1>26 DEF CancelWakes, SetsEvent, Fails, Returns, WaitsForUser
  <1>27. CASE Terminate
    BY <1>27 DEF Terminate
  <1>28. QED
    BY <1>1, <1>2, <1>3, <1>4, <1>5, <1>6, <1>7, <1>8, <1>9, <1>10, <1>11, <1>12, <1>13, <1>14,
       <1>15, <1>16, <1>17, <1>18, <1>19, <1>20, <1>21, <1>22, <1>23, <1>24, <1>25, <1>26, <1>27
       DEF Next, Worker, ProcessEvent, WaitForUserAction,
       OperationProgress, Requests

\* Every step keeps the activity to the item of the worker.
LEMMA StatusKept ==
  ASSUME IInv, Next
  PROVE  StatusInv'
  <1> USE NullAssumption DEF IInv, ItemTypeOK, ItemsOK, PlaceInv, StatusInv,
         Activity, HasItem, Questions, Outside,
          flagVars, placeVars, itemVars, threadVars, historyVars
  <1>1. CASE Check
    BY <1>1 DEF Check
  <1>2. CASE Wake
    BY <1>2 DEF Wake, EventConsumed
  <1>3. CASE BeginWithoutItem
    BY <1>3 DEF BeginWithoutItem
  <1>4. CASE Begin
    BY <1>4 DEF Begin
  <1>5. CASE Open \/ Execute \/ TransferEnds
    BY <1>5 DEF Open, Execute, TransferEnds
  <1>6. CASE Fail
    BY <1>6 DEF Fail
  <1>7. CASE SetDone \/ Detach
    BY <1>7 DEF SetDone, Detach, StatusDone
  <1>8. CASE Forget
    BY <1>8 DEF Forget, Forgotten
  <1>9. CASE Retire
    BY <1>9 DEF Retire, ItemsSectionFree
  <1>10. CASE Release
    BY <1>10 DEF Release
  <1>11. CASE Ask
    BY <1>11 DEF Ask, Question
  <1>12. CASE ShowError
    BY <1>12 DEF ShowError, Question
  <1>13. CASE AskingEnds
    BY <1>13 DEF AskingEnds, EventConsumed
  <1>14. CASE Asked
    BY <1>14 DEF Asked, ActionCleared, PrevStatus
  <1>15. CASE Progress \/ Paused
    BY <1>15 DEF Progress, Paused
  <1>16. CASE PauseEnds \/ Resumed
    BY <1>16 DEF PauseEnds, Resumed, EventConsumed
  <1>17. CASE Process
    BY <1>17 DEF Process, CriticalSectionFree, Outside
  <1>18. CASE Trigger
    BY <1>18 DEF Trigger, Signal
  <1>19. CASE LookUps
    BY <1>19 DEF LookUps, LookUp
  <1>20. CASE Pause
    BY <1>20 DEF Pause, Fails, Returns
  <1>21. CASE Resume
    BY <1>21 DEF Resume, SetsEvent, Fails, Returns
  <1>22. CASE Show
    BY <1>22 DEF Show, Fails, Returns
  <1>23. CASE Answer
    BY <1>23 DEF Answer, Fails, Returns, AnswerHeard
  <1>24. CASE Cancel
    BY <1>24 DEF Cancel, Returns
  <1>25. CASE CancelFlag
    BY <1>25 DEF CancelFlag
  <1>26. CASE CancelWakes
    BY <1>26 DEF CancelWakes, SetsEvent, Fails, Returns, WaitsForUser
  <1>27. CASE Terminate
    BY <1>27 DEF Terminate
  <1>28. QED
    BY <1>1, <1>2, <1>3, <1>4, <1>5, <1>6, <1>7, <1>8, <1>9, <1>10, <1>11, <1>12, <1>13, <1>14,
       <1>15, <1>16, <1>17, <1>18, <1>19, <1>20, <1>21, <1>22, <1>23, <1>24, <1>25, <1>26, <1>27
       DEF Next, Worker, ProcessEvent, WaitForUserAction,
       OperationProgress, Requests

\* Every step keeps the question the last one.
LEMMA QuestionKept ==
  ASSUME IInv, Next
  PROVE  QuestionInv'
  <1> USE DEF IInv, ItemTypeOK, NumbersOK, QuestionInv, Outside,
         HasItem, flagVars, placeVars, itemVars, threadVars, historyVars
  <1>1. CASE Check
    BY <1>1 DEF Check
  <1>2. CASE Wake
    BY <1>2 DEF Wake, EventConsumed
  <1>3. CASE BeginWithoutItem
    BY <1>3 DEF BeginWithoutItem
  <1>4. CASE Begin
    BY <1>4 DEF Begin
  <1>5. CASE Open \/ Execute \/ TransferEnds
    BY <1>5 DEF Open, Execute, TransferEnds
  <1>6. CASE Fail
    BY <1>6 DEF Fail
  <1>7. CASE SetDone \/ Detach
    BY <1>7 DEF SetDone, Detach, StatusDone
  <1>8. CASE Forget
    BY <1>8 DEF Forget, Forgotten
  <1>9. CASE Retire
    BY <1>9 DEF Retire, ItemsSectionFree
  <1>10. CASE Release
    BY <1>10 DEF Release
  <1>11. CASE Ask
    BY <1>11 DEF Ask, Question
  <1>12. CASE ShowError
    BY <1>12 DEF ShowError, Question
  <1>13. CASE AskingEnds
    BY <1>13 DEF AskingEnds, EventConsumed
  <1>14. CASE Asked
    BY <1>14 DEF Asked, ActionCleared, PrevStatus
  <1>15. CASE Progress \/ Paused
    BY <1>15 DEF Progress, Paused
  <1>16. CASE PauseEnds \/ Resumed
    BY <1>16 DEF PauseEnds, Resumed, EventConsumed
  <1>17. CASE Process
    BY <1>17 DEF Process, CriticalSectionFree, Outside
  <1>18. CASE Trigger
    BY <1>18 DEF Trigger, Signal
  <1>19. CASE LookUps
    BY <1>19 DEF LookUps, LookUp
  <1>20. CASE Pause
    BY <1>20 DEF Pause, Fails, Returns
  <1>21. CASE Resume
    BY <1>21 DEF Resume, SetsEvent, Fails, Returns
  <1>22. CASE Show
    BY <1>22 DEF Show, Fails, Returns
  <1>23. CASE Answer
    <2>1. asks' = asks /\ pc' = pc /\ uipc = "showing" /\ uipc' = "ready"
      BY <1>23 DEF Answer, Returns
    <2>2. CASE answered' = answered /\ FUserAction' = FUserAction
      BY <2>1, <2>2
    <2>3. CASE asks = shown /\ answered' = answered \cup {shown} /\ FUserAction' = 0
      <3>1. shown # 0 /\ shown \in Nat
        BY <2>1
      <3>2. shown \in 1..asks
        BY <2>3, <3>1
      <3>3. QED
        BY <2>1, <2>3, <3>2
    <2>4. QED
      BY <1>23, <2>2, <2>3 DEF Answer
  <1>24. CASE Cancel
    BY <1>24 DEF Cancel, Returns
  <1>25. CASE CancelFlag
    BY <1>25 DEF CancelFlag
  <1>26. CASE CancelWakes
    BY <1>26 DEF CancelWakes, SetsEvent, Fails, Returns, WaitsForUser
  <1>27. CASE Terminate
    BY <1>27 DEF Terminate
  <1>28. QED
    BY <1>1, <1>2, <1>3, <1>4, <1>5, <1>6, <1>7, <1>8, <1>9, <1>10, <1>11, <1>12, <1>13, <1>14,
       <1>15, <1>16, <1>17, <1>18, <1>19, <1>20, <1>21, <1>22, <1>23, <1>24, <1>25, <1>26, <1>27
       DEF Next, Worker, ProcessEvent, WaitForUserAction,
       OperationProgress, Requests

\* Every step keeps the item under ItemDelete.
LEMMA CancelKept ==
  ASSUME IInv, Next
  PROVE  CancelInv'
  <1> USE NullAssumption DEF IInv, ItemTypeOK, ItemsOK, PlaceInv, CancelInv,
         Outside, HasItem, flagVars, placeVars, itemVars, threadVars, historyVars
  <1>1. CASE Check
    BY <1>1 DEF Check
  <1>2. CASE Wake
    BY <1>2 DEF Wake, EventConsumed
  <1>3. CASE BeginWithoutItem
    BY <1>3 DEF BeginWithoutItem
  <1>4. CASE Begin
    BY <1>4 DEF Begin
  <1>5. CASE Open \/ Execute \/ TransferEnds
    BY <1>5 DEF Open, Execute, TransferEnds
  <1>6. CASE Fail
    BY <1>6 DEF Fail
  <1>7. CASE SetDone \/ Detach
    BY <1>7 DEF SetDone, Detach, StatusDone
  <1>8. CASE Forget
    BY <1>8 DEF Forget, Forgotten
  <1>9. CASE Retire
    BY <1>9 DEF Retire, ItemsSectionFree
  <1>10. CASE Release
    BY <1>10 DEF Release
  <1>11. CASE Ask
    BY <1>11 DEF Ask, Question
  <1>12. CASE ShowError
    BY <1>12 DEF ShowError, Question
  <1>13. CASE AskingEnds
    BY <1>13 DEF AskingEnds, EventConsumed
  <1>14. CASE Asked
    BY <1>14 DEF Asked, ActionCleared, PrevStatus
  <1>15. CASE Progress \/ Paused
    BY <1>15 DEF Progress, Paused
  <1>16. CASE PauseEnds \/ Resumed
    BY <1>16 DEF PauseEnds, Resumed, EventConsumed
  <1>17. CASE Process
    BY <1>17 DEF Process, CriticalSectionFree, Outside
  <1>18. CASE Trigger
    BY <1>18 DEF Trigger, Signal
  <1>19. CASE LookUps
    BY <1>19 DEF LookUps, LookUp
  <1>20. CASE Pause
    BY <1>20 DEF Pause, Fails, Returns
  <1>21. CASE Resume
    BY <1>21 DEF Resume, SetsEvent, Fails, Returns
  <1>22. CASE Show
    BY <1>22 DEF Show, Fails, Returns
  <1>23. CASE Answer
    BY <1>23 DEF Answer, Fails, Returns, AnswerHeard
  <1>24. CASE Cancel
    BY <1>24 DEF Cancel, Returns
  <1>25. CASE CancelFlag
    BY <1>25 DEF CancelFlag
  <1>26. CASE CancelWakes
    BY <1>26 DEF CancelWakes, SetsEvent, Fails, Returns, WaitsForUser
  <1>27. CASE Terminate
    BY <1>27 DEF Terminate
  <1>28. QED
    BY <1>1, <1>2, <1>3, <1>4, <1>5, <1>6, <1>7, <1>8, <1>9, <1>10, <1>11, <1>12, <1>13, <1>14,
       <1>15, <1>16, <1>17, <1>18, <1>19, <1>20, <1>21, <1>22, <1>23, <1>24, <1>25, <1>26, <1>27
       DEF Next, Worker, ProcessEvent, WaitForUserAction,
       OperationProgress, Requests

\* Every step keeps the event to one purpose, unless it sets a stray one.
LEMMA AnswerKept ==
  ASSUME IInv, Next
  PROVE  AnswerInv'
  <1> USE NullAssumption DEF IInv, ItemTypeOK, FlagsOK, ThreadsOK, ItemsOK,
         PlaceInv, StatusInv, QuestionInv, AnswerInv, Activity, Questions, Outside, HasItem,
          flagVars, placeVars, itemVars, threadVars, historyVars
  <1>1. CASE Check
    BY <1>1 DEF Check
  <1>2. CASE Wake
    BY <1>2 DEF Wake, EventConsumed
  <1>3. CASE BeginWithoutItem
    BY <1>3 DEF BeginWithoutItem
  <1>4. CASE Begin
    BY <1>4 DEF Begin
  <1>5. CASE Open \/ Execute \/ TransferEnds
    BY <1>5 DEF Open, Execute, TransferEnds
  <1>6. CASE Fail
    BY <1>6 DEF Fail
  <1>7. CASE SetDone \/ Detach
    BY <1>7 DEF SetDone, Detach, StatusDone
  <1>8. CASE Forget
    BY <1>8 DEF Forget, Forgotten
  <1>9. CASE Retire
    BY <1>9 DEF Retire, ItemsSectionFree
  <1>10. CASE Release
    BY <1>10 DEF Release
  <1>11. CASE Ask
    BY <1>11 DEF Ask, Question
  <1>12. CASE ShowError
    BY <1>12 DEF ShowError, Question
  <1>13. CASE AskingEnds
    BY <1>13 DEF AskingEnds, EventConsumed
  <1>14. CASE Asked
    BY <1>14 DEF Asked, ActionCleared, PrevStatus
  <1>15. CASE Progress \/ Paused
    BY <1>15 DEF Progress, Paused
  <1>16. CASE PauseEnds \/ Resumed
    BY <1>16 DEF PauseEnds, Resumed, EventConsumed
  <1>17. CASE Process
    BY <1>17 DEF Process, CriticalSectionFree, Outside
  <1>18. CASE Trigger
    BY <1>18 DEF Trigger, Signal
  <1>19. CASE LookUps
    BY <1>19 DEF LookUps, LookUp
  <1>20. CASE Pause
    BY <1>20 DEF Pause, Fails, Returns
  <1>21. CASE Resume
    BY <1>21 DEF Resume, SetsEvent, Fails, Returns
  <1>22. CASE Show
    BY <1>22 DEF Show, Fails, Returns
  <1>23. CASE Answer
    BY <1>23 DEF Answer, Fails, Returns, AnswerHeard
  <1>24. CASE Cancel
    BY <1>24 DEF Cancel, Returns
  <1>25. CASE CancelFlag
    BY <1>25 DEF CancelFlag
  <1>26. CASE CancelWakes
    BY <1>26 DEF CancelWakes, SetsEvent, Fails, Returns, WaitsForUser
  <1>27. CASE Terminate
    BY <1>27 DEF Terminate
  <1>28. QED
    BY <1>1, <1>2, <1>3, <1>4, <1>5, <1>6, <1>7, <1>8, <1>9, <1>10, <1>11, <1>12, <1>13, <1>14,
       <1>15, <1>16, <1>17, <1>18, <1>19, <1>20, <1>21, <1>22, <1>23, <1>24, <1>25, <1>26, <1>27
       DEF Next, Worker, ProcessEvent, WaitForUserAction,
       OperationProgress, Requests

----------------------------------------------------------------------------
(* The invariant and what it implies                                       *)

\* The worker starts free, without an item.
LEMMA InitInv == Init => IInv
  <1> SUFFICES ASSUME Init PROVE IInv
    OBVIOUS
  <1> USE BoundAssumption, NullAssumption DEF Init
  <1>1. FlagsOK /\ NumbersOK
    <2>1. 0 <= MaxAsks /\ 0 <= MaxFailures
      BY BoundAssumption
    <2>2. FlagsOK
      BY DEF FlagsOK
    <2>3. NumbersOK
      BY <2>1 DEF NumbersOK
    <2>4. QED
      BY <2>2, <2>3
  <1>2. ThreadsOK /\ ItemsOK
    BY DEF ThreadsOK, ItemsOK, HasItem, Taken
  <1>3. PlaceInv
    BY DEF PlaceInv, Outside, HasItem
  <1>4. StatusInv
    BY DEF StatusInv, Activity, Questions
  <1>5. QuestionInv /\ CancelInv /\ AnswerInv
    BY DEF QuestionInv, CancelInv, AnswerInv
  <1>6. QED
    BY <1>1, <1>2, <1>3, <1>4, <1>5 DEF IInv, ItemTypeOK

\* The invariant is inductive.
LEMMA NextInv == IInv /\ [Next]_vars => IInv'
  <1> SUFFICES ASSUME IInv, [Next]_vars PROVE IInv'
    OBVIOUS
  <1>1. CASE Next
    BY <1>1, FlagsTyped, NumbersTyped, ThreadsTyped, ItemsTyped, Placed, StatusKept, QuestionKept,
       CancelKept, AnswerKept DEF IInv, ItemTypeOK
  <1>2. CASE UNCHANGED vars
    <2> USE <1>2 DEF vars, flagVars, placeVars, itemVars, threadVars, historyVars
    <2>1. ItemTypeOK'
      BY DEF IInv, ItemTypeOK, FlagsOK, NumbersOK, ThreadsOK, ItemsOK
    <2>2. PlaceInv' /\ StatusInv'
      BY DEF IInv, PlaceInv, StatusInv
    <2>3. QuestionInv' /\ CancelInv'
      BY DEF IInv, QuestionInv, CancelInv
    <2>4. AnswerInv'
      BY DEF IInv, AnswerInv
    <2>5. QED
      BY <2>1, <2>2, <2>3, <2>4 DEF IInv
  <1>3. QED
    BY <1>1, <1>2

\* The inductive invariant holds in every reachable state.
THEOREM Invariance == Spec => []IInv
  <1>1. Init => IInv
    BY InitInv
  <1>2. IInv /\ [Next]_vars => IInv'
    BY NextInv
  <1>3. QED
    BY <1>1, <1>2, PTL DEF Spec

\* The types of the variables; ProcessEvent has its item as long as it uses it.
THEOREM TypeCorrectness == Spec => []TypeOK
  <1>1. ASSUME IInv PROVE TypeOK
    <2> USE <1>1 DEF IInv, ItemTypeOK
    <2>1. {FEvent, FTerminated, FCancel, FPause, Active, retry, cancelled, free, stray} \subseteq BOOLEAN
      BY DEF FlagsOK
    <2>2. /\ {FUserAction, asks, shown} \subseteq 0..MaxAsks /\ answered \subseteq 1..MaxAsks
          /\ failures \in 0..MaxFailures
      <3>1. asks \in Nat /\ MaxAsks \in Nat /\ asks <= MaxAsks
        BY BoundAssumption DEF NumbersOK
      <3>2. 1..asks \subseteq 1..MaxAsks
        BY <3>1
      <3>3. answered \subseteq 1..MaxAsks
        BY <3>2 DEF QuestionInv
      <3>4. /\ FUserAction \in 0..MaxAsks /\ asks \in 0..MaxAsks /\ shown \in 0..MaxAsks
            /\ failures \in 0..MaxFailures
        BY <3>1, BoundAssumption DEF NumbersOK
      <3>5. QED
        BY <3>3, <3>4
    <2>3. QED
      BY <2>1, <2>2 DEF ThreadsOK, ItemsOK, TypeOK
  <1>2. QED
    BY Invariance, <1>1, PTL

\* Who follows the pointer of an item that shows activity finds the worker that
\* works on it; FUserAction points to a variable that still exists.
THEOREM PointersSound == Spec => []LookUpFindsWorker
  <1>1. ASSUME IInv PROVE LookUpFindsWorker
    <2> USE <1>1 DEF IInv
    <2>1. ASSUME NEW i \in Items, status[i] \in Questions \cup {"processing", "paused"}
          PROVE  FTerminalItem[i] /\ FItem = i /\ pc \notin Outside
      <3>1. FItem = i /\ pc \in HasItem \ {"unlink", "forget"}
        BY <2>1 DEF StatusInv, Activity
      <3>2. pc \notin Outside /\ FTerminalItem[i]
        BY <3>1 DEF PlaceInv, HasItem, Outside
      <3>3. QED
        BY <3>1, <3>2
    <2>2. FUserAction # 0 => pc \in {"asking", "asked"} /\ FUserAction = asks
      BY DEF QuestionInv
    <2>3. QED
      BY <2>1, <2>2 DEF LookUpFindsWorker
  <1>2. QED
    BY Invariance, <1>1, PTL

\* A question is over when its user has answered it, for users of any habits,
\* as long as no Resume and no Cancel has left a stray event.
THEOREM EveryQuestionAnswered == Spec => []QuestionsAnswered
  <1>1. IInv => QuestionsAnswered
    BY DEF IInv, AnswerInv, QuestionsAnswered
  <1>2. QED
    BY Invariance, <1>1, PTL

\* A question that is being shown is still being asked, on the same condition.
THEOREM ShownQuestionLives == Spec => []QuestionOutlivesDialog
  <1>1. IInv => QuestionOutlivesDialog
    BY DEF IInv, AnswerInv, QuestionOutlivesDialog
  <1>2. QED
    BY Invariance, <1>1, PTL

\* ProcessEvent runs without an item only after a Resume or a Cancel has left a
\* stray event: answers, pauses, the queue and its end never leave one.
THEOREM NoStaleEvent == Spec => [](stray \/ ProcessEventHasItem)
  <1>1. IInv => stray \/ ProcessEventHasItem
    BY DEF IInv, AnswerInv, ProcessEventHasItem
  <1>2. QED
    BY Invariance, <1>1, PTL

\* ItemDelete cancels a worker for the sake of its own item.
THEOREM CancelSound == Spec => CancelHitsItsItem
  <1>1. ASSUME IInv, [Next]_vars
        PROVE  [uipc = "flag" /\ uipc' = "wake" => FItem \in {uiItem, NoItem}]_vars
    BY <1>1 DEF IInv, ItemTypeOK, ItemsOK, CancelInv
  <1>2. QED
    BY Invariance, <1>1, PTL DEF Spec, CancelHitsItsItem
=============================================================================
