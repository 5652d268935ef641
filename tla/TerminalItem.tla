---------------------------- MODULE TerminalItem ----------------------------
(***************************************************************************)
(* One worker of the queue, TTerminalItem of source/core/Queue.cpp, and    *)
(* the user interface thread that pauses, resumes, answers and cancels the *)
(* transfer it executes.                                                   *)
(*                                                                         *)
(* The two threads share the worker's flags and one auto-reset event,      *)
(* which serves three purposes: work has arrived, a wait of the transfer   *)
(* is over, and the thread is told to terminate.  A request of the user    *)
(* looks the worker up under FItemsSection, by the status of the item the  *)
(* user sees, and acts on the worker after the section is left; only       *)
(* ItemDelete keeps it.  The queue around the worker is reduced to what it *)
(* does to this worker: it hands out items while the worker is free, and   *)
(* takes them back.                                                        *)
(***************************************************************************)
EXTENDS Naturals, FiniteSets

CONSTANTS
  Items, NoItem,
  Users,       \* each one the operations a user makes use of
  MaxAsks,     \* bound: questions and error messages of all transfers
  MaxFailures  \* bound: failed connections and transfers

ASSUME NullAssumption == NoItem \notin Items
ASSUME UsersAssumption == Users \subseteq SUBSET {"pause", "resume", "answer", "cancel", "close"}
ASSUME BoundAssumption == MaxAsks \in Nat /\ MaxFailures \in Nat

VARIABLES
  \* TTerminalItem
  FEvent, FTerminated, FCancel, FPause, FItem,
  FUserAction,  \* the number of the question it points to; 0: NULL
  Active,       \* FTerminal->Active
  pc,           \* where the worker thread is
  back,         \* where it goes on after a question
  retry,        \* the local Retry of ProcessEvent
  cancelled,    \* FCancel as the end of ProcessEvent reads it
  free,         \* the queue may hand it an item
  \* TQueueItem
  status, FTerminalItem,
  \* the queue thread and the user interface thread
  qpc, uipc, uiItem,
  operations,  \* what the user does
  shown,  \* the question ProcessUserAction shows
  \* history and bounds
  asks, failures, answered, fault,
  stray  \* the event was set for a wait that is over, or over an open question

flagVars == <<FEvent, FTerminated, FCancel, FPause>>
placeVars == <<pc, back, retry, cancelled, free>>
itemVars == <<status, FTerminalItem>>
threadVars == <<qpc, uipc, uiItem, operations, shown>>
historyVars == <<asks, failures, answered, fault, stray>>
vars == <<flagVars, FItem, FUserAction, Active, placeVars, itemVars, threadVars, historyVars>>

Questions == {"prompt", "query", "error"}  \* IsUserActionStatus

\* The place where the worker holds its FCriticalSection: all of ProcessEvent.
Outside == {"check", "wait", "gone"}
CriticalSectionFree == pc \in Outside

\* ItemDelete keeps FItemsSection while it cancels.  Mutant: it does not.
ItemsSectionIgnored == TRUE
ItemsSectionFree == uipc \notin {"cancel", "flag", "wake"}

\* Mutant: the event stays set until it is reset by hand.
EventStays == TRUE

\* WaitForSingleObject resets the event it was woken by.
EventConsumed == FALSE

----------------------------------------------------------------------------
(* TSignalThread::Execute                                                  *)

\* while (!FTerminated)
Check ==
  /\ pc = "check"
  /\ pc' = IF FTerminated THEN "gone" ELSE "wait"
  /\ UNCHANGED <<flagVars, FItem, FUserAction, Active, back, retry, cancelled, free, itemVars,
                 threadVars, historyVars>>

\* WaitForEvent consumes the event and reports it unless the thread is told
\* to terminate; ProcessEvent enters FCriticalSection.
Wake ==
  /\ pc = "wait"
  /\ FEvent
  /\ FEvent' = EventConsumed
  /\ pc' = IF FTerminated THEN "check" ELSE "begin"
  /\ UNCHANGED <<FTerminated, FCancel, FPause, FItem, FUserAction, Active, back, retry, cancelled,
                 free, itemVars, threadVars, historyVars>>

----------------------------------------------------------------------------
(* TTerminalItem::ProcessEvent                                             *)

\* FItem is dereferenced before it is asserted not to be NULL.
Begin ==
  /\ pc = "begin"
  /\ FItem # NoItem
  /\ FCancel' = FALSE /\ FPause' = FALSE
  /\ FTerminalItem' = [FTerminalItem EXCEPT ![FItem] = TRUE]
  /\ retry' = TRUE
  /\ IF Active
       THEN pc' = "connected" /\ UNCHANGED status
       ELSE pc' = "connecting" /\ status' = [status EXCEPT ![FItem] = "connecting"]
  /\ UNCHANGED <<FEvent, FTerminated, FItem, FUserAction, Active, back, cancelled, free,
                 threadVars, historyVars>>

BeginWithoutItem ==
  /\ pc = "begin"
  /\ FItem = NoItem
  /\ fault' = "ProcessEvent without an item"
  /\ UNCHANGED <<flagVars, FItem, FUserAction, Active, placeVars, itemVars, threadVars, asks,
                 failures, answered, stray>>

Open ==
  /\ pc = "connecting"
  /\ Active' = TRUE
  /\ pc' = "connected"
  /\ UNCHANGED <<flagVars, FItem, FUserAction, back, retry, cancelled, free, itemVars, threadVars,
                 historyVars>>

Execute ==
  /\ pc = "connected"
  /\ retry' = FALSE
  /\ IF FCancel
       THEN pc' = "finish" /\ UNCHANGED status
       ELSE pc' = "running" /\ status' = [status EXCEPT ![FItem] = "processing"]
  /\ UNCHANGED <<flagVars, FItem, FUserAction, Active, back, cancelled, free, FTerminalItem,
                 threadVars, historyVars>>

\* Open or Execute throws; the connection may be gone.  The handler shows the
\* error unless FCancel is set.
Fail ==
  /\ pc \in {"connecting", "running"}
  /\ failures < MaxFailures
  /\ failures' = failures + 1
  /\ Active' \in {FALSE, Active}
  /\ \/ pc' = "finish" /\ UNCHANGED back  \* an exception without a message
     \/ ~FCancel /\ asks < MaxAsks /\ pc' = "show" /\ back' = "finish"
  /\ UNCHANGED <<flagVars, FItem, FUserAction, retry, cancelled, free, itemVars, threadVars, asks,
                 answered, fault, stray>>

TransferEnds ==
  /\ pc = "running"
  /\ pc' = "finish"
  /\ UNCHANGED <<flagVars, FItem, FUserAction, Active, back, retry, cancelled, free, itemVars,
                 threadVars, historyVars>>

\* The end of ProcessEvent: status, then the item's pointer, then the worker's.
\* Mutant: the status is not set before the pointers are.
StillProcessing == status
StatusDone == [status EXCEPT ![FItem] = "done"]

SetDone ==
  /\ pc = "finish"
  /\ status' = StatusDone
  /\ pc' = "unlink"
  /\ UNCHANGED <<flagVars, FItem, FUserAction, Active, back, retry, cancelled, free, FTerminalItem,
                 threadVars, historyVars>>

Detach ==
  /\ pc = "unlink"
  /\ FTerminalItem' = [FTerminalItem EXCEPT ![FItem] = FALSE]
  /\ pc' = "forget"
  /\ UNCHANGED <<flagVars, FItem, FUserAction, Active, back, retry, cancelled, free, status,
                 threadVars, historyVars>>

\* Mutant: the worker keeps its pointer.
Remembered == FItem
Forgotten == NoItem

\* Only one item is "done" and not yet retired: the one the local Item holds.
Forget ==
  /\ pc = "forget"
  /\ FItem' = Forgotten
  /\ cancelled' = FCancel
  /\ pc' = "retire"
  /\ UNCHANGED <<flagVars, FUserAction, Active, back, retry, free, itemVars, threadVars, historyVars>>

\* RetryItem or DeleteItem; both do nothing when the queue closes.  A retried
\* item is in the queue again, its status still qsDone.
Retire ==
  /\ pc = "retire"
  /\ ItemsSectionFree
  /\ status' = [i \in Items |->
       IF status[i] # "done" \/ uipc = "closing" THEN status[i]
       ELSE IF retry /\ ~cancelled THEN "retried" ELSE "left"]
  /\ pc' = "release"
  /\ UNCHANGED <<flagVars, FItem, FUserAction, Active, back, retry, cancelled, free, FTerminalItem,
                 threadVars, historyVars>>

\* TerminalFree keeps a connected worker if the limit allows it.
Release ==
  /\ pc = "release"
  /\ \/ Active /\ uipc # "closing" /\ free' = TRUE /\ UNCHANGED <<FTerminated, FEvent>>
     \/ FTerminated' = TRUE /\ FEvent' = TRUE /\ UNCHANGED free
  /\ pc' = "check"
  /\ UNCHANGED <<FCancel, FPause, FItem, FUserAction, Active, back, retry, cancelled, itemVars,
                 threadVars, historyVars>>

----------------------------------------------------------------------------
(* Questions: TerminalQueryUser, TerminalPromptUser,                       *)
(* TerminalShowExtendedException and WaitForUserAction                     *)

\* The transfer or the connection asks; the question lives on the stack.
Question(kind) ==
  /\ FUserAction' = asks + 1
  /\ asks' = asks + 1
  /\ status' = [status EXCEPT ![FItem] = kind]
  /\ pc' = "asking"
  /\ UNCHANGED <<flagVars, FItem, Active, retry, cancelled, free, FTerminalItem, threadVars,
                 failures, answered, fault, stray>>

Ask ==
  /\ pc \in {"connecting", "running"}
  /\ asks < MaxAsks
  /\ back' = pc
  /\ \E kind \in Questions : Question(kind)

\* The handler of an exception asks after it has looked at FCancel.
ShowError ==
  /\ pc = "show"
  /\ asks < MaxAsks
  /\ Question("error")
  /\ UNCHANGED back

\* !FTerminated && WaitForEvent() && !FCancel.
AskingEnds ==
  /\ pc = "asking"
  /\ FTerminated \/ FEvent
  /\ FEvent' = IF FTerminated THEN FEvent ELSE EventConsumed
  /\ pc' = "asked"
  /\ UNCHANGED <<FTerminated, FCancel, FPause, FItem, FUserAction, Active, back, retry, cancelled,
                 free, itemVars, threadVars, historyVars>>

\* The status the item had before the question.
PrevStatus == IF back = "connecting" \/ (back = "finish" /\ retry) THEN "connecting" ELSE "processing"
ActionCleared == 0

\* __finally.  The error message of ProcessEvent offers to cancel, and counts
\* as cancelled when it has not been answered.
Asked ==
  /\ pc = "asked"
  /\ FUserAction' = ActionCleared
  /\ status' = [status EXCEPT ![FItem] = PrevStatus]
  /\ pc' = back
  /\ FCancel' \in IF back # "finish" THEN {FCancel} ELSE IF asks \in answered THEN {FCancel, TRUE} ELSE {TRUE}
  /\ UNCHANGED <<FEvent, FTerminated, FPause, FItem, Active, back, retry, cancelled, free,
                 FTerminalItem, threadVars, historyVars>>

----------------------------------------------------------------------------
(* TTerminalItem::OperationProgress                                        *)

\* The transfer reports its progress; a pause is taken, a cancel obeyed.
Progress ==
  /\ pc = "running"
  /\ IF FPause /\ ~FTerminated /\ ~FCancel
       THEN pc' = "pausing" /\ FPause' = FALSE
       ELSE /\ FTerminated \/ FCancel
            /\ pc' = "finish" /\ UNCHANGED FPause
  /\ UNCHANGED <<FEvent, FTerminated, FCancel, FItem, FUserAction, Active, back, retry, cancelled,
                 free, itemVars, threadVars, historyVars>>

Paused ==
  /\ pc = "pausing"
  /\ status' = [status EXCEPT ![FItem] = "paused"]
  /\ pc' = "paused"
  /\ UNCHANGED <<flagVars, FItem, FUserAction, Active, back, retry, cancelled, free, FTerminalItem,
                 threadVars, historyVars>>

PauseEnds ==
  /\ pc = "paused"
  /\ FEvent
  /\ FEvent' = EventConsumed
  /\ pc' = "resuming"
  /\ UNCHANGED <<FTerminated, FCancel, FPause, FItem, FUserAction, Active, back, retry, cancelled,
                 free, itemVars, threadVars, historyVars>>

Resumed ==
  /\ pc = "resuming"
  /\ status' = [status EXCEPT ![FItem] = "processing"]
  /\ pc' = IF FTerminated \/ FCancel THEN "finish" ELSE "running"
  /\ UNCHANGED <<flagVars, FItem, FUserAction, Active, back, retry, cancelled, free, FTerminalItem,
                 threadVars, historyVars>>

----------------------------------------------------------------------------
(* The queue thread                                                        *)

\* TTerminalItem::Process waits for FCriticalSection ...
Process ==
  /\ qpc = "ready" /\ uipc # "closing"
  /\ free
  /\ CriticalSectionFree
  /\ \E i \in Items :
       /\ status[i] \in {"pending", "retried"}
       /\ FItem' = i
  /\ free' = FALSE
  /\ qpc' = "trigger"
  /\ UNCHANGED <<flagVars, FUserAction, Active, pc, back, retry, cancelled, itemVars, uipc, uiItem,
                 operations, shown, historyVars>>

\* ... and then sets the event.
Signal == TRUE

Trigger ==
  /\ qpc = "trigger"
  /\ FEvent' = Signal
  /\ qpc' = "ready"
  /\ UNCHANGED <<FTerminated, FCancel, FPause, FItem, FUserAction, Active, placeVars, itemVars,
                 uipc, uiItem, operations, shown, historyVars>>

----------------------------------------------------------------------------
(* The user interface thread                                               *)

\* Under FItemsSection: the item's status allows the request, and its
\* FTerminalItem is remembered.
LookUp(operation, i, statuses) ==
  /\ operation \in operations
  /\ uipc = "ready"
  /\ status[i] \in statuses
  /\ uipc' = operation
  /\ uiItem' = i
  /\ UNCHANGED <<flagVars, FItem, FUserAction, Active, placeVars, itemVars, qpc, operations,
                 shown, historyVars>>

\* The request has been made.
Returns == uipc' = "ready" /\ uiItem' = NoItem /\ shown' = 0 /\ UNCHANGED <<qpc, operations>>

\* A method of a worker that is no more, or that has no item.
Fails(what) == fault' = what /\ UNCHANGED <<FPause, FEvent, stray>>

\* Resume and Cancel go by the status, which the worker changes only after it
\* has been woken: a stray event is one that another wait may take for its own,
\* or that ends a question the user interface may show at any moment.
SetsEvent(waits) ==
  /\ FEvent' = (FEvent \/ waits)
  /\ stray' = (stray \/ (waits /\ pc \in {"asking", "asked", "resuming"}))

Pause ==
  /\ uipc = "pause"
  /\ IF pc = "gone" THEN Fails("worker used after it is gone")
     ELSE IF FItem = NoItem THEN Fails("worker has no item")
     ELSE /\ FPause' = (FPause \/ status[FItem] = "processing")
          /\ UNCHANGED <<FEvent, fault, stray>>
  /\ Returns
  /\ UNCHANGED <<FTerminated, FCancel, FItem, FUserAction, Active, placeVars, itemVars, asks,
                 failures, answered>>

Resume ==
  /\ uipc = "resume"
  /\ IF pc = "gone" THEN Fails("worker used after it is gone")
     ELSE IF FItem = NoItem THEN Fails("worker has no item")
     ELSE /\ SetsEvent(status[FItem] = "paused")
          /\ UNCHANGED <<FPause, fault>>
  /\ Returns
  /\ UNCHANGED <<FTerminated, FCancel, FItem, FUserAction, Active, placeVars, itemVars, asks,
                 failures, answered>>

\* ProcessUserAction shows the question, if there still is one ...
Show ==
  /\ uipc = "answer"
  /\ IF pc = "gone" THEN Fails("worker used after it is gone") /\ Returns
     ELSE IF FUserAction = 0 THEN Returns /\ UNCHANGED <<FPause, FEvent, fault, stray>>
     ELSE uipc' = "showing" /\ shown' = FUserAction /\ UNCHANGED <<qpc, uiItem, operations, FPause, FEvent, fault,
                                                                stray>>
  /\ UNCHANGED <<FTerminated, FCancel, FItem, FUserAction, Active, placeVars, itemVars, asks,
                 failures, answered>>

\* Mutant: the worker does not hear of the answer.
AnswerUnheard == FEvent
AnswerHeard == TRUE

\* ... which the user answers in their time, and wakes the worker.
Answer ==
  /\ uipc = "showing"
  /\ IF pc \notin {"asking", "asked"} \/ asks # shown
       THEN Fails("question used after it is gone") /\ UNCHANGED <<FUserAction, answered>>
       ELSE /\ answered' = answered \cup {shown}
            /\ FUserAction' = 0
            /\ FEvent' = AnswerHeard
            /\ UNCHANGED <<FPause, fault, stray>>
  /\ Returns
  /\ UNCHANGED <<FTerminated, FCancel, FItem, Active, placeVars, itemVars, asks, failures>>

\* ItemDelete keeps FItemsSection: FTerminalItem is read ...
Cancel ==
  /\ uipc = "cancel"
  /\ IF FTerminalItem[uiItem]
       THEN uipc' = "flag" /\ UNCHANGED <<qpc, uiItem, operations, shown, fault>>
       ELSE Returns /\ fault' = "item has no worker"
  /\ UNCHANGED <<flagVars, FItem, FUserAction, Active, placeVars, itemVars, asks, failures, answered,
                 stray>>

CancelFlag ==
  /\ uipc = "flag"
  /\ FCancel' = TRUE
  /\ uipc' = "wake"
  /\ UNCHANGED <<FEvent, FTerminated, FPause, FItem, FUserAction, Active, placeVars, itemVars, qpc,
                 uiItem, operations, shown, historyVars>>

\* Mutant: a worker is woken whatever it does.
WokenAlways(s) == TRUE
WaitsForUser(s) == s \in Questions \cup {"paused"}

\* ... FCancel is set, and the worker woken if it waits for the user.
CancelWakes ==
  /\ uipc = "wake"
  /\ IF FItem = NoItem THEN Fails("worker has no item")
     ELSE /\ SetsEvent(WaitsForUser(status[FItem]))
          /\ UNCHANGED <<FPause, fault>>
  /\ Returns
  /\ UNCHANGED <<FTerminated, FCancel, FItem, FUserAction, Active, placeVars, itemVars, asks,
                 failures, answered>>

\* The queue's destructor: from now on this thread only waits.
Terminate ==
  /\ "close" \in operations
  /\ uipc = "ready" /\ qpc = "ready"
  /\ FTerminated' = TRUE
  /\ FEvent' = TRUE
  /\ uipc' = "closing"
  /\ UNCHANGED <<FCancel, FPause, FItem, FUserAction, Active, placeVars, itemVars, qpc, uiItem,
                 operations, shown, historyVars>>

\* Any status of an item in the list but qsPending.
Taken == {"connecting", "processing", "paused", "done", "retried"} \cup Questions

LookUps ==
  \E i \in Items :
    \/ LookUp("pause", i, {"processing"})
    \/ LookUp("resume", i, {"paused"})
    \/ LookUp("answer", i, Questions)
    \/ LookUp("cancel", i, Taken)

----------------------------------------------------------------------------
Init ==
  /\ FEvent = FALSE /\ FTerminated = FALSE /\ FCancel = FALSE /\ FPause = FALSE
  /\ FItem = NoItem /\ FUserAction = 0 /\ Active = FALSE
  /\ pc = "check" /\ back = "check" /\ retry = FALSE /\ cancelled = FALSE /\ free = TRUE
  /\ status = [i \in Items |-> "pending"]
  /\ FTerminalItem = [i \in Items |-> FALSE]
  /\ qpc = "ready" /\ uipc = "ready" /\ uiItem = NoItem /\ shown = 0
  /\ operations \in Users
  /\ asks = 0 /\ failures = 0 /\ answered = {} /\ fault = "none" /\ stray = FALSE

ProcessEvent ==
  \/ Begin \/ BeginWithoutItem \/ Open \/ Execute \/ Fail \/ TransferEnds
  \/ SetDone \/ Detach \/ Forget \/ Retire \/ Release

WaitForUserAction == Ask \/ ShowError \/ AskingEnds \/ Asked

OperationProgress == Progress \/ Paused \/ PauseEnds \/ Resumed

Worker == Check \/ Wake \/ ProcessEvent \/ WaitForUserAction \/ OperationProgress

Requests == Pause \/ Resume \/ Show \/ Answer \/ Cancel \/ CancelFlag \/ CancelWakes

\* Undefined behaviour is noted in fault; of its outcomes the model takes the
\* mildest, that nothing else happens.
Next == Worker \/ Process \/ Trigger \/ LookUps \/ Requests \/ Terminate

\* The threads run; a transfer and a connection attempt make progress or end.
\* The user finishes a request begun.
Fairness ==
  /\ WF_vars(Worker)
  /\ WF_vars(Process \/ Trigger)
  /\ WF_vars(Requests)

\* The user answers every question and resumes every transfer paused.
Attention ==
  \A i \in Items : /\ WF_vars(LookUp("answer", i, Questions))
                   /\ WF_vars(LookUp("resume", i, {"paused"}))

Spec == Init /\ [][Next]_vars
FairSpec == Spec /\ Fairness
AttendedSpec == FairSpec /\ Attention

----------------------------------------------------------------------------
(* Properties                                                              *)

\* The places in ProcessEvent between which it uses FItem.
HasItem == {"connecting", "connected", "running", "show", "asking", "asked", "pausing", "paused",
            "resuming", "finish", "unlink", "forget"}

\* The types of the variables; ProcessEvent has an item from its first
\* dereference of FItem to the end of its use (Queue.cpp 1227 to 1272), and
\* none behind it.
TypeOK ==
  /\ {FEvent, FTerminated, FCancel, FPause, Active, retry, cancelled, free, stray} \subseteq BOOLEAN
  /\ pc \in HasItem \cup {"check", "wait", "begin", "retire", "release", "gone"}
  /\ FItem \in Items \cup {NoItem}
  /\ pc \in HasItem => FItem # NoItem
  /\ pc \in {"retire", "release"} => FItem = NoItem
  /\ uiItem \in Items \cup {NoItem}
  /\ {FUserAction, asks, shown} \subseteq 0..MaxAsks /\ answered \subseteq 1..MaxAsks
  /\ failures \in 0..MaxFailures
  /\ back \in {"check", "connecting", "running", "finish"}
  /\ status \in [Items -> Taken \cup {"pending", "left"}]
  /\ FTerminalItem \in [Items -> BOOLEAN]
  /\ qpc \in {"ready", "trigger"}
  /\ uipc \in {"ready", "pause", "resume", "answer", "showing", "cancel", "flag", "wake", "closing"}

\* What the requests rely on when they follow a pointer: an item whose status
\* allows a request has a worker, which works on that item and no other, so that
\* ItemPause and ItemProcessUserAction do not remember NULL; and FUserAction, a
\* pointer to a local variable of the worker, is not NULL only while that
\* variable exists, whichever way the question ends.
LookUpFindsWorker ==
  /\ \A i \in Items :
       status[i] \in Questions \cup {"processing", "paused"} =>
         FTerminalItem[i] /\ FItem = i /\ pc \notin Outside
  /\ FUserAction # 0 => pc \in {"asking", "asked"} /\ FUserAction = asks

\* A worker is cancelled only for the sake of the item it works on: while
\* ItemDelete keeps FItemsSection no other item can have taken its place.
CancelHitsItsItem ==
  [][uipc = "flag" /\ uipc' = "wake" => FItem \in {uiItem, NoItem}]_vars

\* A question is over only when the user has answered it or the worker is to
\* terminate: the event of an earlier item, answer or pause does not end it.
\* Only Resume and Cancel can, when they come to a question or late for a pause.
QuestionsAnswered == pc = "asked" => asks \in answered \/ FTerminated \/ stray

\* While ProcessUserAction shows a question, without a lock, the question is
\* there, the worker waits for its answer and was asked nothing else meanwhile,
\* until a Resume or a Cancel has set the event as above.
QuestionOutlivesDialog == uipc = "showing" => (pc = "asking" /\ shown = asks) \/ stray

\* An item handed to the worker is given back, if the user attends to it, and
\* neither pauses transfers time and again nor closes the queue: no wakening is
\* lost, whether the transfer is cancelled before, while or after it asks.
ItemIsGivenBack ==
  operations \cap {"pause", "close"} = {} => \A i \in Items : FItem = i ~> FItem # i

\* ProcessEvent runs with an item.
ProcessEventHasItem == pc = "begin" => FItem # NoItem
=============================================================================
