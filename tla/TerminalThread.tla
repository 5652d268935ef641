--------------------------- MODULE TerminalThread ---------------------------
(***************************************************************************)
(* The opening of a session on a thread of its own: TTerminalThread of     *)
(* source/core/Queue.cpp, as TTerminalManager::ConnectTerminal uses it.    *)
(*                                                                         *)
(* The main thread starts the action (Open or Reopen of the terminal) on   *)
(* the session thread and waits in RunAction.  Whatever the session has to *)
(* ask or to show is a user action: the session thread leaves a pointer to *)
(* it and waits; the main thread polls the pointer, executes the action    *)
(* and wakes the session thread.  Exceptions are carried across in two     *)
(* variables: FException, what the user action or the whole action has     *)
(* thrown, and FIdleException, what the upkeep of the session has thrown   *)
(* that the waiting session thread does for the main thread's timer.       *)
(*                                                                         *)
(* A user action is the number of a call of WaitForUserAction, 0 stands    *)
(* for NULL.  What the terminal does in Open is any sequence of user       *)
(* actions and failures, with the Information call of its __finally last.  *)
(* Left out: what the user actions say, the wrapping of exceptions in      *)
(* others, WaitForUserAction called by the main thread itself (it executes *)
(* the action on the spot), and that waiting fails.                        *)
(***************************************************************************)
EXTENDS Naturals, Sequences

CONSTANTS
  MaxActions  \* bound: user actions of one Open

ASSUME MaxActionsAssumption == MaxActions \in Nat \ {0}

VARIABLES
  \* TTerminalThread
  FEvent, FTerminated, FActionEvent,
  FUserAction, FException, FIdleException,
  FCancel, FCancelled, FPendingIdle,
  \* the main thread
  mpc,        \* where in RunAction and the destructor it is
  executing,  \* the user action it executes, or 0
  inIdle,     \* it is in TTerminalThread::Idle, and waits for FSection
  result,     \* how RunAction has ended
  \* the session thread
  wpc,        \* where it is
  waits,      \* its calls of WaitForUserAction, the innermost one first
  raised,     \* the exception on its way out of Open
  closing,    \* Open is in its outer __finally
  Active,     \* FTerminal->Active
  \* history
  asked,      \* the number of user actions so far
  outcome,    \* of the execution of each one
  cancelSeen, \* FCancel as the last user action ended
  nested      \* the upkeep has asked the user

eventVars == <<FEvent, FTerminated, FActionEvent>>
exceptionVars == <<FException, FIdleException>>
cancelVars == <<FCancel, FCancelled>>
mainVars == <<mpc, executing, inIdle, result>>
openVars == <<raised, closing, Active>>
sessionVars == <<wpc, waits, openVars>>
historyVars == <<asked, outcome, cancelSeen, nested>>
vars == <<eventVars, FUserAction, exceptionVars, cancelVars, FPendingIdle, mainVars, sessionVars,
          historyVars>>

None == "none"
Exceptions == {"execute", "idle", "abort", "own"}

\* WaitForUserAction does the upkeep, and all the upkeep leads to, within FSection.
SectionFree == wpc # "upkeep" /\ Len(waits) < 2

----------------------------------------------------------------------------
(* The main thread: TTerminalThread::RunAction                             *)

Start ==
  /\ mpc = "start"
  /\ FCancelled' = FALSE
  /\ FEvent' = TRUE
  /\ mpc' = "wait"
  /\ UNCHANGED <<FTerminated, FActionEvent, FUserAction, exceptionVars, FCancel, FPendingIdle,
                 executing, inIdle, result, sessionVars, historyVars>>

\* WAIT_TIMEOUT: a user action is executed, or else messages are processed.
Poll ==
  /\ mpc = "wait" /\ ~FActionEvent
  /\ mpc' = IF FUserAction # 0 THEN "execute" ELSE "idle"
  /\ executing' = FUserAction
  /\ UNCHANGED <<eventVars, FUserAction, exceptionVars, cancelVars, FPendingIdle, inIdle, result,
                 sessionVars, historyVars>>

\* Both process messages: of the cancel button, once, and of the timer.
ProcessesMessages == mpc \in {"idle", "execute"} /\ ~inIdle

Cancel ==
  /\ ProcessesMessages
  /\ ~FCancel /\ FCancel' = TRUE
  /\ UNCHANGED <<eventVars, FUserAction, exceptionVars, FCancelled, FPendingIdle, mainVars,
                 sessionVars, historyVars>>

IdleCalled ==
  /\ ProcessesMessages
  /\ inIdle' = TRUE
  /\ UNCHANGED <<eventVars, FUserAction, exceptionVars, cancelVars, FPendingIdle, mpc, executing,
                 result, sessionVars, historyVars>>

RethrowsInIdle == FUserAction # 0 /\ FIdleException # None

\* FUserAction->Execute ends, with an exception or without.  Mutant: the
\* exception is not saved.
ExceptionUnsaved(verdict) == FException
SavedException(verdict) == IF verdict = "ok" THEN FException ELSE verdict

ExecuteEnds(verdict) ==
  /\ outcome' = [outcome EXCEPT ![executing] = verdict]
  /\ FException' = SavedException(verdict)
  /\ cancelSeen' = FCancel
  /\ mpc' = "executed"
  /\ UNCHANGED <<asked, nested>>

\* TTerminalThread::Idle asks for upkeep, or throws what the upkeep has
\* thrown: that ends the user action, or the window procedure that the timer
\* belongs to reports it and goes on.
Idle ==
  /\ inIdle /\ SectionFree
  /\ inIdle' = FALSE
  /\ \/ /\ ~RethrowsInIdle
        /\ FPendingIdle' = TRUE
        /\ UNCHANGED <<exceptionVars, mpc, outcome, cancelSeen, asked, nested>>
     \/ /\ RethrowsInIdle
        /\ FIdleException' = None
        /\ \/ mpc = "execute" /\ ExecuteEnds(FIdleException)
           \/ UNCHANGED <<FException, mpc, outcome, cancelSeen, asked, nested>>
        /\ UNCHANGED FPendingIdle
  /\ UNCHANGED <<eventVars, FUserAction, cancelVars, executing, result, sessionVars>>

MessagesProcessed ==
  /\ mpc = "idle" /\ ~inIdle
  /\ mpc' = "wait"
  /\ UNCHANGED <<eventVars, FUserAction, exceptionVars, cancelVars, FPendingIdle, executing, inIdle,
                 result, sessionVars, historyVars>>

Executed ==
  /\ mpc = "execute" /\ ~inIdle
  /\ \E verdict \in {"ok", "execute"} : ExecuteEnds(verdict)
  /\ UNCHANGED <<eventVars, FUserAction, FIdleException, cancelVars, FPendingIdle, executing,
                 inIdle, result, sessionVars>>

\* Mutant: the pointer stays for the session thread to clear.
ActionStays == FUserAction
ActionCleared == 0

Clear ==
  /\ mpc = "executed"
  /\ FUserAction' = ActionCleared
  /\ executing' = 0
  /\ mpc' = "trigger"
  /\ UNCHANGED <<eventVars, exceptionVars, cancelVars, FPendingIdle, inIdle, result, sessionVars,
                 historyVars>>

Trigger ==
  /\ mpc = "trigger"
  /\ FEvent' = TRUE
  /\ mpc' = "wait"
  /\ UNCHANGED <<FTerminated, FActionEvent, FUserAction, exceptionVars, cancelVars, FPendingIdle,
                 executing, inIdle, result, sessionVars, historyVars>>

\* Mutant: an exception is passed on as it is.
NotNormalized == "failed"

\* Whatever has become of the exception a cancelled action has been left with.
Failure == IF FCancelled THEN "abort" ELSE "failed"

\* WAIT_OBJECT_0
Done ==
  /\ mpc = "wait" /\ FActionEvent
  /\ FActionEvent' = FALSE
  /\ result' = IF FException = None THEN "ok" ELSE Failure
  /\ FException' = None
  /\ mpc' = "destroy"
  /\ UNCHANGED <<FEvent, FTerminated, FUserAction, FIdleException, cancelVars, FPendingIdle,
                 executing, inIdle, sessionVars, historyVars>>

\* ConnectTerminal destroys the thread: Terminate ...
Terminate ==
  /\ mpc = "destroy"
  /\ FTerminated' = TRUE /\ FEvent' = TRUE
  /\ mpc' = "join"
  /\ UNCHANGED <<FActionEvent, FUserAction, exceptionVars, cancelVars, FPendingIdle, executing,
                 inIdle, result, sessionVars, historyVars>>

\* ... and WaitFor.
Join ==
  /\ mpc = "join" /\ wpc = "gone"
  /\ mpc' = "over"
  /\ UNCHANGED <<eventVars, FUserAction, exceptionVars, cancelVars, FPendingIdle, executing, inIdle,
                 result, sessionVars, historyVars>>

----------------------------------------------------------------------------
(* The session thread: TSignalThread::Execute and ProcessEvent             *)

Execute ==
  /\ wpc = "ready"
  /\ \/ FTerminated /\ wpc' = "gone" /\ UNCHANGED FEvent
     \/ FEvent /\ ~FTerminated /\ wpc' = "open" /\ FEvent' = FALSE
  /\ UNCHANGED <<FTerminated, FActionEvent, FUserAction, exceptionVars, cancelVars, FPendingIdle,
                 mainVars, waits, openVars, historyVars>>

InOpen ==
  /\ wpc = "open"
  /\ UNCHANGED <<eventVars, FUserAction, exceptionVars, FCancel, FPendingIdle, mainVars, wpc, waits,
                 historyVars>>

Connect ==
  /\ InOpen
  /\ ~closing /\ raised = None /\ ~Active
  /\ Active' = TRUE
  /\ UNCHANGED <<FCancelled, raised, closing>>

\* An exception that a user action or the upkeep has thrown may be handled on
\* its way, as LookupUsersGroups does; the fatal abort is not.
Handle ==
  /\ InOpen
  /\ ~closing /\ raised \in {"execute", "idle"}
  /\ raised' = None
  /\ UNCHANGED <<FCancelled, closing, Active>>

Fail ==
  /\ InOpen
  /\ ~closing /\ raised = None
  /\ raised' = "own"
  /\ UNCHANGED <<FCancelled, closing, Active>>

\* Mutant: the action ends without a word to the main thread.
EndUnsignalled == FActionEvent
EndSignalled == TRUE

\* Open returns, or throws; ProcessEvent saves the exception and says so.
OpenEnds ==
  /\ wpc = "open" /\ closing
  /\ FException' = IF raised = None THEN FException ELSE raised
  /\ raised' = None
  /\ FActionEvent' = EndSignalled
  /\ wpc' = "ready"
  /\ UNCHANGED <<FEvent, FTerminated, FUserAction, FIdleException, cancelVars, FPendingIdle,
                 mainVars, waits, closing, Active, historyVars>>

----------------------------------------------------------------------------
(* TTerminalThread::WaitForUserAction                                      *)

MustAbort == FCancel /\ ~FCancelled

\* CheckCancel throws, once: TTerminal::FatalAbort closes the session.
Abort == FCancelled' = TRUE /\ Active' = FALSE

Await ==
  /\ asked' = asked + 1
  /\ waits' = <<[action |-> asked', prev |-> FUserAction]>> \o waits
  /\ FUserAction' = asked'
  /\ wpc' = "loop"
  /\ UNCHANGED <<eventVars, exceptionVars, cancelVars, FPendingIdle, mainVars, raised, Active, outcome,
                 cancelSeen>>

\* The last user action is left to the __finally of Open.
MayAsk == asked + 1 < MaxActions

\* The user action is forced (Information with a phase), or not cancelled ...
AskInOpen ==
  /\ wpc = "open" /\ ~closing /\ raised = None
  /\ MayAsk
  /\ Await
  /\ UNCHANGED <<closing, nested>>

\* ... and otherwise aborted before it begins.
AbortInOpen ==
  /\ InOpen
  /\ ~closing /\ raised = None
  /\ MayAsk /\ MustAbort
  /\ Abort /\ raised' = "abort"
  /\ UNCHANGED closing

\* DoInformation(L"", true, 0) in the __finally of Open.
AskAtEnd ==
  /\ wpc = "open" /\ ~closing
  /\ closing' = TRUE
  /\ Await
  /\ UNCHANGED nested

\* The upkeep is due.
UpkeepDue == Active /\ FPendingIdle /\ FIdleException = None

\* FNesting keeps TTerminal::Idle from doing anything when it is called from
\* within itself.
UpkeepBegins == UpkeepDue /\ Len(waits) = 1

\* FTerminal->Idle is called within FSection.
Loop ==
  /\ wpc = "loop"
  /\ FPendingIdle' = (FPendingIdle /\ ~UpkeepDue)
  /\ wpc' = IF UpkeepBegins THEN "upkeep" ELSE "sleep"
  /\ UNCHANGED <<eventVars, FUserAction, exceptionVars, cancelVars, mainVars, waits, openVars,
                 historyVars>>

\* FTerminal->Idle returns or throws; the connection may be gone.
Upkeep ==
  /\ wpc = "upkeep"
  /\ \/ UNCHANGED <<FIdleException, Active>>
     \/ FIdleException' = "idle" /\ Active' \in {FALSE, Active}
  /\ wpc' = "sleep"
  /\ UNCHANGED <<eventVars, FUserAction, FException, cancelVars, FPendingIdle, mainVars, waits,
                 raised, closing, historyVars>>

\* FTerminal->Idle asks the user, whether to wait for the host any longer, from
\* within the wait for another answer; or it is aborted.
AskInUpkeep ==
  /\ wpc = "upkeep" /\ MayAsk
  /\ ~MustAbort
  /\ Await
  /\ nested' = TRUE
  /\ UNCHANGED closing

AbortInUpkeep ==
  /\ wpc = "upkeep" /\ MayAsk
  /\ MustAbort
  /\ Abort
  /\ FIdleException' = "abort"
  /\ wpc' = "sleep"
  /\ nested' = TRUE
  /\ UNCHANGED <<eventVars, FUserAction, FException, FCancel, FPendingIdle, mainVars, waits, raised,
                 closing, asked, outcome, cancelSeen>>

\* WaitForEvent(1000)
Timeout ==
  /\ wpc = "sleep" /\ ~FEvent
  /\ wpc' = "loop"
  /\ UNCHANGED <<eventVars, FUserAction, exceptionVars, cancelVars, FPendingIdle, mainVars, waits,
                 openVars, historyVars>>

Woken ==
  /\ wpc = "sleep" /\ FEvent
  /\ FEvent' = FALSE
  /\ wpc' = "awake"
  /\ UNCHANGED <<FTerminated, FActionEvent, FUserAction, exceptionVars, cancelVars, FPendingIdle,
                 mainVars, waits, openVars, historyVars>>

\* "idle exception was not used to cancel the user action"
IdleRethrown == FException = None /\ FIdleException # None

\* The exception to be rethrown; when there are both, the idle one waits.
Pending == IF IdleRethrown THEN FIdleException ELSE FException

\* Mutant: once the action is over, nobody looks whether it has been cancelled.
NeverAborts == FALSE

\* "this is unconditional, otherwise cancelling authentication won't work"
AbortsAfterwards == MustAbort

\* Mutant: an exception skips the __finally.
LeftInOrder == IF Pending = None THEN Tail(waits) ELSE waits
Left == Tail(waits)

\* The wait is over: the exceptions, __finally, and the last CheckCancel.
\* The inner wait returns to FTerminal->Idle.
Awake ==
  /\ wpc = "awake"
  /\ FUserAction' = Head(waits).prev
  /\ waits' = Left
  /\ FException' = None
  /\ LET inner == Len(waits) = 2
         thrown == IF Pending # None THEN Pending ELSE IF AbortsAfterwards THEN "abort" ELSE None
     IN /\ wpc' = IF ~inner THEN "open" ELSE IF thrown = None THEN "upkeep" ELSE "sleep"
        /\ raised' = IF inner \/ thrown = None THEN raised ELSE thrown
        /\ FIdleException' = IF inner /\ thrown # None THEN thrown
                             ELSE IF IdleRethrown THEN None ELSE FIdleException
        /\ IF Pending = None /\ AbortsAfterwards
             THEN Abort
             ELSE UNCHANGED <<FCancelled, Active>>
  /\ UNCHANGED <<eventVars, FCancel, FPendingIdle, mainVars, closing, historyVars>>

----------------------------------------------------------------------------
\* The constructor leaves FPendingIdle, and FCancelled, as they are.
Init ==
  /\ FEvent = FALSE /\ FTerminated = FALSE /\ FActionEvent = FALSE
  /\ FUserAction = 0 /\ FException = None /\ FIdleException = None
  /\ FCancel = FALSE /\ FCancelled \in BOOLEAN /\ FPendingIdle \in BOOLEAN
  /\ mpc = "start" /\ executing = 0 /\ inIdle = FALSE /\ result = "none"
  /\ wpc = "ready" /\ waits = <<>> /\ raised = None /\ closing = FALSE /\ Active = FALSE
  /\ asked = 0 /\ outcome = [a \in 1..MaxActions |-> "none"] /\ cancelSeen = FALSE /\ nested = FALSE

RunAction ==
  Start \/ Poll \/ Idle \/ Clear \/ Trigger \/ Done \/ Terminate \/ Join

WaitForUserAction == Loop \/ Upkeep \/ AskInUpkeep \/ AbortInUpkeep \/ Timeout \/ Woken \/ Awake

Session ==
  \/ Execute \/ Connect \/ Handle \/ Fail \/ AskInOpen \/ AbortInOpen \/ AskAtEnd \/ OpenEnds
  \/ WaitForUserAction

Next == RunAction \/ MessagesProcessed \/ Executed \/ Cancel \/ IdleCalled \/ Session

Spec == Init /\ [][Next]_vars

\* Both threads run; the user ends every dialog and the main thread runs out of
\* messages, however often the timer of the upkeep comes in between.
FairSpec ==
  /\ Spec
  /\ WF_vars(RunAction) /\ WF_vars(Session)
  /\ SF_vars(Executed) /\ SF_vars(MessagesProcessed)

----------------------------------------------------------------------------
(* Properties                                                              *)

\* The types of the variables; the calls of WaitForUserAction are nested only
\* if the upkeep asks.
TypeOK ==
  /\ {FEvent, FTerminated, FActionEvent, FCancel, FCancelled, FPendingIdle, inIdle, closing, Active,
      cancelSeen, nested} \subseteq BOOLEAN
  /\ {FException, FIdleException, raised} \subseteq Exceptions \cup {None}
  /\ mpc \in {"start", "wait", "idle", "execute", "executed", "trigger", "destroy", "join", "over"}
  /\ wpc \in {"ready", "open", "loop", "upkeep", "sleep", "awake", "gone"}
  /\ {FUserAction, executing, asked} \subseteq 0..MaxActions
  /\ result \in {"none", "ok", "failed", "abort"}
  /\ waits \in Seq([action : 1..MaxActions, prev : 0..MaxActions])
  /\ wpc \in {"ready", "open", "gone"} => Len(waits) = 0
  /\ wpc = "upkeep" => Len(waits) = 1
  /\ wpc \in {"loop", "sleep", "awake"} => Len(waits) = 1 \/ (Len(waits) = 2 /\ nested)
  /\ outcome \in [1..MaxActions -> {"none", "ok"} \cup Exceptions]

\* The action the main thread executes, a local variable of the session
\* thread, is the one the session thread waits for, and has not been executed
\* before: no message is shown twice.  Not so once the upkeep has asked: there
\* is one FUserAction for two waits.
ExecutesOnce ==
  mpc = "execute" /\ ~nested => /\ waits # <<>> /\ Head(waits).action = executing
                                /\ outcome[executing] = "none"

\* The session thread is woken because its own user action has been executed,
\* and finds exactly the exception that the execution has thrown.
WokenByOwnAction ==
  wpc = "awake" /\ ~nested =>
    LET verdict == outcome[Head(waits).action]
    IN verdict # "none" /\ FException = IF verdict = "ok" THEN None ELSE verdict

\* The session thread reads and destroys FIdleException without FSection once
\* its wait is over: the main thread does not rethrow it at the same time.
IdleExceptionNotShared == wpc = "awake" => ~(inIdle /\ RethrowsInIdle)

\* A cancellation made before or during a user action stops the session once
\* the user action is over (unless that ends with an exception anyway) ...
CancelObeyed ==
  [][wpc = "awake" /\ wpc' = "open" /\ Pending = None /\ cancelSeen =>
       FCancelled \/ raised' = "abort"]_vars

\* ... and the main thread learns of it as an abort, not as an error or success.
\* (An abort in a question of the upkeep is at the mercy of whoever gets the
\* exception of the upkeep.)
CancelReported == result # "none" /\ FCancelled /\ ~nested => result = "abort"

\* RunAction returns, and the thread is destroyed; unless the upkeep asks while
\* the main thread waits for FSection in Idle.
RunActionReturns == <>(mpc = "over" \/ nested)
=============================================================================
