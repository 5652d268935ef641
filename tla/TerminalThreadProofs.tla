------------------------ MODULE TerminalThreadProofs ------------------------
(***************************************************************************)
(* Proofs about TerminalThread for any number of user actions, exceptions  *)
(* and cancellations at any moment, with and without questions of the      *)
(* upkeep.                                                                 *)
(***************************************************************************)
EXTENDS TerminalThread, ListsProofs

----------------------------------------------------------------------------
(* The inductive invariant                                                 *)

AwaitsUser == wpc \in {"loop", "upkeep", "sleep", "awake"}
Polling == mpc \in {"wait", "idle"}

\* Outside of WaitForUserAction the threads are in step: nothing is to be
\* executed, and the event has been used up for the start of the action or is
\* set for it, or for the end of the thread.
StepInv ==
  /\ wpc = "open" => Polling /\ ~FEvent /\ ~FActionEvent /\ ~FTerminated
  /\ wpc = "ready" =>
       \/ mpc = "start" /\ ~FEvent /\ ~FActionEvent /\ ~FTerminated
       \/ Polling /\ ~FTerminated /\ FActionEvent = ~FEvent
       \/ mpc = "destroy" /\ ~FEvent /\ ~FActionEvent /\ ~FTerminated
       \/ mpc = "join" /\ FTerminated /\ ~FActionEvent
  /\ wpc = "gone" => mpc \in {"join", "over"}
  /\ ~AwaitsUser => FUserAction = 0
  /\ result # "none" => mpc \in {"destroy", "join", "over"}

\* The event that ends the outer wait, or an inner one that has begun before the
\* outer action was executed, comes after all of the execution; an inner wait
\* that has begun between the two may take the event of the outer one.
WaitInv ==
  AwaitsUser =>
    /\ mpc \in {"wait", "idle", "execute", "executed", "trigger"}
    /\ ~FActionEvent /\ ~FTerminated
    /\ waits[Len(waits)].prev = 0
    /\ wpc = "upkeep" \/ Len(waits) = 2 => FIdleException = None
    /\ wpc = "awake" /\ FEvent => Polling /\ FUserAction = 0
    /\ mpc = "trigger" /\ (FEvent \/ wpc = "awake") => FUserAction = 0
    /\ Len(waits) = 1 \/ waits[1].prev # 0 =>
         /\ FEvent \/ wpc = "awake" => Polling /\ FUserAction = 0
         /\ wpc = "awake" => ~FEvent
         /\ mpc = "trigger" => FUserAction = 0

\* How far the execution of the action that the session thread waits for is.
QuestionInv ==
  AwaitsUser /\ ~nested =>
    LET action == waits[1].action
        unheard == ~FEvent /\ wpc # "awake"
    IN /\ action = asked
       /\ IF outcome[action] = "none"
            THEN /\ mpc \in {"wait", "idle", "execute"} /\ unheard
                 /\ mpc = "execute" => executing = action
                 /\ FUserAction = action /\ FException = None
            ELSE /\ FException = IF outcome[action] = "ok" THEN None ELSE outcome[action]
                 /\ \/ mpc = "executed" /\ executing = action /\ unheard
                    \/ mpc = "trigger" /\ unheard
                    \/ Polling /\ (FEvent \/ wpc = "awake")

\* User actions to come have no outcome, and the last one is kept back for the
\* end of Open.
ActionsInv ==
  /\ \A a \in 1..MaxActions : a > asked => outcome[a] = "none"
  /\ FUserAction <= asked /\ executing <= asked
  /\ AwaitsUser => waits[1].prev <= asked /\ waits[Len(waits)].prev <= asked
  /\ ~closing => asked < MaxActions

\* Once the session thread has been cancelled, an exception is on its way to the
\* main thread.
CancelInv ==
  /\ cancelSeen => FCancel
  /\ FCancelled /\ ~nested /\ mpc # "start" =>
       /\ wpc = "open" \/ AwaitsUser => raised # None
       /\ (wpc = "open" \/ AwaitsUser) /\ ~closing => raised = "abort" /\ wpc = "open"
       /\ wpc = "ready" /\ Polling => FActionEvent /\ FException # None
       /\ result # "none" => result = "abort"
       /\ mpc \in {"destroy", "join", "over"} => result # "none"
  /\ wpc = "open" \/ (wpc = "ready" /\ ~FActionEvent /\ mpc \in {"start", "wait", "idle"}) => FException = None

IInv == TypeOK /\ StepInv /\ WaitInv /\ QuestionInv /\ ActionsInv /\ CancelInv

----------------------------------------------------------------------------
(* The stack of waits                                                      *)

\* A user action is put on top of the one it interrupts.
LEMMA AwaitFacts ==
  ASSUME TypeOK, Await, asked < MaxActions
  PROVE  /\ asked' = asked + 1 /\ asked' \in 1..MaxActions
         /\ waits' \in Seq([action : 1..MaxActions, prev : 0..MaxActions])
         /\ Len(waits') = Len(waits) + 1
         /\ waits'[1].action = asked' /\ waits'[1].prev = FUserAction
         /\ Len(waits) = 1 => waits'[2] = waits[1]
  <1> DEFINE w == [action |-> asked', prev |-> FUserAction]
  <1>1. asked' = asked + 1 /\ asked' \in 1..MaxActions /\ waits' = <<w>> \o waits
    BY MaxActionsAssumption DEF Await, TypeOK
  <1>2. w \in [action : 1..MaxActions, prev : 0..MaxActions]
    BY <1>1 DEF TypeOK
  <1>3. waits \in Seq([action : 1..MaxActions, prev : 0..MaxActions])
    BY DEF TypeOK
  <1> HIDE DEF w
  <1>4. /\ waits' \in Seq([action : 1..MaxActions, prev : 0..MaxActions])
        /\ Len(waits') = Len(waits) + 1 /\ waits'[1] = w
        /\ \A k \in 1..Len(waits) : waits'[k + 1] = waits[k]
    BY <1>1, <1>2, <1>3
  <1>5. QED
    BY <1>1, <1>3, <1>4 DEF w

\* The waits are of the right type.
LEMMA TopFacts ==
  ASSUME TypeOK, AwaitsUser
  PROVE  /\ waits # <<>> /\ Len(waits) \in {1, 2}
         /\ \A k \in 1..Len(waits) : waits[k].action \in 1..MaxActions /\ waits[k].prev \in 0..MaxActions
  <1> DEFINE Waits == [action : 1..MaxActions, prev : 0..MaxActions]
  <1>1. waits \in Seq(Waits) /\ Len(waits) \in {1, 2}
    BY DEF TypeOK, AwaitsUser
  <1> HIDE DEF Waits
  <1>2. waits # <<>> /\ \A k \in 1..Len(waits) : waits[k] \in Waits
    BY <1>1
  <1>3. QED
    BY <1>1, <1>2 DEF Waits

\* A wait that is over is taken off.
LEMMA LeftFacts ==
  ASSUME TypeOK, waits # <<>>, waits' = Left
  PROVE  /\ Head(waits) = waits[1] /\ waits[1] \in [action : 1..MaxActions, prev : 0..MaxActions]
         /\ waits' \in Seq([action : 1..MaxActions, prev : 0..MaxActions])
         /\ Len(waits') = Len(waits) - 1
         /\ Len(waits) = 2 => waits'[1] = waits[2]
  <1> DEFINE Waits == [action : 1..MaxActions, prev : 0..MaxActions]
  <1>1. waits \in Seq(Waits) /\ waits' = Tail(waits)
    BY DEF TypeOK, Left
  <1> HIDE DEF Waits
  <1>2. /\ Head(waits) = waits[1] /\ waits[1] \in Waits /\ waits' \in Seq(Waits)
        /\ Len(waits') = Len(waits) - 1
        /\ Len(waits) = 2 => waits'[1] = waits[2]
    BY <1>1, TailFacts
  <1>3. QED
    BY <1>2 DEF Waits

\* The end of a wait leads to Open, or from an inner one back to the upkeep.
AwakeShape ==
  /\ wpc = "awake" /\ Len(waits) \in {1, 2} /\ Len(waits') = Len(waits) - 1
  /\ waits' \in Seq([action : 1..MaxActions, prev : 0..MaxActions])
  /\ Len(waits) = 2 => waits'[1] = waits[2]
  /\ FUserAction' = waits[1].prev /\ FUserAction' \in 0..MaxActions
  /\ wpc' \in IF Len(waits) = 1 THEN {"open"} ELSE {"upkeep", "sleep"}
  /\ FException' = None /\ raised' \in Exceptions \cup {None}
  /\ FIdleException' \in Exceptions \cup {None}
  /\ wpc' = "upkeep" => FIdleException' = None
  /\ FCancelled' \in BOOLEAN /\ Active' \in BOOLEAN
  /\ UNCHANGED <<eventVars, FCancel, FPendingIdle, mainVars, closing, historyVars>>

LEMMA AwakeFacts ==
  ASSUME TypeOK, WaitInv, Awake
  PROVE  AwakeShape
  <1>1. /\ wpc = "awake" /\ Len(waits) \in {1, 2} /\ waits # <<>> /\ waits' = Left
        /\ waits[1].prev \in 0..MaxActions
    BY TopFacts DEF Awake, AwaitsUser
  <1>2. FUserAction' = waits[1].prev
    BY <1>1, LeftFacts DEF Awake
  <1>3. Len(waits) = 2 => FIdleException = None
    BY <1>1 DEF WaitInv, AwaitsUser
  <1>4. Pending \in Exceptions \cup {None} /\ (Pending # None \/ Pending = None)
    BY DEF Pending, IdleRethrown, TypeOK
  <1> DEFINE thrown == IF Pending # None THEN Pending ELSE IF AbortsAfterwards THEN "abort" ELSE None
  <1>5. thrown \in Exceptions \cup {None}
    BY <1>4 DEF Exceptions
  <1>6. /\ wpc' = IF ~(Len(waits) = 2) THEN "open" ELSE IF thrown = None THEN "upkeep" ELSE "sleep"
        /\ raised' = IF Len(waits) = 2 \/ thrown = None THEN raised ELSE thrown
        /\ FIdleException' = IF Len(waits) = 2 /\ thrown # None THEN thrown
                             ELSE IF IdleRethrown THEN None ELSE FIdleException
        /\ FException' = None
        /\ UNCHANGED <<eventVars, FCancel, FPendingIdle, mainVars, closing, historyVars>>
    BY DEF Awake
  <1>7. FCancelled' \in BOOLEAN /\ Active' \in BOOLEAN
    BY DEF Awake, Abort, TypeOK
  <1> HIDE DEF thrown
  <1>8. /\ wpc' \in IF Len(waits) = 1 THEN {"open"} ELSE {"upkeep", "sleep"}
        /\ wpc' = "upkeep" => FIdleException' = None
    BY <1>1, <1>3, <1>6
  <1>9. raised \in Exceptions \cup {None} /\ FIdleException \in Exceptions \cup {None}
    BY DEF TypeOK
  <1>10. raised' \in Exceptions \cup {None} /\ FIdleException' \in Exceptions \cup {None}
    BY <1>5, <1>6, <1>9
  <1>11. QED
    BY <1>1, <1>2, <1>6, <1>7, <1>8, <1>10, LeftFacts DEF AwakeShape

----------------------------------------------------------------------------
(* The execution of a user action                                          *)

\* It leaves its outcome, and touches no other.
LEMMA ExecuteEndsFacts ==
  ASSUME TypeOK, NEW verdict \in {"ok"} \cup Exceptions, ExecuteEnds(verdict)
  PROVE  /\ outcome' \in [1..MaxActions -> {"none", "ok"} \cup Exceptions]
         /\ \A a \in 1..MaxActions : outcome'[a] = IF a = executing THEN verdict ELSE outcome[a]
         /\ FException' = IF verdict = "ok" THEN FException ELSE verdict
         /\ mpc' = "executed" /\ cancelSeen' = FCancel /\ UNCHANGED <<asked, nested>>
  BY DEF ExecuteEnds, SavedException, TypeOK

----------------------------------------------------------------------------
\* The types are kept by every step.
LEMMA TypeStep ==
  ASSUME IInv, Next
  PROVE  TypeOK'
  <1>0. Awake => AwakeShape
    BY AwakeFacts DEF IInv
  <1> USE MaxActionsAssumption DEF IInv, TypeOK, AwaitsUser, None, Exceptions, ActionsInv
  <1> USE DEF eventVars, exceptionVars, cancelVars, mainVars, openVars, sessionVars, historyVars
  <1>1. ASSUME Start PROVE TypeOK'
    BY <1>1 DEF Start
  <1>2. ASSUME Poll PROVE TypeOK'
    BY <1>2 DEF Poll
  <1>3. ASSUME Idle PROVE TypeOK'
    <2>1. CASE mpc = "execute" /\ RethrowsInIdle /\ ExecuteEnds(FIdleException)
      <3>1. FIdleException \in {"ok"} \cup Exceptions /\ FIdleException # "ok"
        BY <2>1 DEF RethrowsInIdle, None, Exceptions
      <3>2. /\ outcome' \in [1..MaxActions -> {"none", "ok"} \cup Exceptions]
            /\ \A a \in 1..MaxActions : outcome'[a] = IF a = executing THEN FIdleException ELSE outcome[a]
            /\ FException' = FIdleException /\ FIdleException' = None
            /\ mpc' = "executed" /\ cancelSeen' = FCancel /\ UNCHANGED <<asked, nested>>
        BY <1>3, <2>1, <3>1, ExecuteEndsFacts DEF Idle, RethrowsInIdle
      <3>3. QED
        BY <1>3, <2>1, <3>1, <3>2 DEF Idle
    <2>2. CASE UNCHANGED <<FException, mpc, outcome, cancelSeen, asked, nested>>
      <3>1. FIdleException' \in {None, FIdleException} /\ FPendingIdle' \in BOOLEAN
        BY <1>3 DEF Idle
      <3>2. QED
        BY <1>3, <2>2, <3>1 DEF Idle
    <2>3. QED
      BY <1>3, <2>1, <2>2 DEF Idle
  <1>4. ASSUME Clear PROVE TypeOK'
    BY <1>4 DEF Clear, ActionCleared
  <1>5. ASSUME Trigger PROVE TypeOK'
    BY <1>5 DEF Trigger
  <1>6. ASSUME Done PROVE TypeOK'
    BY <1>6 DEF Done, Failure
  <1>7. ASSUME Terminate PROVE TypeOK'
    BY <1>7 DEF Terminate
  <1>8. ASSUME Join PROVE TypeOK'
    BY <1>8 DEF Join
  <1>9. ASSUME MessagesProcessed PROVE TypeOK'
    BY <1>9 DEF MessagesProcessed
  <1>10. ASSUME Executed PROVE TypeOK'
    <2>1. PICK verdict \in {"ok", "execute"} : ExecuteEnds(verdict)
      BY <1>10 DEF Executed
    <2>2. /\ outcome' \in [1..MaxActions -> {"none", "ok"} \cup Exceptions]
          /\ \A a \in 1..MaxActions : outcome'[a] = IF a = executing THEN verdict ELSE outcome[a]
          /\ FException' = IF verdict = "ok" THEN FException ELSE verdict
          /\ mpc' = "executed" /\ cancelSeen' = FCancel /\ UNCHANGED <<asked, nested>>
      BY <2>1, ExecuteEndsFacts DEF Exceptions
    <2>3. QED
      BY <1>10, <2>1, <2>2 DEF Executed
  <1>11. ASSUME Cancel PROVE TypeOK'
    BY <1>11 DEF Cancel, ProcessesMessages
  <1>12. ASSUME IdleCalled PROVE TypeOK'
    BY <1>12 DEF IdleCalled, ProcessesMessages
  <1>13. ASSUME Execute PROVE TypeOK'
    BY <1>13 DEF Execute
  <1>14. ASSUME Connect PROVE TypeOK'
    BY <1>14 DEF Connect, InOpen
  <1>15. ASSUME Handle PROVE TypeOK'
    BY <1>15 DEF Handle, InOpen
  <1>16. ASSUME Fail PROVE TypeOK'
    BY <1>16 DEF Fail, InOpen
  <1>17. ASSUME AskInOpen PROVE TypeOK'
    BY <1>17, AwaitFacts DEF AskInOpen, Await, MayAsk
  <1>18. ASSUME AbortInOpen PROVE TypeOK'
    BY <1>18 DEF AbortInOpen, InOpen, Abort, MustAbort, MayAsk
  <1>19. ASSUME AskAtEnd PROVE TypeOK'
    BY <1>19, AwaitFacts DEF AskAtEnd, Await
  <1>20. ASSUME OpenEnds PROVE TypeOK'
    BY <1>20 DEF OpenEnds, EndSignalled
  <1>21. ASSUME Loop PROVE TypeOK'
    BY <1>21 DEF Loop, UpkeepDue, UpkeepBegins
  <1>22. ASSUME Upkeep PROVE TypeOK'
    BY <1>22 DEF Upkeep
  <1>23. ASSUME AskInUpkeep PROVE TypeOK'
    <2>1. asked < MaxActions /\ Len(waits) = 1 /\ Await /\ nested' = TRUE /\ UNCHANGED closing
      BY <1>23 DEF AskInUpkeep, MayAsk
    <2>2. /\ asked' = asked + 1 /\ asked' \in 1..MaxActions
          /\ waits' \in Seq([action : 1..MaxActions, prev : 0..MaxActions])
          /\ Len(waits') = 2 /\ waits'[1].prev = FUserAction /\ waits'[2] = waits[1]
      BY <2>1, AwaitFacts
    <2>3. QED
      BY <2>1, <2>2 DEF Await
  <1>24. ASSUME AbortInUpkeep PROVE TypeOK'
    BY <1>24 DEF AbortInUpkeep, Abort, MustAbort
  <1>25. ASSUME Timeout PROVE TypeOK'
    BY <1>25 DEF Timeout
  <1>26. ASSUME Woken PROVE TypeOK'
    BY <1>26 DEF Woken
  <1>27. ASSUME Awake PROVE TypeOK'
    <2>1. AwakeShape
      BY <1>0, <1>27
    <2>2. CASE Len(waits) = 1
      <3>1. wpc' = "open" /\ Len(waits') = 0
        BY <2>1, <2>2 DEF AwakeShape
      <3>2. QED
        BY <2>1, <2>2, <3>1 DEF AwakeShape
    <2>3. CASE Len(waits) = 2
      <3>1. /\ wpc' \in {"upkeep", "sleep"} /\ Len(waits') = 1
            /\ waits'[1] = waits[2] /\ waits'[Len(waits')] = waits[2]
        BY <2>1, <2>3 DEF AwakeShape
      <3>2. QED
        BY <2>1, <2>3, <3>1 DEF AwakeShape
    <2>4. QED
      BY <2>1, <2>2, <2>3 DEF AwakeShape
  <1>28. QED
    BY <1>1, <1>2, <1>3, <1>4, <1>5, <1>6, <1>7, <1>8, <1>9, <1>10, <1>11, <1>12, <1>13, <1>14, <1>15, <1>16, <1>17, <1>18, <1>19, <1>20, <1>21, <1>22, <1>23, <1>24, <1>25, <1>26, <1>27 DEF Next, RunAction, Session, WaitForUserAction

\* Outside of the waits the threads stay in step.
LEMMA StepStep ==
  ASSUME IInv, Next
  PROVE  StepInv'
  <1> USE DEF IInv, TypeOK, StepInv, WaitInv, AwaitsUser, Polling
  <1> USE DEF eventVars, exceptionVars, cancelVars, mainVars, openVars, sessionVars, historyVars
  <1>1. ASSUME Start PROVE StepInv'
    BY <1>1 DEF Start
  <1>2. ASSUME Poll PROVE StepInv'
    BY <1>2 DEF Poll
  <1>3. ASSUME Idle PROVE StepInv'
    BY <1>3 DEF Idle, ExecuteEnds, RethrowsInIdle, SavedException, SectionFree
  <1>4. ASSUME Clear PROVE StepInv'
    BY <1>4 DEF Clear, ActionCleared
  <1>5. ASSUME Trigger PROVE StepInv'
    BY <1>5 DEF Trigger
  <1>6. ASSUME Done PROVE StepInv'
    BY <1>6 DEF Done, Failure
  <1>7. ASSUME Terminate PROVE StepInv'
    BY <1>7 DEF Terminate
  <1>8. ASSUME Join PROVE StepInv'
    BY <1>8 DEF Join
  <1>9. ASSUME MessagesProcessed PROVE StepInv'
    BY <1>9 DEF MessagesProcessed
  <1>10. ASSUME Executed PROVE StepInv'
    BY <1>10 DEF Executed, ExecuteEnds, SavedException
  <1>11. ASSUME Cancel PROVE StepInv'
    BY <1>11 DEF Cancel, ProcessesMessages
  <1>12. ASSUME IdleCalled PROVE StepInv'
    BY <1>12 DEF IdleCalled, ProcessesMessages
  <1>13. ASSUME Execute PROVE StepInv'
    BY <1>13 DEF Execute
  <1>14. ASSUME Connect PROVE StepInv'
    BY <1>14 DEF Connect, InOpen
  <1>15. ASSUME Handle PROVE StepInv'
    BY <1>15 DEF Handle, InOpen
  <1>16. ASSUME Fail PROVE StepInv'
    BY <1>16 DEF Fail, InOpen
  <1>17. ASSUME AskInOpen PROVE StepInv'
    BY <1>17, AwaitFacts DEF AskInOpen, Await, MayAsk
  <1>18. ASSUME AbortInOpen PROVE StepInv'
    BY <1>18 DEF AbortInOpen, InOpen, Abort, MustAbort, MayAsk
  <1>19. ASSUME AskAtEnd PROVE StepInv'
    BY <1>19, AwaitFacts DEF AskAtEnd, Await
  <1>20. ASSUME OpenEnds PROVE StepInv'
    BY <1>20 DEF OpenEnds, EndSignalled
  <1>21. ASSUME Loop PROVE StepInv'
    BY <1>21 DEF Loop, UpkeepDue, UpkeepBegins
  <1>22. ASSUME Upkeep PROVE StepInv'
    BY <1>22 DEF Upkeep
  <1>23. ASSUME AskInUpkeep PROVE StepInv'
    BY <1>23, AwaitFacts DEF AskInUpkeep, Await, MayAsk, MustAbort
  <1>24. ASSUME AbortInUpkeep PROVE StepInv'
    BY <1>24 DEF AbortInUpkeep, Abort, MustAbort
  <1>25. ASSUME Timeout PROVE StepInv'
    BY <1>25 DEF Timeout
  <1>26. ASSUME Woken PROVE StepInv'
    BY <1>26 DEF Woken
  <1>27. ASSUME Awake PROVE StepInv'
    BY <1>27, LeftFacts DEF Awake, Pending, IdleRethrown, AbortsAfterwards, MustAbort, Left, Abort
  <1>28. QED
    BY <1>1, <1>2, <1>3, <1>4, <1>5, <1>6, <1>7, <1>8, <1>9, <1>10, <1>11, <1>12, <1>13, <1>14, <1>15, <1>16, <1>17, <1>18, <1>19, <1>20, <1>21, <1>22, <1>23, <1>24, <1>25, <1>26, <1>27 DEF Next, RunAction, Session, WaitForUserAction

\* Nobody but the main thread's own execution ends a wait.
LEMMA WaitStep ==
  ASSUME IInv, Next
  PROVE  WaitInv'
  <1>0. Awake => AwakeShape
    BY AwakeFacts DEF IInv
  <1> USE DEF IInv, TypeOK, StepInv, WaitInv, AwaitsUser, Polling
  <1> USE DEF eventVars, exceptionVars, cancelVars, mainVars, openVars, sessionVars, historyVars
  <1>1. ASSUME Start PROVE WaitInv'
    BY <1>1 DEF Start
  <1>2. ASSUME Poll PROVE WaitInv'
    BY <1>2 DEF Poll
  <1>3. ASSUME Idle PROVE WaitInv'
    BY <1>3 DEF Idle, ExecuteEnds, RethrowsInIdle, SavedException, SectionFree
  <1>4. ASSUME Clear PROVE WaitInv'
    BY <1>4 DEF Clear, ActionCleared
  <1>5. ASSUME Trigger PROVE WaitInv'
    BY <1>5 DEF Trigger
  <1>6. ASSUME Done PROVE WaitInv'
    BY <1>6 DEF Done, Failure
  <1>7. ASSUME Terminate PROVE WaitInv'
    BY <1>7 DEF Terminate
  <1>8. ASSUME Join PROVE WaitInv'
    BY <1>8 DEF Join
  <1>9. ASSUME MessagesProcessed PROVE WaitInv'
    BY <1>9 DEF MessagesProcessed
  <1>10. ASSUME Executed PROVE WaitInv'
    BY <1>10 DEF Executed, ExecuteEnds, SavedException
  <1>11. ASSUME Cancel PROVE WaitInv'
    BY <1>11 DEF Cancel, ProcessesMessages
  <1>12. ASSUME IdleCalled PROVE WaitInv'
    BY <1>12 DEF IdleCalled, ProcessesMessages
  <1>13. ASSUME Execute PROVE WaitInv'
    BY <1>13 DEF Execute
  <1>14. ASSUME Connect PROVE WaitInv'
    BY <1>14 DEF Connect, InOpen
  <1>15. ASSUME Handle PROVE WaitInv'
    BY <1>15 DEF Handle, InOpen
  <1>16. ASSUME Fail PROVE WaitInv'
    BY <1>16 DEF Fail, InOpen
  <1>17. ASSUME AskInOpen PROVE WaitInv'
    BY <1>17, AwaitFacts DEF AskInOpen, Await, MayAsk
  <1>18. ASSUME AbortInOpen PROVE WaitInv'
    BY <1>18 DEF AbortInOpen, InOpen, Abort, MustAbort, MayAsk
  <1>19. ASSUME AskAtEnd PROVE WaitInv'
    BY <1>19, AwaitFacts DEF AskAtEnd, Await
  <1>20. ASSUME OpenEnds PROVE WaitInv'
    BY <1>20 DEF OpenEnds, EndSignalled
  <1>21. ASSUME Loop PROVE WaitInv'
    BY <1>21 DEF Loop, UpkeepDue, UpkeepBegins
  <1>22. ASSUME Upkeep PROVE WaitInv'
    BY <1>22 DEF Upkeep
  <1>23. ASSUME AskInUpkeep PROVE WaitInv'
    BY <1>23, AwaitFacts DEF AskInUpkeep, Await, MayAsk, MustAbort
  <1>24. ASSUME AbortInUpkeep PROVE WaitInv'
    BY <1>24 DEF AbortInUpkeep, Abort, MustAbort
  <1>25. ASSUME Timeout PROVE WaitInv'
    BY <1>25 DEF Timeout
  <1>26. ASSUME Woken PROVE WaitInv'
    BY <1>26 DEF Woken
  <1>27. ASSUME Awake PROVE WaitInv'
    <2>1. AwakeShape
      BY <1>0, <1>27
    <2>2. CASE Len(waits) = 1
      <3>1. wpc' = "open" /\ Len(waits') = 0
        BY <2>1, <2>2 DEF AwakeShape
      <3>2. QED
        BY <2>1, <2>2, <3>1 DEF AwakeShape
    <2>3. CASE Len(waits) = 2
      <3>1. /\ wpc' \in {"upkeep", "sleep"} /\ Len(waits') = 1
            /\ waits'[1] = waits[2] /\ waits'[Len(waits')] = waits[2]
        BY <2>1, <2>3 DEF AwakeShape
      <3>2. QED
        BY <2>1, <2>3, <3>1 DEF AwakeShape
    <2>4. QED
      BY <2>1, <2>2, <2>3 DEF AwakeShape
  <1>28. QED
    BY <1>1, <1>2, <1>3, <1>4, <1>5, <1>6, <1>7, <1>8, <1>9, <1>10, <1>11, <1>12, <1>13, <1>14, <1>15, <1>16, <1>17, <1>18, <1>19, <1>20, <1>21, <1>22, <1>23, <1>24, <1>25, <1>26, <1>27 DEF Next, RunAction, Session, WaitForUserAction

\* The session thread is never ahead of the execution it waits for.
LEMMA QuestionStep ==
  ASSUME IInv, Next
  PROVE  QuestionInv'
  <1> USE DEF IInv, TypeOK, StepInv, WaitInv, QuestionInv, ActionsInv, CancelInv, AwaitsUser, Polling, None
  <1> USE DEF eventVars, exceptionVars, cancelVars, mainVars, openVars, sessionVars, historyVars
  <1>1. ASSUME Start PROVE QuestionInv'
    BY <1>1 DEF Start
  <1>2. ASSUME Poll PROVE QuestionInv'
    BY <1>2 DEF Poll
  <1>3. ASSUME Idle PROVE QuestionInv'
    <2>1. CASE mpc = "execute" /\ RethrowsInIdle /\ ExecuteEnds(FIdleException)
      <3>1. FIdleException \in {"ok"} \cup Exceptions /\ FIdleException # "ok"
        BY <2>1 DEF RethrowsInIdle, None, Exceptions
      <3>2. /\ outcome' \in [1..MaxActions -> {"none", "ok"} \cup Exceptions]
            /\ \A a \in 1..MaxActions : outcome'[a] = IF a = executing THEN FIdleException ELSE outcome[a]
            /\ FException' = FIdleException /\ FIdleException' = None
            /\ mpc' = "executed" /\ cancelSeen' = FCancel /\ UNCHANGED <<asked, nested>>
        BY <1>3, <2>1, <3>1, ExecuteEndsFacts DEF Idle, RethrowsInIdle
      <3>3. QED
        BY <1>3, <2>1, <3>1, <3>2, TopFacts DEF Idle, Exceptions
    <2>2. CASE UNCHANGED <<FException, mpc, outcome, cancelSeen, asked, nested>>
      <3>1. FIdleException' \in {None, FIdleException} /\ FPendingIdle' \in BOOLEAN
        BY <1>3 DEF Idle
      <3>2. QED
        BY <1>3, <2>2, <3>1 DEF Idle
    <2>3. QED
      BY <1>3, <2>1, <2>2 DEF Idle
  <1>4. ASSUME Clear PROVE QuestionInv'
    BY <1>4 DEF Clear, ActionCleared
  <1>5. ASSUME Trigger PROVE QuestionInv'
    BY <1>5 DEF Trigger
  <1>6. ASSUME Done PROVE QuestionInv'
    BY <1>6 DEF Done, Failure
  <1>7. ASSUME Terminate PROVE QuestionInv'
    BY <1>7 DEF Terminate
  <1>8. ASSUME Join PROVE QuestionInv'
    BY <1>8 DEF Join
  <1>9. ASSUME MessagesProcessed PROVE QuestionInv'
    BY <1>9 DEF MessagesProcessed
  <1>10. ASSUME Executed PROVE QuestionInv'
    <2>1. PICK verdict \in {"ok", "execute"} : ExecuteEnds(verdict)
      BY <1>10 DEF Executed
    <2>2. /\ outcome' \in [1..MaxActions -> {"none", "ok"} \cup Exceptions]
          /\ \A a \in 1..MaxActions : outcome'[a] = IF a = executing THEN verdict ELSE outcome[a]
          /\ FException' = IF verdict = "ok" THEN FException ELSE verdict
          /\ mpc' = "executed" /\ cancelSeen' = FCancel /\ UNCHANGED <<asked, nested>>
      BY <2>1, ExecuteEndsFacts DEF Exceptions
    <2>3. QED
      BY <1>10, <2>1, <2>2, TopFacts DEF Executed
  <1>11. ASSUME Cancel PROVE QuestionInv'
    BY <1>11 DEF Cancel, ProcessesMessages
  <1>12. ASSUME IdleCalled PROVE QuestionInv'
    BY <1>12 DEF IdleCalled, ProcessesMessages
  <1>13. ASSUME Execute PROVE QuestionInv'
    BY <1>13 DEF Execute
  <1>14. ASSUME Connect PROVE QuestionInv'
    BY <1>14 DEF Connect, InOpen
  <1>15. ASSUME Handle PROVE QuestionInv'
    BY <1>15 DEF Handle, InOpen
  <1>16. ASSUME Fail PROVE QuestionInv'
    BY <1>16 DEF Fail, InOpen
  <1>17. ASSUME AskInOpen PROVE QuestionInv'
    BY <1>17, AwaitFacts DEF AskInOpen, Await, MayAsk
  <1>18. ASSUME AbortInOpen PROVE QuestionInv'
    BY <1>18 DEF AbortInOpen, InOpen, Abort, MustAbort, MayAsk
  <1>19. ASSUME AskAtEnd PROVE QuestionInv'
    BY <1>19, AwaitFacts DEF AskAtEnd, Await
  <1>20. ASSUME OpenEnds PROVE QuestionInv'
    BY <1>20 DEF OpenEnds, EndSignalled
  <1>21. ASSUME Loop PROVE QuestionInv'
    BY <1>21 DEF Loop, UpkeepDue, UpkeepBegins
  <1>22. ASSUME Upkeep PROVE QuestionInv'
    BY <1>22 DEF Upkeep
  <1>23. ASSUME AskInUpkeep PROVE QuestionInv'
    BY <1>23, AwaitFacts DEF AskInUpkeep, Await, MayAsk, MustAbort
  <1>24. ASSUME AbortInUpkeep PROVE QuestionInv'
    BY <1>24 DEF AbortInUpkeep, Abort, MustAbort
  <1>25. ASSUME Timeout PROVE QuestionInv'
    BY <1>25 DEF Timeout
  <1>26. ASSUME Woken PROVE QuestionInv'
    BY <1>26 DEF Woken
  <1>27. ASSUME Awake PROVE QuestionInv'
    BY <1>27, LeftFacts DEF Awake, Pending, IdleRethrown, AbortsAfterwards, MustAbort, Left, Abort
  <1>28. QED
    BY <1>1, <1>2, <1>3, <1>4, <1>5, <1>6, <1>7, <1>8, <1>9, <1>10, <1>11, <1>12, <1>13, <1>14, <1>15, <1>16, <1>17, <1>18, <1>19, <1>20, <1>21, <1>22, <1>23, <1>24, <1>25, <1>26, <1>27 DEF Next, RunAction, Session, WaitForUserAction

\* User actions are numbered in the order they are asked.
LEMMA ActionsStep ==
  ASSUME IInv, Next
  PROVE  ActionsInv'
  <1>0. Awake => AwakeShape
    BY AwakeFacts DEF IInv
  <1> USE MaxActionsAssumption DEF IInv, TypeOK, StepInv, ActionsInv, AwaitsUser
  <1> USE DEF eventVars, exceptionVars, cancelVars, mainVars, openVars, sessionVars, historyVars
  <1>1. ASSUME Start PROVE ActionsInv'
    BY <1>1 DEF Start
  <1>2. ASSUME Poll PROVE ActionsInv'
    BY <1>2 DEF Poll
  <1>3. ASSUME Idle PROVE ActionsInv'
    <2>1. CASE mpc = "execute" /\ RethrowsInIdle /\ ExecuteEnds(FIdleException)
      <3>1. FIdleException \in {"ok"} \cup Exceptions /\ FIdleException # "ok"
        BY <2>1 DEF RethrowsInIdle, None, Exceptions
      <3>2. /\ outcome' \in [1..MaxActions -> {"none", "ok"} \cup Exceptions]
            /\ \A a \in 1..MaxActions : outcome'[a] = IF a = executing THEN FIdleException ELSE outcome[a]
            /\ FException' = FIdleException /\ FIdleException' = None
            /\ mpc' = "executed" /\ cancelSeen' = FCancel /\ UNCHANGED <<asked, nested>>
        BY <1>3, <2>1, <3>1, ExecuteEndsFacts DEF Idle, RethrowsInIdle
      <3>3. QED
        BY <1>3, <2>1, <3>1, <3>2, TopFacts DEF Idle
    <2>2. CASE UNCHANGED <<FException, mpc, outcome, cancelSeen, asked, nested>>
      <3>1. FIdleException' \in {None, FIdleException} /\ FPendingIdle' \in BOOLEAN
        BY <1>3 DEF Idle
      <3>2. QED
        BY <1>3, <2>2, <3>1 DEF Idle
    <2>3. QED
      BY <1>3, <2>1, <2>2 DEF Idle
  <1>4. ASSUME Clear PROVE ActionsInv'
    BY <1>4 DEF Clear, ActionCleared
  <1>5. ASSUME Trigger PROVE ActionsInv'
    BY <1>5 DEF Trigger
  <1>6. ASSUME Done PROVE ActionsInv'
    BY <1>6 DEF Done, Failure
  <1>7. ASSUME Terminate PROVE ActionsInv'
    BY <1>7 DEF Terminate
  <1>8. ASSUME Join PROVE ActionsInv'
    BY <1>8 DEF Join
  <1>9. ASSUME MessagesProcessed PROVE ActionsInv'
    BY <1>9 DEF MessagesProcessed
  <1>10. ASSUME Executed PROVE ActionsInv'
    <2>1. PICK verdict \in {"ok", "execute"} : ExecuteEnds(verdict)
      BY <1>10 DEF Executed
    <2>2. /\ outcome' \in [1..MaxActions -> {"none", "ok"} \cup Exceptions]
          /\ \A a \in 1..MaxActions : outcome'[a] = IF a = executing THEN verdict ELSE outcome[a]
          /\ FException' = IF verdict = "ok" THEN FException ELSE verdict
          /\ mpc' = "executed" /\ cancelSeen' = FCancel /\ UNCHANGED <<asked, nested>>
      BY <2>1, ExecuteEndsFacts DEF Exceptions
    <2>3. QED
      BY <1>10, <2>1, <2>2, TopFacts DEF Executed
  <1>11. ASSUME Cancel PROVE ActionsInv'
    BY <1>11 DEF Cancel, ProcessesMessages
  <1>12. ASSUME IdleCalled PROVE ActionsInv'
    BY <1>12 DEF IdleCalled, ProcessesMessages
  <1>13. ASSUME Execute PROVE ActionsInv'
    BY <1>13 DEF Execute
  <1>14. ASSUME Connect PROVE ActionsInv'
    BY <1>14 DEF Connect, InOpen
  <1>15. ASSUME Handle PROVE ActionsInv'
    BY <1>15 DEF Handle, InOpen
  <1>16. ASSUME Fail PROVE ActionsInv'
    BY <1>16 DEF Fail, InOpen
  <1>17. ASSUME AskInOpen PROVE ActionsInv'
    BY <1>17, AwaitFacts DEF AskInOpen, Await, MayAsk
  <1>18. ASSUME AbortInOpen PROVE ActionsInv'
    BY <1>18 DEF AbortInOpen, InOpen, Abort, MustAbort, MayAsk
  <1>19. ASSUME AskAtEnd PROVE ActionsInv'
    BY <1>19, AwaitFacts DEF AskAtEnd, Await
  <1>20. ASSUME OpenEnds PROVE ActionsInv'
    BY <1>20 DEF OpenEnds, EndSignalled
  <1>21. ASSUME Loop PROVE ActionsInv'
    BY <1>21 DEF Loop, UpkeepDue, UpkeepBegins
  <1>22. ASSUME Upkeep PROVE ActionsInv'
    BY <1>22 DEF Upkeep
  <1>23. ASSUME AskInUpkeep PROVE ActionsInv'
    <2>1. asked < MaxActions /\ Len(waits) = 1 /\ Await /\ nested' = TRUE /\ UNCHANGED closing
      BY <1>23 DEF AskInUpkeep, MayAsk
    <2>2. /\ asked' = asked + 1 /\ asked' \in 1..MaxActions
          /\ waits' \in Seq([action : 1..MaxActions, prev : 0..MaxActions])
          /\ Len(waits') = 2 /\ waits'[1].prev = FUserAction /\ waits'[2] = waits[1]
      BY <2>1, AwaitFacts
    <2>3. waits'[Len(waits')].prev = waits[1].prev /\ waits[1].prev <= asked /\ FUserAction <= asked
      BY <1>23, <2>1, <2>2 DEF AskInUpkeep
    <2>4. FUserAction' = asked' /\ UNCHANGED <<executing, outcome>> /\ closing' = closing
      BY <2>1 DEF Await
    <2>5. waits[1].prev \in Nat
      BY <1>23, <2>1, TopFacts DEF AskInUpkeep
    <2>6. /\ \A a \in 1..MaxActions : a > asked' => outcome'[a] = "none"
          /\ FUserAction' <= asked' /\ executing' <= asked'
      <3>1. asked \in Nat /\ executing \in Nat /\ executing <= asked
        OBVIOUS
      <3>2. \A a \in 1..MaxActions : a > asked => outcome[a] = "none"
        OBVIOUS
      <3> HIDE DEF IInv, TypeOK, StepInv, ActionsInv
      <3>3. QED
        BY <2>2, <2>4, <3>1, <3>2
    <2>9. waits'[1].prev <= asked' /\ waits'[Len(waits')].prev <= asked'
      <3>1. asked \in Nat /\ FUserAction \in Nat
        BY DEF TypeOK
      <3> HIDE DEF IInv, TypeOK, StepInv, ActionsInv
      <3>2. QED
        BY <2>2, <2>3, <2>5, <3>1
    <2>7. ~closing' => asked' < MaxActions
      BY <1>23, <2>2, <2>4 DEF AskInUpkeep, MayAsk
    <2>8. QED
      BY <2>6, <2>7, <2>9
  <1>24. ASSUME AbortInUpkeep PROVE ActionsInv'
    BY <1>24 DEF AbortInUpkeep, Abort, MustAbort
  <1>25. ASSUME Timeout PROVE ActionsInv'
    BY <1>25 DEF Timeout
  <1>26. ASSUME Woken PROVE ActionsInv'
    BY <1>26 DEF Woken
  <1>27. ASSUME Awake PROVE ActionsInv'
    <2>1. AwakeShape
      BY <1>0, <1>27
    <2>2. CASE Len(waits) = 1
      <3>1. wpc' = "open" /\ Len(waits') = 0
        BY <2>1, <2>2 DEF AwakeShape
      <3>2. QED
        BY <2>1, <2>2, <3>1 DEF AwakeShape
    <2>3. CASE Len(waits) = 2
      <3>1. /\ wpc' \in {"upkeep", "sleep"} /\ Len(waits') = 1
            /\ waits'[1] = waits[2] /\ waits'[Len(waits')] = waits[2]
        BY <2>1, <2>3 DEF AwakeShape
      <3>2. QED
        BY <2>1, <2>3, <3>1 DEF AwakeShape
    <2>4. QED
      BY <2>1, <2>2, <2>3 DEF AwakeShape
  <1>28. QED
    BY <1>1, <1>2, <1>3, <1>4, <1>5, <1>6, <1>7, <1>8, <1>9, <1>10, <1>11, <1>12, <1>13, <1>14, <1>15, <1>16, <1>17, <1>18, <1>19, <1>20, <1>21, <1>22, <1>23, <1>24, <1>25, <1>26, <1>27 DEF Next, RunAction, Session, WaitForUserAction

\* An abort is not lost on its way to the main thread.
LEMMA CancelStep ==
  ASSUME IInv, Next
  PROVE  CancelInv'
  <1> USE DEF IInv, TypeOK, StepInv, WaitInv, CancelInv, QuestionInv, AwaitsUser, Polling, None, Exceptions
  <1> USE DEF eventVars, exceptionVars, cancelVars, mainVars, openVars, sessionVars, historyVars
  <1>1. ASSUME Start PROVE CancelInv'
    BY <1>1 DEF Start
  <1>2. ASSUME Poll PROVE CancelInv'
    BY <1>2 DEF Poll
  <1>3. ASSUME Idle PROVE CancelInv'
    BY <1>3 DEF Idle, ExecuteEnds, RethrowsInIdle, SavedException, SectionFree
  <1>4. ASSUME Clear PROVE CancelInv'
    BY <1>4 DEF Clear, ActionCleared
  <1>5. ASSUME Trigger PROVE CancelInv'
    BY <1>5 DEF Trigger
  <1>6. ASSUME Done PROVE CancelInv'
    BY <1>6 DEF Done, Failure
  <1>7. ASSUME Terminate PROVE CancelInv'
    BY <1>7 DEF Terminate
  <1>8. ASSUME Join PROVE CancelInv'
    BY <1>8 DEF Join
  <1>9. ASSUME MessagesProcessed PROVE CancelInv'
    BY <1>9 DEF MessagesProcessed
  <1>10. ASSUME Executed PROVE CancelInv'
    BY <1>10 DEF Executed, ExecuteEnds, SavedException
  <1>11. ASSUME Cancel PROVE CancelInv'
    BY <1>11 DEF Cancel, ProcessesMessages
  <1>12. ASSUME IdleCalled PROVE CancelInv'
    BY <1>12 DEF IdleCalled, ProcessesMessages
  <1>13. ASSUME Execute PROVE CancelInv'
    BY <1>13 DEF Execute
  <1>14. ASSUME Connect PROVE CancelInv'
    BY <1>14 DEF Connect, InOpen
  <1>15. ASSUME Handle PROVE CancelInv'
    BY <1>15 DEF Handle, InOpen
  <1>16. ASSUME Fail PROVE CancelInv'
    BY <1>16 DEF Fail, InOpen
  <1>17. ASSUME AskInOpen PROVE CancelInv'
    BY <1>17, AwaitFacts DEF AskInOpen, Await, MayAsk
  <1>18. ASSUME AbortInOpen PROVE CancelInv'
    BY <1>18 DEF AbortInOpen, InOpen, Abort, MustAbort, MayAsk
  <1>19. ASSUME AskAtEnd PROVE CancelInv'
    BY <1>19, AwaitFacts DEF AskAtEnd, Await
  <1>20. ASSUME OpenEnds PROVE CancelInv'
    BY <1>20 DEF OpenEnds, EndSignalled
  <1>21. ASSUME Loop PROVE CancelInv'
    BY <1>21 DEF Loop, UpkeepDue, UpkeepBegins
  <1>22. ASSUME Upkeep PROVE CancelInv'
    BY <1>22 DEF Upkeep
  <1>23. ASSUME AskInUpkeep PROVE CancelInv'
    BY <1>23, AwaitFacts DEF AskInUpkeep, Await, MayAsk, MustAbort
  <1>24. ASSUME AbortInUpkeep PROVE CancelInv'
    BY <1>24 DEF AbortInUpkeep, Abort, MustAbort
  <1>25. ASSUME Timeout PROVE CancelInv'
    BY <1>25 DEF Timeout
  <1>26. ASSUME Woken PROVE CancelInv'
    BY <1>26 DEF Woken
  <1>27. ASSUME Awake PROVE CancelInv'
    BY <1>27, LeftFacts DEF Awake, Pending, IdleRethrown, AbortsAfterwards, MustAbort, Left, Abort
  <1>28. QED
    BY <1>1, <1>2, <1>3, <1>4, <1>5, <1>6, <1>7, <1>8, <1>9, <1>10, <1>11, <1>12, <1>13, <1>14, <1>15, <1>16, <1>17, <1>18, <1>19, <1>20, <1>21, <1>22, <1>23, <1>24, <1>25, <1>26, <1>27 DEF Next, RunAction, Session, WaitForUserAction

----------------------------------------------------------------------------
(* The theorems                                                            *)

\* No step breaks the inductive invariant.
LEMMA InvStep ==
  ASSUME IInv, [Next]_vars
  PROVE  IInv'
  <1>1. CASE Next
    BY <1>1, TypeStep, StepStep, WaitStep, QuestionStep, ActionsStep, CancelStep DEF IInv
  <1>2. CASE UNCHANGED vars
    <2>1. UNCHANGED <<FEvent, FTerminated, FActionEvent, FUserAction, FException, FIdleException,
                      FCancel, FCancelled, FPendingIdle, mpc, executing, inIdle, result, wpc, waits,
                      raised, closing, Active, asked, outcome, cancelSeen, nested>>
      BY <1>2 DEF vars, eventVars, exceptionVars, cancelVars, mainVars, openVars, sessionVars,
                  historyVars
    <2>2. TypeOK' /\ StepInv' /\ WaitInv'
      BY <2>1 DEF IInv, TypeOK, StepInv, WaitInv, AwaitsUser, Polling
    <2>3. QuestionInv' /\ ActionsInv' /\ CancelInv'
      BY <2>1 DEF IInv, QuestionInv, ActionsInv, CancelInv, AwaitsUser, Polling
    <2>4. QED
      BY <2>2, <2>3 DEF IInv
  <1>3. QED
    BY <1>1, <1>2

\* It holds when ConnectTerminal has created the thread, whatever the
\* constructor has left in FCancelled and FPendingIdle.
LEMMA InvInit ==
  ASSUME Init
  PROVE  IInv
  <1> USE MaxActionsAssumption DEF Init, AwaitsUser
  <1>1. TypeOK
    <2>1. 0 \in 0..MaxActions
      OBVIOUS
    <2>2. waits \in Seq([action : 1..MaxActions, prev : 0..MaxActions]) /\ Len(waits) = 0
      OBVIOUS
    <2>3. outcome \in [1..MaxActions -> {"none", "ok"} \cup Exceptions]
      OBVIOUS
    <2>4. QED
      BY <2>1, <2>2, <2>3 DEF TypeOK
  <1>2. StepInv /\ WaitInv /\ QuestionInv /\ ActionsInv
    BY DEF StepInv, WaitInv, QuestionInv, ActionsInv
  <1>3. CancelInv
    BY DEF CancelInv
  <1>4. QED
    BY <1>1, <1>2, <1>3 DEF IInv

\* The inductive invariant always holds.
THEOREM Invariance == Spec => []IInv
  BY InvInit, InvStep, PTL DEF Spec

\* The variables have their types, and the waits are nested as deep as FNesting
\* of TTerminal::Idle allows, once.
THEOREM TypeCorrectness == Spec => []TypeOK
  <1>1. IInv => TypeOK
    BY DEF IInv
  <1>2. QED
    BY <1>1, Invariance, PTL

\* While the main thread executes a user action, a local variable of the session
\* thread, that thread still waits for it, and it has not been executed before.
THEOREM ActionsExecutedOnce == Spec => []ExecutesOnce
  <1>1. IInv => ExecutesOnce
    <2> SUFFICES ASSUME IInv, mpc = "execute", ~nested
                 PROVE  waits # <<>> /\ Head(waits).action = executing /\ outcome[executing] = "none"
      BY DEF ExecutesOnce
    <2>1. AwaitsUser
      BY DEF IInv, StepInv, TypeOK, AwaitsUser, Polling
    <2>2. waits # <<>> /\ Head(waits) = waits[1]
      BY <2>1, TopFacts DEF IInv, TypeOK
    <2>3. QED
      BY <2>1, <2>2 DEF IInv, QuestionInv, Polling
  <1>2. QED
    BY <1>1, Invariance, PTL

\* The session thread goes on with what its own user action has come to.
THEOREM WokenByItsAction == Spec => []WokenByOwnAction
  <1>1. IInv => WokenByOwnAction
    <2> SUFFICES ASSUME IInv, wpc = "awake", ~nested
                 PROVE  LET verdict == outcome[Head(waits).action]
                        IN verdict # "none" /\ FException = IF verdict = "ok" THEN None ELSE verdict
      BY DEF WokenByOwnAction
    <2>1. AwaitsUser
      BY DEF AwaitsUser
    <2>2. Head(waits) = waits[1]
      BY <2>1, TopFacts DEF IInv, TypeOK
    <2>3. QED
      BY <2>1, <2>2 DEF IInv, QuestionInv
  <1>2. QED
    BY <1>1, Invariance, PTL

\* FIdleException is not read by both threads at once, although the session
\* thread takes it without FSection.
THEOREM IdleExceptionOfOne == Spec => []IdleExceptionNotShared
  <1>1. IInv => IdleExceptionNotShared
    BY DEF IInv, TypeOK, WaitInv, AwaitsUser, IdleExceptionNotShared, RethrowsInIdle
  <1>2. QED
    BY <1>1, Invariance, PTL

\* The main thread learns of a cancelled session as an abort.
THEOREM CancellationReported == Spec => []CancelReported
  <1>1. IInv => CancelReported
    BY DEF IInv, CancelInv, StepInv, CancelReported
  <1>2. QED
    BY <1>1, Invariance, PTL

\* A user action during which the session has been cancelled is the last one.
THEOREM CancellationObeyed == Spec => CancelObeyed
  <1>1. ASSUME IInv, [Next]_vars, wpc = "awake", wpc' = "open", Pending = None, cancelSeen
        PROVE  FCancelled \/ raised' = "abort"
    <2>1. Awake
      BY <1>1 DEF vars, sessionVars, Next, RunAction, Session, WaitForUserAction, Start, Poll, Idle, Clear,
             Trigger, Done, Terminate, Join, MessagesProcessed, Executed, Cancel, IdleCalled, Execute,
             Connect, Handle, Fail, InOpen, AskInOpen, AbortInOpen, AskAtEnd, OpenEnds, Loop, Upkeep,
             AskInUpkeep, AbortInUpkeep, Timeout, Woken
    <2>2. ~(Len(waits) = 2)
      BY <1>1, <2>1 DEF Awake
    <2>3. AbortsAfterwards \/ FCancelled
      BY <1>1 DEF IInv, CancelInv, TypeOK, AbortsAfterwards, MustAbort
    <2>4. QED
      BY <1>1, <2>1, <2>2, <2>3 DEF Awake, None
  <1>2. QED
    BY <1>1, Invariance, PTL DEF Spec, CancelObeyed
=============================================================================
