--------------------------- MODULE TransferQueue ---------------------------
(***************************************************************************)
(* What the background queue promises, without threads or connections: a   *)
(* transfer waits in order, is taken by one thread, and then leaves the    *)
(* queue or goes back to its end.  TerminalQueue implements it.            *)
(***************************************************************************)
EXTENDS Integers, Sequences, Lists

CONSTANT Items

VARIABLES
  waiting,  \* transfers nobody works on yet, first to start first
  active,   \* transfers in the hands of a thread
  left      \* transfers that have left the queue

vars == <<waiting, active, left>>

Waits(i) == Contains(waiting, i)

Init == waiting = << >> /\ active = {} /\ left = {}

Submit(i) ==
  /\ ~Waits(i) /\ i \notin active \cup left
  /\ waiting' = Append(waiting, i)
  /\ UNCHANGED <<active, left>>

\* "Execute now": to the front of the waiting ones.
Promote(i) ==
  /\ Waits(i)
  /\ waiting' = Move(waiting, IndexOf(waiting, i), 1)
  /\ UNCHANGED <<active, left>>

Start ==
  /\ waiting # << >>
  /\ active' = active \cup {Head(waiting)}
  /\ waiting' = Tail(waiting)
  /\ UNCHANGED left

Finish(i) ==
  /\ i \in active
  /\ active' = active \ {i}
  /\ left' = left \cup {i}
  /\ UNCHANGED waiting

\* The connection could not be opened: once more, after all the others.
Requeue(i) ==
  /\ i \in active
  /\ active' = active \ {i}
  /\ waiting' = Append(waiting, i)
  /\ UNCHANGED left

Next == Start \/ \E i \in Items : Submit(i) \/ Promote(i) \/ Finish(i) \/ Requeue(i)

Spec == Init /\ [][Next]_vars
=============================================================================
