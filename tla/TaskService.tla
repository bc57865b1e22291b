---------------------------- MODULE TaskService ----------------------------
(***************************************************************************)
(* What handy::ThreadPool promises its users, without the queue's locks and *)
(* waits: tasks are begun in the order in which addTask accepted them, each *)
(* by one free worker, none is accepted once the pool has been told to      *)
(* exit, and from then on every worker begins at most one more.             *)
(***************************************************************************)
EXTENDS Sequences, FiniteSets

CONSTANTS Workers, Tasks, NoTask

VARIABLES
  queue,      \* accepted tasks not begun, oldest first
  running,    \* the task each worker runs, or NoTask
  finished,   \* tasks that ran to their end
  closed,     \* the pool has been told to exit
  last        \* workers that have begun a task since then

svars == <<queue, running, finished, closed, last>>

Init ==
  /\ queue = <<>>
  /\ running = [w \in Workers |-> NoTask]
  /\ finished = {}
  /\ closed = FALSE
  /\ last = {}

Submit(v) ==
  /\ ~closed
  /\ queue' = Append(queue, v)
  /\ UNCHANGED <<running, finished, closed, last>>

Begin(w) ==
  /\ queue # <<>>
  /\ running[w] = NoTask
  /\ w \notin last
  /\ running' = [running EXCEPT ![w] = Head(queue)]
  /\ queue' = Tail(queue)
  /\ last' = IF closed THEN last \cup {w} ELSE last
  /\ UNCHANGED <<finished, closed>>

Finish(w) ==
  /\ running[w] # NoTask
  /\ finished' = finished \cup {running[w]}
  /\ running' = [running EXCEPT ![w] = NoTask]
  /\ UNCHANGED <<queue, closed, last>>

Close ==
  /\ closed' = TRUE
  /\ UNCHANGED <<queue, running, finished, last>>

Next ==
  \/ \E v \in Tasks : Submit(v)
  \/ \E w \in Workers : Begin(w) \/ Finish(w)
  \/ Close

Spec == Init /\ [][Next]_svars

=============================================================================
