----------------------------- MODULE ThreadPool -----------------------------
(***************************************************************************)
(* handy/threads.cc: ThreadPool, workers that loop on one SafeQueue.        *)
(*                                                                          *)
(* The owner starts the threads, joins them and destroys the pool; clients  *)
(* (the owner among them) call addTask and exit; a running task may call    *)
(* both as well.  A worker reads exited() without the lock at the head of   *)
(* its loop, so a task can still be taken after exit() - once per worker.   *)
(***************************************************************************)
EXTENDS SafeQueue

CONSTANTS
  Workers,    \* threads_
  Owner       \* the thread that constructs, starts, joins, destroys the pool

ASSUME PoolAssumption ==
  /\ Workers \subseteq Threads
  /\ Workers # {}
  /\ Owner \in Threads \ Workers

VARIABLES
  wpc,        \* where each worker is in its loop
  cur,        \* the task a worker runs, or None
  opc,        \* where the owner is in the pool's life
  finished,   \* history: tasks that ran to their end
  last        \* history: workers that took a task after exit_ was set

pvars == <<wpc, cur, opc, finished, last>>
vars == <<qvars, pvars>>

\* unborn  the std::thread is not running yet
\* test    about to read tasks_.exited()
\* pop     in tasks_.pop_wait(&task)
\* run     in task()
\* done    left the loop
WorkerPCs == {"unborn", "test", "pop", "run", "done"}
OwnerPCs == {"built", "starting", "up", "joining", "joined", "destroyed"}

\* Types of the pool's own state; a worker runs a task exactly while at "run".
PoolTypeOK ==
  /\ TypeOK
  /\ wpc \in [Workers -> WorkerPCs]
  /\ cur \in [Workers -> Tasks \cup {None}]
  /\ opc \in OwnerPCs
  /\ finished \subseteq Tasks
  /\ last \subseteq Workers
  /\ \A w \in Workers : wpc[w] = "run" <=> cur[w] # None

PoolInit ==
  /\ QueueInit
  /\ wpc = [w \in Workers |-> "unborn"]
  /\ cur = [w \in Workers |-> None]
  /\ opc = "built"
  /\ finished = {}
  /\ last = {}

\* start(): one thread after the other; the first ones run meanwhile.
StartThread(w) ==
  /\ opc \in {"built", "starting"}
  /\ wpc[w] = "unborn"
  /\ wpc' = [wpc EXCEPT ![w] = "test"]
  /\ opc' = IF \A u \in Workers \ {w} : wpc[u] # "unborn" THEN "up" ELSE "starting"
  /\ UNCHANGED <<qvars, cur, finished, last>>

\* A thread that may call the pool now: a client, the owner between two calls
\* of its own, or a worker from inside its task.
CanCall(t) ==
  IF t \in Workers THEN wpc[t] = "run"
  ELSE t = Owner => opc \in {"built", "up"}

AddTask(t, v) == CanCall(t) /\ Push(t, v) /\ UNCHANGED pvars

\* exit()
PoolExit(t) ==
  /\ \/ CanCall(t) /\ ExitStore(t)
     \/ ExitNotify(t)
  /\ UNCHANGED pvars

\* while (!tasks_.exited())
LoopTestOnce(w) ==
  /\ wpc[w] = "test"
  /\ wpc' = [wpc EXCEPT ![w] = IF exit_ /\ items = <<>> THEN "done" ELSE "pop"]
  /\ UNCHANGED <<qvars, cur, opc, finished, last>>
LoopTest(w) ==
  /\ wpc[w] = "test"
  /\ wpc' = [wpc EXCEPT ![w] = IF exit_ THEN "done" ELSE "pop"]
  /\ UNCHANGED <<qvars, cur, opc, finished, last>>

\* pop_wait(&task), with its default wait_infinite, up to its last test
PopStep(w) ==
  /\ wpc[w] = "pop"
  /\ \/ PopEnter(w, "infinite")
     \/ WaitReady(w)
     \/ Block(w)
     \/ SpuriousWake(w)
     \/ Reacquire(w)
  /\ UNCHANGED pvars

\* if (tasks_.pop_wait(&task)) task();
PopReturn(w) ==
  /\ wpc[w] = "pop"
  /\ Take(w)
  /\ IF items = <<>>
       THEN /\ wpc' = [wpc EXCEPT ![w] = "test"]
            /\ UNCHANGED <<cur, last>>
       ELSE /\ wpc' = [wpc EXCEPT ![w] = "run"]
            /\ cur' = [cur EXCEPT ![w] = Head(items)]
            /\ last' = IF exit_ THEN last \cup {w} ELSE last
  /\ UNCHANGED <<opc, finished>>

FinishTaskKeeping(w) ==
  /\ wpc[w] = "run"
  /\ qpc[w] = "out"
  /\ finished' = finished \cup {cur[w]}
  /\ wpc' = [wpc EXCEPT ![w] = "test"]
  /\ UNCHANGED <<qvars, cur, opc, last>>
FinishTask(w) ==
  /\ wpc[w] = "run"
  /\ qpc[w] = "out"
  /\ finished' = finished \cup {cur[w]}
  /\ cur' = [cur EXCEPT ![w] = None]
  /\ wpc' = [wpc EXCEPT ![w] = "test"]
  /\ UNCHANGED <<qvars, opc, last>>

\* join(): returns when every thread has left its loop
JoinCall ==
  /\ opc = "up"
  /\ qpc[Owner] = "out"
  /\ opc' = "joining"
  /\ UNCHANGED <<qvars, wpc, cur, finished, last>>

JoinReturnFirst ==
  /\ opc = "joining"
  /\ \E w \in Workers : wpc[w] = "done"
  /\ opc' = "joined"
  /\ UNCHANGED <<qvars, wpc, cur, finished, last>>
JoinReturn ==
  /\ opc = "joining"
  /\ \A w \in Workers : wpc[w] = "done"
  /\ opc' = "joined"
  /\ UNCHANGED <<qvars, wpc, cur, finished, last>>

\* ~ThreadPool, after join (a joinable std::thread may not be destroyed)
Destroy ==
  /\ opc = "joined"
  /\ opc' = "destroyed"
  /\ UNCHANGED <<qvars, wpc, cur, finished, last>>

WorkerStep(w) == LoopTest(w) \/ PopStep(w) \/ PopReturn(w) \/ FinishTask(w)

PoolNext ==
  \/ \E w \in Workers : StartThread(w) \/ WorkerStep(w)
  \/ \E t \in Threads : PoolExit(t) \/ \E v \in Tasks : AddTask(t, v)
  \/ JoinCall \/ JoinReturn \/ Destroy

PoolSpec == PoolInit /\ [][PoolNext]_vars

\* The scheduler runs every worker that can run; a thread that asks for the
\* std::mutex again and again gets it, hence strong fairness.  A worker is at
\* one place at a time, so one conjunct covers the steps of its loop; leaving
\* the wait set without a notify is never obliged.  A task terminates, however
\* often it calls the pool before.  Of the clients' exit() calls in progress
\* one gets the mutex.  Nobody has to add a task or to exit.
WorkerProgress(w) ==
  \/ LoopTest(w)
  \/ PopStep(w) /\ qpc[w] # "wait"
  \/ PopReturn(w)
  \/ ExitNotify(w) /\ UNCHANGED pvars

PoolFairness ==
  /\ \A w \in Workers : SF_vars(WorkerProgress(w)) /\ SF_vars(FinishTask(w))
  /\ SF_vars(\E t \in Threads \ Workers : ExitNotify(t) /\ UNCHANGED pvars)

FairPoolSpec == PoolSpec /\ PoolFairness

-----------------------------------------------------------------------------

\* What the pool promises: see TaskService.
Service == INSTANCE TaskService WITH
  queue <- items, running <- cur, closed <- exit_, NoTask <- None

\* The workers, the queue's lock and its condition variable implement the
\* abstract service: tasks begin in the order addTask accepted them, each on
\* one worker, and after exit() a worker begins at most one more.
ImplementsService == Service!Spec

\* ~ThreadPool asserts tasks_.exited().  Owning threads join before they
\* destroy, and join returns only when every worker has seen exit_: the
\* assertion cannot fail, and no task is half done or held by a worker then.
DestroyedClean ==
  opc \in {"joined", "destroyed"} =>
    /\ exit_
    /\ \A w \in Workers : cur[w] = None /\ qpc[w] = "out"
    /\ {taken[i] : i \in 1..Len(taken)} = finished

\* exit() ends the pool: from any state, every started worker leaves its loop,
\* the ones asleep in pop_wait, about to sleep or just before it included.
ExitEndsWorkers == exit_ ~> \A w \in Workers : wpc[w] \in {"unborn", "done"}

\* An accepted task is begun, or the pool is told to exit first: no push is
\* missed by every worker once the pool runs.
AcceptedTaskBegins ==
  \A v \in Tasks :
    (opc # "built" /\ \E i \in 1..Len(items) : items[i] = v)
      ~> (exit_ \/ \E i \in 1..Len(taken) : taken[i] = v)

\* Inductive strengthening.  A worker is inside pop_wait only at "pop" and in
\* exit() only from its task; one that took a task after exit_ never pops
\* again; what was taken is finished or running; joined workers are done.
WorkerPlaces ==
  \A w \in Workers :
    /\ qpc[w] \in {"check", "block", "wait", "woken", "late", "take"} => wpc[w] = "pop"
    /\ qpc[w] = "exiting" => wpc[w] = "run"
    /\ wpc[w] = "done" => exit_
LastIsLast == \A w \in last : exit_ /\ wpc[w] \in {"run", "test", "done"}
TakenAccounted ==
  {taken[i] : i \in 1..Len(taken)} =
    finished \cup {v \in Tasks : \E w \in Workers : cur[w] = v}
JoinedDone == opc \in {"joined", "destroyed"} => \A w \in Workers : wpc[w] = "done"

PoolInv ==
  /\ PoolTypeOK
  /\ WorkerPlaces
  /\ LastIsLast
  /\ TakenAccounted
  /\ JoinedDone

=============================================================================
