----------------------------- MODULE SafeQueue -----------------------------
(***************************************************************************)
(* handy/threads.h: SafeQueue<T>, the mutex + condition-variable queue that *)
(* carries every task of the library: the tasks of a ThreadPool and the     *)
(* safeCall tasks of an EventBase.                                          *)
(*                                                                          *)
(* exit_ is an atomic that is read under the mutex but stored WITHOUT it    *)
(* (exit() locks only to notify), so the critical section of pop_wait is    *)
(* split at each read of exit_ and at the wait on ready_.  push has one     *)
(* read of exit_ and no wait: it is one step.  A value is an opaque model   *)
(* value that is pushed at most once, so that it can be told apart.         *)
(***************************************************************************)
EXTENDS Integers, Sequences, FiniteSets

CONSTANTS
  Threads,    \* threads that call the queue
  Tasks,      \* the values pushed, each at most once
  Capacity,   \* capacity_; 0 means unlimited
  None        \* "no thread" and "no task"

ASSUME QueueAssumption ==
  /\ Capacity \in Nat
  /\ IsFiniteSet(Threads)
  /\ None \notin Threads
  /\ None \notin Tasks

VARIABLES
  items,      \* items_: the queued values, oldest first
  exit_,      \* exit_
  mutex,      \* the thread that holds the mutex across steps, or None
  qpc,        \* where each thread is inside the queue's methods
  mode,       \* waitMs of the pop_wait a thread is in
  accepted,   \* history: the values push returned true for, in order
  refused,    \* history: the values push returned false for
  taken       \* history: the values pop_wait returned, in order

qvars == <<items, exit_, mutex, qpc, mode, accepted, refused, taken>>

\* waitMs: wait_infinite, a positive number of milliseconds, or 0
Modes == {"infinite", "timed", "nowait"}

\* out     not inside pop_wait or exit
\* check   holds the mutex, about to evaluate exit_ || !items_.empty()
\* block   holds the mutex, saw the predicate false, about to wait on ready_
\* wait    in the wait set of ready_, mutex released
\* woken   left the wait set (notified or spuriously), needs the mutex again
\* late    wait_until timed out, needs the mutex again
\* take    holds the mutex, wait_ready returned, about to test items_.empty()
\* exiting stored exit_, about to lock and notify_all
PCs == {"out", "check", "block", "wait", "woken", "late", "take", "exiting"}

At(S) == {t \in Threads : qpc[t] \in S}
Waiting == At({"wait"})
\* Threads that will look at items_ before they can wait (again).
Heading == At({"check", "take", "woken", "late"})

\* The mutex is held across steps by exactly the thread that is inside the
\* critical section of pop_wait: one thread at a time, and none while it waits.
LockDiscipline ==
  \A t \in Threads : mutex = t <=> qpc[t] \in {"check", "block", "take"}

\* Types of the queue's fields and of each thread's place in its methods.
TypeOK ==
  /\ items \in Seq(Tasks)
  /\ exit_ \in BOOLEAN
  /\ mutex \in Threads \cup {None}
  /\ qpc \in [Threads -> PCs]
  /\ mode \in [Threads -> Modes]
  /\ accepted \in Seq(Tasks)
  /\ refused \subseteq Tasks
  /\ taken \in Seq(Tasks)
  /\ LockDiscipline

QueueInit ==
  /\ items = <<>>
  /\ exit_ = FALSE
  /\ mutex = None
  /\ qpc = [t \in Threads |-> "out"]
  /\ mode = [t \in Threads |-> "infinite"]
  /\ accepted = <<>>
  /\ refused = {}
  /\ taken = <<>>

Pushed(v) == v \in refused \/ \E i \in 1..Len(accepted) : accepted[i] = v

\* notify_one: some waiter leaves the wait set, if there is one.
NotifyOneLost == qpc' = qpc
NotifyOne ==
  IF Waiting = {} THEN qpc' = qpc
  ELSE \E w \in Waiting : qpc' = [qpc EXCEPT ![w] = "woken"]

Full == Capacity # 0 /\ Len(items) >= Capacity

\* push(v): false when exited or full, otherwise append and notify_one.
Push(t, v) ==
  /\ qpc[t] = "out"
  /\ mutex = None
  /\ ~Pushed(v)
  /\ \/ /\ exit_ \/ Full
        /\ refused' = refused \cup {v}
        /\ UNCHANGED <<items, qpc, accepted>>
     \/ /\ ~(exit_ \/ Full)
        /\ items' = Append(items, v)
        /\ accepted' = Append(accepted, v)
        /\ NotifyOne
        /\ UNCHANGED refused
  /\ UNCHANGED <<exit_, mutex, mode, taken>>

\* pop_wait(v, waitMs): unique_lock taken, wait_ready entered.
PopEnter(t, m) ==
  /\ qpc[t] = "out"
  /\ mutex = None
  /\ mutex' = t
  /\ qpc' = [qpc EXCEPT ![t] = "check"]
  /\ mode' = [mode EXCEPT ![t] = m]
  /\ UNCHANGED <<items, exit_, accepted, refused, taken>>

\* The predicate, evaluated on entry and again after every wake-up.
WaitReadyIgnoringExit(t) ==
  /\ qpc[t] = "check"
  /\ qpc' = [qpc EXCEPT ![t] =
       IF items # <<>> \/ mode[t] = "nowait" THEN "take" ELSE "block"]
  /\ UNCHANGED <<items, exit_, mutex, mode, accepted, refused, taken>>
WaitReady(t) ==
  /\ qpc[t] = "check"
  /\ qpc' = [qpc EXCEPT ![t] =
       IF exit_ \/ items # <<>> \/ mode[t] = "nowait" THEN "take" ELSE "block"]
  /\ UNCHANGED <<items, exit_, mutex, mode, accepted, refused, taken>>

\* ready_.wait / wait_until: enter the wait set and release the mutex at once.
BlockHolding(t) ==
  /\ qpc[t] = "block"
  /\ qpc' = [qpc EXCEPT ![t] = "wait"]
  /\ UNCHANGED <<items, exit_, mutex, mode, accepted, refused, taken>>
Block(t) ==
  /\ qpc[t] = "block"
  /\ qpc' = [qpc EXCEPT ![t] = "wait"]
  /\ mutex' = None
  /\ UNCHANGED <<items, exit_, mode, accepted, refused, taken>>

SpuriousWake(t) ==
  /\ qpc[t] = "wait"
  /\ qpc' = [qpc EXCEPT ![t] = "woken"]
  /\ UNCHANGED <<items, exit_, mutex, mode, accepted, refused, taken>>

\* wait_until reports a timeout when the deadline has passed as it returns,
\* also to a thread that had been notified.
TimedOut(t) ==
  /\ qpc[t] \in {"wait", "woken"}
  /\ mode[t] = "timed"
  /\ qpc' = [qpc EXCEPT ![t] = "late"]
  /\ UNCHANGED <<items, exit_, mutex, mode, accepted, refused, taken>>

\* The wait returns: the mutex is taken again; the loop tests its condition,
\* except that a timeout leaves it.
Reacquire(t) ==
  /\ qpc[t] \in {"woken", "late"}
  /\ mutex = None
  /\ mutex' = t
  /\ qpc' = [qpc EXCEPT ![t] = IF qpc[t] = "late" THEN "take" ELSE "check"]
  /\ UNCHANGED <<items, exit_, mode, accepted, refused, taken>>

\* The rest of pop_wait: nothing, or the oldest value; the lock is released.
TakeNewest(t) ==
  /\ qpc[t] = "take"
  /\ IF items = <<>>
       THEN UNCHANGED <<items, taken>>
       ELSE /\ taken' = Append(taken, items[Len(items)])
            /\ items' = SubSeq(items, 1, Len(items) - 1)
  /\ qpc' = [qpc EXCEPT ![t] = "out"]
  /\ mutex' = None
  /\ UNCHANGED <<exit_, mode, accepted, refused>>
Take(t) ==
  /\ qpc[t] = "take"
  /\ IF items = <<>>
       THEN UNCHANGED <<items, taken>>
       ELSE /\ taken' = Append(taken, Head(items))
            /\ items' = Tail(items)
  /\ qpc' = [qpc EXCEPT ![t] = "out"]
  /\ mutex' = None
  /\ UNCHANGED <<exit_, mode, accepted, refused>>

\* exit(): exit_ = true, without the lock ...
ExitStore(t) ==
  /\ qpc[t] = "out"
  /\ exit_' = TRUE
  /\ qpc' = [qpc EXCEPT ![t] = "exiting"]
  /\ UNCHANGED <<items, mutex, mode, accepted, refused, taken>>

\* ... then lock and notify_all.
ExitNotifyUnlocked(t) ==
  /\ qpc[t] = "exiting"
  /\ qpc' = [u \in Threads |-> IF u = t THEN "out"
                               ELSE IF qpc[u] = "wait" THEN "woken"
                               ELSE qpc[u]]
  /\ UNCHANGED <<items, exit_, mutex, mode, accepted, refused, taken>>
ExitNotify(t) ==
  /\ qpc[t] = "exiting"
  /\ mutex = None
  /\ qpc' = [u \in Threads |-> IF u = t THEN "out"
                               ELSE IF qpc[u] = "wait" THEN "woken"
                               ELSE qpc[u]]
  /\ UNCHANGED <<items, exit_, mutex, mode, accepted, refused, taken>>

QueueNext ==
  \E t \in Threads :
    \/ \E v \in Tasks : Push(t, v)
    \/ \E m \in Modes : PopEnter(t, m)
    \/ WaitReady(t)
    \/ Block(t)
    \/ SpuriousWake(t)
    \/ TimedOut(t)
    \/ Reacquire(t)
    \/ Take(t)
    \/ ExitStore(t)
    \/ ExitNotify(t)

QueueSpec == QueueInit /\ [][QueueNext]_qvars

-----------------------------------------------------------------------------

\* Every value for which push returned true comes out exactly once and in
\* order: what was taken, followed by what is queued, is what was accepted,
\* whatever timeouts, spurious wake-ups and exits happened in between.
ExactlyOnceInOrder == accepted = taken \o items

\* No lost wake-up: while a thread sleeps on ready_, every queued value has
\* a thread of its own that is on its way to look at items_.  (A single
\* notify_one per push is enough even when the notified thread times out, or
\* finds the queue emptied by a thread that came in from outside.)
NoLostWakeup == Waiting # {} => Len(items) <= Cardinality(Heading)

\* exit() wakes everybody for good: once exit_ is set and every exit() has
\* returned, no thread sleeps on ready_ or is about to.
ExitReleasesAll ==
  (exit_ /\ At({"exiting"}) = {}) => At({"wait", "block"}) = {}

\* Inductive strengthening: a thread about to wait holds the mutex since it
\* saw the queue empty, so it is still empty; and all of the above.
BlockSawEmpty == At({"block"}) # {} => items = <<>>

QueueInv ==
  /\ TypeOK
  /\ BlockSawEmpty
  /\ ExactlyOnceInOrder
  /\ NoLostWakeup
  /\ ExitReleasesAll

=============================================================================
