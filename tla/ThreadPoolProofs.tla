-------------------------- MODULE ThreadPoolProofs --------------------------
(***************************************************************************)
(* SafeQueue, for any number of threads, values and any capacity: it        *)
(* delivers what it accepted exactly once and in order, no wake-up is lost, *)
(* and exit() releases every waiter.  (The theorems about QueueSpec; of the *)
(* assumptions they cite only the queue's.)                                 *)
(* ThreadPool, for any number of workers, clients and tasks: it keeps every *)
(* guarantee of its SafeQueue, is clean when joined, and implements the     *)
(* abstract TaskService.                                                    *)
(***************************************************************************)
EXTENDS ThreadPool, TLAPS, FiniteSetTheorems, SequenceTheorems

-----------------------------------------------------------------------------
(* The queue by itself.                                                     *)

\* Any set of threads picked by its place in the queue's methods is finite.
LEMMA AtFinite ==
  ASSUME NEW S
  PROVE  IsFiniteSet(At(S)) /\ Cardinality(At(S)) \in Nat
<1>1. At(S) \in SUBSET Threads
  BY DEF At
<1>2. IsFiniteSet(At(S))
  BY <1>1, FS_Subset, QueueAssumption
<1> QED
  BY <1>2, FS_CardinalityType

\* Taking the oldest value moves it from the queue to the taken ones: the
\* concatenation of the two does not change.
LEMMA TakeKeepsConcat ==
  ASSUME NEW s \in Seq(Tasks), NEW q \in Seq(Tasks), q # <<>>
  PROVE  Append(s, Head(q)) \o Tail(q) = s \o q
<1>1. Head(q) \in Tasks /\ Tail(q) \in Seq(Tasks) /\ Len(Tail(q)) = Len(q) - 1
  BY HeadTailProperties
<1>2. Append(s, Head(q)) \in Seq(Tasks) /\ Len(Append(s, Head(q))) = Len(s) + 1
  BY <1>1, AppendProperties
<1> DEFINE l == Append(s, Head(q)) \o Tail(q)
           r == s \o q
<1>3. l \in Seq(Tasks) /\ r \in Seq(Tasks)
  BY <1>1, <1>2, ConcatProperties
<1>4. Len(l) = Len(s) + Len(q) /\ Len(r) = Len(s) + Len(q)
  BY <1>1, <1>2
<1>5. \A i \in 1..Len(l) : l[i] = r[i]
  BY <1>1, <1>2, <1>4
<1> QED
  BY <1>3, <1>4, <1>5, SeqEqual

\* Appending to the second of two sequences appends to their concatenation.
LEMMA PushKeepsConcat ==
  ASSUME NEW s \in Seq(Tasks), NEW q \in Seq(Tasks), NEW v \in Tasks
  PROVE  Append(s \o q, v) = s \o Append(q, v)
<1> DEFINE l == Append(s \o q, v)
           r == s \o Append(q, v)
<1>1. s \o q \in Seq(Tasks) /\ Append(q, v) \in Seq(Tasks)
  BY ConcatProperties, AppendProperties
<1>2. l \in Seq(Tasks) /\ r \in Seq(Tasks)
  BY <1>1, ConcatProperties, AppendProperties
<1>3. Len(l) = Len(s) + Len(q) + 1 /\ Len(r) = Len(s) + Len(q) + 1
  BY <1>1
<1>4. \A i \in 1..Len(l) : l[i] = r[i]
  BY <1>1, <1>3
<1> QED
  BY <1>2, <1>3, <1>4, SeqEqual

\* A new queue: empty, nobody in its methods.
LEMMA QueueInitInv == QueueInit => QueueInv
<1> SUFFICES ASSUME QueueInit PROVE QueueInv
  OBVIOUS
<1>1. TypeOK
  <2>1. <<>> \in Seq(Tasks)
    OBVIOUS
  <2>2. LockDiscipline
    BY QueueAssumption DEF QueueInit, LockDiscipline
  <2>3. qpc \in [Threads -> PCs] /\ mode \in [Threads -> Modes]
    BY DEF QueueInit, PCs, Modes
  <2> QED
    BY <2>1, <2>2, <2>3 DEF QueueInit, TypeOK
<1>2. At({"block"}) = {} /\ At({"wait"}) = {} /\ At({"wait", "block"}) = {}
  BY DEF QueueInit, At
<1>3. ExactlyOnceInOrder
  BY DEF QueueInit, ExactlyOnceInOrder
<1> QED
  BY <1>1, <1>2, <1>3 DEF QueueInv, BlockSawEmpty, NoLostWakeup, Waiting, ExitReleasesAll

\* The fields keep their types and the mutex its discipline.
LEMMA QueueType == TypeOK /\ [QueueNext]_qvars => TypeOK'
<1> SUFFICES ASSUME TypeOK, [QueueNext]_qvars PROVE TypeOK'
  OBVIOUS
<1> USE QueueAssumption DEF TypeOK, LockDiscipline, PCs, Modes
<1>1. ASSUME NEW t \in Threads, NEW v \in Tasks, Push(t, v) PROVE TypeOK'
  <2>1. CASE exit_ \/ Full
    BY <1>1, <2>1 DEF Push
  <2>2. CASE ~(exit_ \/ Full)
    <3>1. items' \in Seq(Tasks) /\ accepted' \in Seq(Tasks)
      <4>1. items' = Append(items, v) /\ accepted' = Append(accepted, v)
        BY <1>1, <2>2 DEF Push
      <4> QED
        BY <4>1
    <3>2. qpc' \in [Threads -> PCs] /\ LockDiscipline'
      BY <1>1, <2>2 DEF Push, NotifyOne, Waiting, At
    <3> QED
      BY <1>1, <2>2, <3>1, <3>2 DEF Push
  <2> QED
    BY <2>1, <2>2
<1>2. ASSUME NEW t \in Threads, NEW m \in Modes, PopEnter(t, m) PROVE TypeOK'
  BY <1>2 DEF PopEnter
<1>3. ASSUME NEW t \in Threads, WaitReady(t) PROVE TypeOK'
  BY <1>3 DEF WaitReady
<1>4. ASSUME NEW t \in Threads, Block(t) PROVE TypeOK'
  BY <1>4 DEF Block
<1>5. ASSUME NEW t \in Threads, SpuriousWake(t) PROVE TypeOK'
  BY <1>5 DEF SpuriousWake
<1>6. ASSUME NEW t \in Threads, TimedOut(t) PROVE TypeOK'
  BY <1>6 DEF TimedOut
<1>7. ASSUME NEW t \in Threads, Reacquire(t) PROVE TypeOK'
  BY <1>7 DEF Reacquire
<1>8. ASSUME NEW t \in Threads, Take(t) PROVE TypeOK'
  <2>1. items' \in Seq(Tasks) /\ taken' \in Seq(Tasks)
    <3>1. CASE items = <<>>
      BY <1>8, <3>1 DEF Take
    <3>2. CASE items # <<>>
      <4>1. items' = Tail(items) /\ taken' = Append(taken, Head(items))
        BY <1>8, <3>2 DEF Take
      <4>2. Head(items) \in Tasks /\ Tail(items) \in Seq(Tasks)
        BY <3>2
      <4> QED
        BY <4>1, <4>2
    <3> QED
      BY <3>1, <3>2
  <2> QED
    BY <1>8, <2>1 DEF Take
<1>9. ASSUME NEW t \in Threads, ExitStore(t) PROVE TypeOK'
  BY <1>9 DEF ExitStore
<1>10. ASSUME NEW t \in Threads, ExitNotify(t) PROVE TypeOK'
  BY <1>10 DEF ExitNotify
<1>11. ASSUME UNCHANGED qvars PROVE TypeOK'
  BY <1>11 DEF qvars
<1> QED
  BY <1>1, <1>2, <1>3, <1>4, <1>5, <1>6, <1>7, <1>8, <1>9, <1>10, <1>11 DEF QueueNext

\* A thread about to wait still holds the mutex, so nothing was pushed since
\* it saw the queue empty.
LEMMA QueueBlock == QueueInv /\ [QueueNext]_qvars => BlockSawEmpty'
<1> SUFFICES ASSUME QueueInv, [QueueNext]_qvars, NEW b \in Threads, qpc'[b] = "block"
             PROVE  items' = <<>>
  BY DEF BlockSawEmpty, At
<1> USE DEF QueueInv, TypeOK, LockDiscipline
<1>0. qpc[b] = "block" => items = <<>> /\ mutex = b
  BY DEF BlockSawEmpty, At
<1>1. ASSUME NEW t \in Threads, NEW v \in Tasks, Push(t, v) PROVE items' = <<>>
  BY <1>0, <1>1, QueueAssumption DEF Push, NotifyOne, Waiting, At
<1>2. ASSUME NEW t \in Threads, NEW m \in Modes, PopEnter(t, m) PROVE items' = <<>>
  BY <1>0, <1>2 DEF PopEnter
<1>3. ASSUME NEW t \in Threads, WaitReady(t) PROVE items' = <<>>
  BY <1>0, <1>3 DEF WaitReady
<1>4. ASSUME NEW t \in Threads, Block(t) PROVE items' = <<>>
  BY <1>0, <1>4 DEF Block
<1>5. ASSUME NEW t \in Threads, SpuriousWake(t) PROVE items' = <<>>
  BY <1>0, <1>5 DEF SpuriousWake
<1>6. ASSUME NEW t \in Threads, TimedOut(t) PROVE items' = <<>>
  BY <1>0, <1>6 DEF TimedOut
<1>7. ASSUME NEW t \in Threads, Reacquire(t) PROVE items' = <<>>
  BY <1>0, <1>7 DEF Reacquire
<1>8. ASSUME NEW t \in Threads, Take(t) PROVE items' = <<>>
  BY <1>0, <1>8 DEF Take
<1>9. ASSUME NEW t \in Threads, ExitStore(t) PROVE items' = <<>>
  BY <1>0, <1>9 DEF ExitStore
<1>10. ASSUME NEW t \in Threads, ExitNotify(t) PROVE items' = <<>>
  BY <1>0, <1>10 DEF ExitNotify
<1>11. ASSUME UNCHANGED qvars PROVE items' = <<>>
  BY <1>0, <1>11 DEF qvars
<1> QED
  BY <1>1, <1>2, <1>3, <1>4, <1>5, <1>6, <1>7, <1>8, <1>9, <1>10, <1>11 DEF QueueNext

\* Only push and take touch the three sequences, and each keeps the equation.
LEMMA QueueOrder == QueueInv /\ [QueueNext]_qvars => ExactlyOnceInOrder'
<1> SUFFICES ASSUME QueueInv, [QueueNext]_qvars PROVE ExactlyOnceInOrder'
  OBVIOUS
<1> USE DEF QueueInv, TypeOK, ExactlyOnceInOrder
<1>1. ASSUME NEW t \in Threads, NEW v \in Tasks, Push(t, v) PROVE ExactlyOnceInOrder'
  <2>1. CASE exit_ \/ Full
    BY <1>1, <2>1 DEF Push
  <2>2. CASE ~(exit_ \/ Full)
    <3>1. items' = Append(items, v) /\ accepted' = Append(accepted, v) /\ taken' = taken
      BY <1>1, <2>2 DEF Push
    <3> QED
      BY <3>1, PushKeepsConcat
  <2> QED
    BY <2>1, <2>2
<1>2. ASSUME NEW t \in Threads, Take(t) PROVE ExactlyOnceInOrder'
  <2>1. CASE items = <<>>
    BY <1>2, <2>1 DEF Take
  <2>2. CASE items # <<>>
    <3>1. items' = Tail(items) /\ taken' = Append(taken, Head(items)) /\ accepted' = accepted
      BY <1>2, <2>2 DEF Take
    <3> QED
      BY <2>2, <3>1, TakeKeepsConcat
  <2> QED
    BY <2>1, <2>2
<1>3. ASSUME UNCHANGED <<items, accepted, taken>> PROVE ExactlyOnceInOrder'
  BY <1>3
<1> QED
  BY <1>1, <1>2, <1>3 DEF QueueNext, PopEnter, WaitReady, Block, SpuriousWake, TimedOut,
     Reacquire, ExitStore, ExitNotify, qvars

\* While somebody sleeps, a push wakes one more thread, a pop spends the
\* thread that pops, and a thread goes to sleep only on an empty queue.
LEMMA QueueWakeup == QueueInv /\ [QueueNext]_qvars => NoLostWakeup'
<1> SUFFICES ASSUME QueueInv, [QueueNext]_qvars, Waiting' # {}
             PROVE  Len(items)' <= Cardinality(Heading')
  BY DEF NoLostWakeup
<1> USE DEF QueueInv, TypeOK, LockDiscipline, NoLostWakeup
<1> DEFINE Goal == Len(items)' <= Cardinality(Heading')
<1>a. /\ IsFiniteSet(Heading) /\ Cardinality(Heading) \in Nat
      /\ IsFiniteSet(Heading') /\ Cardinality(Heading') \in Nat
  <2>1. Heading \in SUBSET Threads /\ Heading' \in SUBSET Threads
    BY DEF Heading, At
  <2> QED
    BY <2>1, FS_Subset, FS_CardinalityType, QueueAssumption
<1>b. ASSUME items' = items, Heading \subseteq Heading', Waiting # {} PROVE Goal
  <2>1. Cardinality(Heading) <= Cardinality(Heading')
    BY <1>a, <1>b, FS_Subset
  <2> QED
    BY <1>a, <1>b, <2>1
<1>c. ASSUME items' = <<>> PROVE Goal
  BY <1>a, <1>c
<1>1. ASSUME NEW t \in Threads, NEW v \in Tasks, Push(t, v) PROVE Goal
  <2>1. CASE exit_ \/ Full
    BY <1>b, <1>1, <2>1 DEF Push, Heading, Waiting, At
  <2>2. CASE ~(exit_ \/ Full)
    <3>0. items' = Append(items, v) /\ NotifyOne
      BY <1>1, <2>2 DEF Push
    <3>1. Waiting # {}
      BY <3>0 DEF NotifyOne, Waiting, At
    <3>2. PICK w \in Waiting : qpc' = [qpc EXCEPT ![w] = "woken"]
      BY <3>0, <3>1 DEF NotifyOne
    <3>3. Heading' = Heading \cup {w} /\ w \notin Heading
      BY <3>2 DEF Heading, Waiting, At
    <3>4. Cardinality(Heading') = Cardinality(Heading) + 1
      BY <1>a, <3>3, FS_AddElement
    <3>5. Len(items)' = Len(items) + 1
      BY <3>0
    <3> QED
      BY <1>a, <3>1, <3>4, <3>5
  <2> QED
    BY <2>1, <2>2
<1>2. ASSUME NEW t \in Threads, NEW m \in Modes, PopEnter(t, m) PROVE Goal
  BY <1>b, <1>2 DEF PopEnter, Heading, Waiting, At
<1>3. ASSUME NEW t \in Threads, WaitReady(t) PROVE Goal
  <2>1. CASE items = <<>>
    BY <1>c, <1>3, <2>1 DEF WaitReady
  <2>2. CASE items # <<>>
    BY <1>b, <1>3, <2>2 DEF WaitReady, Heading, Waiting, At
  <2> QED
    BY <2>1, <2>2
<1>4. ASSUME NEW t \in Threads, Block(t) PROVE Goal
  BY <1>c, <1>4 DEF Block, BlockSawEmpty, At
<1>5. ASSUME NEW t \in Threads, SpuriousWake(t) PROVE Goal
  BY <1>b, <1>5 DEF SpuriousWake, Heading, Waiting, At
<1>6. ASSUME NEW t \in Threads, TimedOut(t) PROVE Goal
  BY <1>b, <1>6 DEF TimedOut, Heading, Waiting, At
<1>7. ASSUME NEW t \in Threads, Reacquire(t) PROVE Goal
  BY <1>b, <1>7 DEF Reacquire, Heading, Waiting, At
<1>8. ASSUME NEW t \in Threads, Take(t) PROVE Goal
  <2>1. CASE items = <<>>
    BY <1>c, <1>8, <2>1 DEF Take
  <2>2. CASE items # <<>>
    <3>1. Waiting # {}
      BY <1>8 DEF Take, Waiting, At
    <3>2. Heading' = Heading \ {t} /\ t \in Heading
      BY <1>8 DEF Take, Heading, At
    <3>3. Cardinality(Heading') = Cardinality(Heading) - 1
      BY <1>a, <3>2, FS_RemoveElement
    <3>4. Len(items)' = Len(items) - 1
      BY <1>8, <2>2 DEF Take
    <3> QED
      BY <1>a, <3>1, <3>3, <3>4
  <2> QED
    BY <2>1, <2>2
<1>9. ASSUME NEW t \in Threads, ExitStore(t) PROVE Goal
  BY <1>b, <1>9 DEF ExitStore, Heading, Waiting, At
<1>10. ASSUME NEW t \in Threads, ExitNotify(t) PROVE Goal
  BY <1>10 DEF ExitNotify, Waiting, At
<1>11. ASSUME UNCHANGED qvars PROVE Goal
  BY <1>b, <1>11 DEF qvars, Heading, Waiting, At
<1> QED
  BY <1>1, <1>2, <1>3, <1>4, <1>5, <1>6, <1>7, <1>8, <1>9, <1>10, <1>11 DEF QueueNext

\* A thread that saw exit_ unset and has not waited yet holds the mutex, and
\* notify_all needs it: it cannot slip in between the test and the wait.
LEMMA QueueExit == QueueInv /\ [QueueNext]_qvars => ExitReleasesAll'
<1> SUFFICES ASSUME QueueInv, [QueueNext]_qvars, exit_', At({"exiting"})' = {},
                    NEW b \in Threads, qpc'[b] \in {"wait", "block"}
             PROVE  FALSE
  BY DEF ExitReleasesAll, At
<1> USE DEF QueueInv, TypeOK, LockDiscipline, ExitReleasesAll, At
<1>0. \A u \in Threads : qpc'[u] # "exiting"
  OBVIOUS
<1>1. ASSUME NEW t \in Threads, NEW v \in Tasks, Push(t, v) PROVE FALSE
  BY <1>0, <1>1 DEF Push, NotifyOne, Waiting
<1>2. ASSUME NEW t \in Threads, NEW m \in Modes, PopEnter(t, m) PROVE FALSE
  BY <1>0, <1>2 DEF PopEnter
<1>3. ASSUME NEW t \in Threads, WaitReady(t) PROVE FALSE
  BY <1>0, <1>3 DEF WaitReady
<1>4. ASSUME NEW t \in Threads, Block(t) PROVE FALSE
  BY <1>0, <1>4 DEF Block
<1>5. ASSUME NEW t \in Threads, SpuriousWake(t) PROVE FALSE
  BY <1>0, <1>5 DEF SpuriousWake
<1>6. ASSUME NEW t \in Threads, TimedOut(t) PROVE FALSE
  BY <1>0, <1>6 DEF TimedOut
<1>7. ASSUME NEW t \in Threads, Reacquire(t) PROVE FALSE
  BY <1>0, <1>7 DEF Reacquire
<1>8. ASSUME NEW t \in Threads, Take(t) PROVE FALSE
  BY <1>0, <1>8 DEF Take
<1>9. ASSUME NEW t \in Threads, ExitStore(t) PROVE FALSE
  BY <1>0, <1>9 DEF ExitStore
<1>10. ASSUME NEW t \in Threads, ExitNotify(t) PROVE FALSE
  BY <1>0, <1>10, QueueAssumption DEF ExitNotify
<1>11. ASSUME UNCHANGED qvars PROVE FALSE
  BY <1>0, <1>11 DEF qvars
<1> QED
  BY <1>1, <1>2, <1>3, <1>4, <1>5, <1>6, <1>7, <1>8, <1>9, <1>10, <1>11 DEF QueueNext

\* The four parts are kept together.
LEMMA QueueStepInv == QueueInv /\ [QueueNext]_qvars => QueueInv'
<1>1. QueueInv => TypeOK
  BY DEF QueueInv
<1> QED
  BY <1>1, QueueType, QueueBlock, QueueOrder, QueueWakeup, QueueExit DEF QueueInv

\* The inductive invariant holds in every behaviour of the queue.
THEOREM QueueInvariant == QueueSpec => []QueueInv
  BY QueueInitInv, QueueStepInv, PTL DEF QueueSpec

\* The fields keep their types and the mutex is held by one thread at a time,
\* by none while it waits.
THEOREM QueueTypeCorrect == QueueSpec => []TypeOK
<1>1. QueueInv => TypeOK
  BY DEF QueueInv
<1> QED
  BY <1>1, QueueInvariant, PTL

\* push / pop_wait deliver every accepted value exactly once and in order.
THEOREM QueueDelivers == QueueSpec => []ExactlyOnceInOrder
<1>1. QueueInv => ExactlyOnceInOrder
  BY DEF QueueInv
<1> QED
  BY <1>1, QueueInvariant, PTL

\* One notify_one per push never leaves a value behind while a thread sleeps.
THEOREM QueueLosesNoWakeup == QueueSpec => []NoLostWakeup
<1>1. QueueInv => NoLostWakeup
  BY DEF QueueInv
<1> QED
  BY <1>1, QueueInvariant, PTL

\* After exit() nobody sleeps on the condition variable.
THEOREM QueueExitReleases == QueueSpec => []ExitReleasesAll
<1>1. QueueInv => ExitReleasesAll
  BY DEF QueueInv
<1> QED
  BY <1>1, QueueInvariant, PTL

-----------------------------------------------------------------------------
(* The pool uses its queue as SafeQueue specifies it.                       *)

\* Every step of the pool is a step of its queue or leaves the queue alone.
LEMMA PoolStepIsQueueStep == [PoolNext]_vars => [QueueNext]_qvars
<1> SUFFICES ASSUME [PoolNext]_vars PROVE [QueueNext]_qvars
  OBVIOUS
<1> USE PoolAssumption
<1>1. ASSUME NEW w \in Workers, StartThread(w) \/ LoopTest(w) \/ FinishTask(w)
      PROVE  UNCHANGED qvars
  BY <1>1 DEF StartThread, LoopTest, FinishTask
<1>2. ASSUME NEW w \in Workers, PopStep(w) PROVE QueueNext
  BY <1>2 DEF PopStep, QueueNext, Modes
<1>3. ASSUME NEW w \in Workers, PopReturn(w) PROVE QueueNext
  BY <1>3 DEF PopReturn, QueueNext
<1>4. ASSUME NEW t \in Threads, PoolExit(t) PROVE QueueNext
  BY <1>4 DEF PoolExit, QueueNext
<1>5. ASSUME NEW t \in Threads, NEW v \in Tasks, AddTask(t, v) PROVE QueueNext
  BY <1>5 DEF AddTask, QueueNext
<1>6. ASSUME JoinCall \/ JoinReturn \/ Destroy PROVE UNCHANGED qvars
  BY <1>6 DEF JoinCall, JoinReturn, Destroy
<1>7. ASSUME UNCHANGED vars PROVE UNCHANGED qvars
  BY <1>7 DEF vars
<1> QED
  BY <1>1, <1>2, <1>3, <1>4, <1>5, <1>6, <1>7 DEF PoolNext, WorkerStep

\* So every theorem about the queue holds of the pool's queue.
THEOREM PoolUsesQueue == PoolSpec => QueueSpec
<1>1. PoolInit => QueueInit
  BY DEF PoolInit
<1> QED
  BY <1>1, PoolStepIsQueueStep, PTL DEF PoolSpec, QueueSpec

-----------------------------------------------------------------------------
(* The inductive invariant of the pool.                                     *)

\* What appending to a sequence does to the set of its elements.
LEMMA AppendElements ==
  ASSUME NEW s \in Seq(Tasks), NEW v \in Tasks
  PROVE  {Append(s, v)[i] : i \in 1..Len(Append(s, v))} = {s[i] : i \in 1..Len(s)} \cup {v}
<1> DEFINE a == Append(s, v)
<1>1. Len(a) = Len(s) + 1 /\ Len(s) \in Nat
  OBVIOUS
<1>2. a[Len(s) + 1] = v /\ \A i \in 1..Len(s) : a[i] = s[i]
  OBVIOUS
<1>3. ASSUME NEW i \in 1..Len(a) PROVE a[i] \in {s[j] : j \in 1..Len(s)} \cup {v}
  <2>1. CASE i = Len(s) + 1
    BY <1>2, <2>1
  <2>2. CASE i # Len(s) + 1
    <3>1. i \in 1..Len(s)
      BY <1>1, <2>2
    <3> QED
      BY <1>2, <3>1
  <2> QED
    BY <2>1, <2>2
<1>4. ASSUME NEW x \in {s[j] : j \in 1..Len(s)} \cup {v}
      PROVE  x \in {a[i] : i \in 1..Len(a)}
  <2>1. CASE x = v
    <3>1. Len(s) + 1 \in 1..Len(a)
      BY <1>1
    <3> QED
      BY <1>2, <2>1, <3>1
  <2>2. CASE x # v
    <3>1. PICK j \in 1..Len(s) : x = s[j]
      BY <2>2
    <3>2. j \in 1..Len(a) /\ a[j] = x
      BY <1>1, <1>2, <3>1
    <3> QED
      BY <3>2
  <2> QED
    BY <2>1, <2>2
<1> QED
  BY <1>3, <1>4

\* A pool before start().
LEMMA PoolInitInv == PoolInit => PoolInv
<1> SUFFICES ASSUME PoolInit PROVE PoolInv
  OBVIOUS
<1>1. TypeOK
  BY QueueInitInv DEF PoolInit, QueueInv
<1>2. PoolTypeOK
  BY <1>1, PoolAssumption DEF PoolInit, PoolTypeOK, WorkerPCs, OwnerPCs
<1>3. WorkerPlaces /\ LastIsLast /\ JoinedDone
  BY PoolAssumption DEF PoolInit, QueueInit, WorkerPlaces, LastIsLast, JoinedDone
<1>4. TakenAccounted
  BY QueueAssumption DEF PoolInit, QueueInit, TakenAccounted
<1> QED
  BY <1>2, <1>3, <1>4 DEF PoolInv

\* One step of a pool thread keeps types and the places of the workers.
LEMMA PoolPlaces ==
  PoolInv /\ [PoolNext]_vars =>
    PoolTypeOK' /\ WorkerPlaces' /\ LastIsLast' /\ JoinedDone'
<1> SUFFICES ASSUME PoolInv, [PoolNext]_vars
             PROVE  PoolTypeOK' /\ WorkerPlaces' /\ LastIsLast' /\ JoinedDone'
  OBVIOUS
<1> DEFINE Goal == PoolTypeOK' /\ WorkerPlaces' /\ LastIsLast' /\ JoinedDone'
<1> USE PoolAssumption
<1>0. TypeOK'
  BY PoolStepIsQueueStep, QueueType DEF PoolInv, PoolTypeOK
<1>a. \A w \in Workers : w \in Threads
  OBVIOUS
<1>1. ASSUME NEW w \in Workers, StartThread(w) PROVE Goal
  <2> USE DEF PoolInv, PoolTypeOK, WorkerPCs, OwnerPCs
  <2>1. PoolTypeOK'
    BY <1>0, <1>1 DEF StartThread
  <2>2. WorkerPlaces' /\ LastIsLast' /\ JoinedDone'
    BY <1>1 DEF StartThread, WorkerPlaces, LastIsLast, JoinedDone, qvars
  <2> QED
    BY <2>1, <2>2
<1>2. ASSUME NEW w \in Workers, LoopTest(w) PROVE Goal
  <2> USE DEF PoolInv, PoolTypeOK, WorkerPCs, OwnerPCs
  <2>1. PoolTypeOK'
    BY <1>0, <1>2 DEF LoopTest
  <2>2. WorkerPlaces' /\ LastIsLast' /\ JoinedDone'
    BY <1>2 DEF LoopTest, WorkerPlaces, LastIsLast, JoinedDone, qvars
  <2> QED
    BY <2>1, <2>2
<1>3. ASSUME NEW w \in Workers, PopStep(w) PROVE Goal
  <2> USE DEF PoolInv, PoolTypeOK
  <2>1. PoolTypeOK'
    BY <1>0, <1>3 DEF PopStep, pvars
  <2>2. exit_' = exit_
    BY <1>3 DEF PopStep, PopEnter, WaitReady, Block, SpuriousWake, Reacquire
  <2>3. \A u \in Workers : u # w => qpc'[u] = qpc[u]
    BY <1>3 DEF PopStep, PopEnter, WaitReady, Block, SpuriousWake, Reacquire, TypeOK
  <2>4. wpc[w] = "pop" /\ qpc'[w] # "exiting"
    BY <1>3 DEF PopStep, PopEnter, WaitReady, Block, SpuriousWake, Reacquire, TypeOK
  <2>5. WorkerPlaces' /\ LastIsLast' /\ JoinedDone'
    BY <1>3, <2>2, <2>3, <2>4 DEF PopStep, pvars, WorkerPlaces, LastIsLast, JoinedDone
  <2> QED
    BY <2>1, <2>5
<1>4. ASSUME NEW w \in Workers, PopReturn(w) PROVE Goal
  <2> USE DEF PoolInv, PoolTypeOK, WorkerPCs, OwnerPCs
  <2>1. exit_' = exit_ /\ qpc' = [qpc EXCEPT ![w] = "out"] /\ wpc[w] = "pop"
    BY <1>4 DEF PopReturn, Take
  <2>2. CASE items = <<>>
    <3>1. PoolTypeOK'
      BY <1>0, <1>4, <2>2 DEF PopReturn
    <3>2. WorkerPlaces' /\ LastIsLast' /\ JoinedDone'
      BY <1>4, <2>1, <2>2 DEF PopReturn, WorkerPlaces, LastIsLast, JoinedDone, TypeOK
    <3> QED
      BY <3>1, <3>2
  <2>3. CASE items # <<>>
    <3>0. Head(items) \in Tasks /\ Head(items) # None
      BY <2>3, QueueAssumption DEF TypeOK
    <3>1. PoolTypeOK'
      BY <1>0, <1>4, <2>3, <3>0 DEF PopReturn
    <3>2. WorkerPlaces' /\ LastIsLast' /\ JoinedDone'
      BY <1>4, <2>1, <2>3 DEF PopReturn, WorkerPlaces, LastIsLast, JoinedDone, TypeOK
    <3> QED
      BY <3>1, <3>2
  <2> QED
    BY <2>2, <2>3
<1>5. ASSUME NEW w \in Workers, FinishTask(w) PROVE Goal
  <2> USE DEF PoolInv, PoolTypeOK, WorkerPCs, OwnerPCs
  <2>1. PoolTypeOK'
    BY <1>0, <1>5 DEF FinishTask
  <2>2. WorkerPlaces' /\ LastIsLast' /\ JoinedDone'
    BY <1>5 DEF FinishTask, WorkerPlaces, LastIsLast, JoinedDone, qvars
  <2> QED
    BY <2>1, <2>2
<1>6. ASSUME NEW t \in Threads, PoolExit(t) PROVE Goal
  <2> USE DEF PoolInv, PoolTypeOK
  <2>1. PoolTypeOK'
    BY <1>0, <1>6 DEF PoolExit, pvars
  <2>2. WorkerPlaces'
    BY <1>6 DEF PoolExit, pvars, ExitStore, ExitNotify, CanCall, WorkerPlaces, TypeOK
  <2>3. LastIsLast' /\ JoinedDone'
    BY <1>6 DEF PoolExit, pvars, ExitStore, ExitNotify, LastIsLast, JoinedDone
  <2> QED
    BY <2>1, <2>2, <2>3
<1>7. ASSUME NEW t \in Threads, NEW v \in Tasks, AddTask(t, v) PROVE Goal
  <2> USE DEF PoolInv, PoolTypeOK
  <2>1. PoolTypeOK'
    BY <1>0, <1>7 DEF AddTask, pvars
  <2>2. exit_' = exit_ /\ \A u \in Threads : qpc'[u] # qpc[u] =>
          qpc[u] = "wait" /\ qpc'[u] = "woken"
    BY <1>7 DEF AddTask, Push, NotifyOne, Waiting, At, TypeOK
  <2>3. WorkerPlaces' /\ LastIsLast' /\ JoinedDone'
    BY <1>7, <1>a, <2>2 DEF AddTask, pvars, WorkerPlaces, LastIsLast, JoinedDone
  <2> QED
    BY <2>1, <2>3
<1>8. ASSUME JoinCall \/ JoinReturn \/ Destroy PROVE Goal
  <2> USE DEF PoolInv, PoolTypeOK, OwnerPCs
  <2>1. PoolTypeOK'
    BY <1>0, <1>8 DEF JoinCall, JoinReturn, Destroy
  <2>2. WorkerPlaces' /\ LastIsLast' /\ JoinedDone'
    BY <1>8 DEF JoinCall, JoinReturn, Destroy, WorkerPlaces, LastIsLast, JoinedDone, qvars
  <2> QED
    BY <2>1, <2>2
<1>9. ASSUME UNCHANGED vars PROVE Goal
  <2> USE DEF PoolInv, PoolTypeOK
  <2>1. PoolTypeOK'
    BY <1>0, <1>9 DEF vars, pvars
  <2>2. WorkerPlaces' /\ LastIsLast' /\ JoinedDone'
    BY <1>9 DEF vars, qvars, pvars, WorkerPlaces, LastIsLast, JoinedDone
  <2> QED
    BY <2>1, <2>2
<1> QED
  BY <1>1, <1>2, <1>3, <1>4, <1>5, <1>6, <1>7, <1>8, <1>9 DEF PoolNext, WorkerStep

\* What was taken is finished or running.
LEMMA PoolAccounts == PoolInv /\ [PoolNext]_vars => TakenAccounted'
<1> SUFFICES ASSUME PoolInv, [PoolNext]_vars PROVE TakenAccounted'
  OBVIOUS
<1> USE PoolAssumption, QueueAssumption DEF PoolInv, PoolTypeOK, TypeOK
<1>1. ASSUME NEW w \in Workers, PopReturn(w) PROVE TakenAccounted'
  <2>1. CASE items = <<>>
    <3>1. UNCHANGED <<taken, finished, cur>>
      BY <1>1, <2>1 DEF PopReturn, Take
    <3> QED
      BY <3>1 DEF TakenAccounted
  <2>2. CASE items # <<>>
    <3> DEFINE v == Head(items)
    <3>1. v \in Tasks
      BY <2>2
    <3>2. /\ taken' = Append(taken, v) /\ finished' = finished
          /\ cur' = [cur EXCEPT ![w] = v] /\ cur[w] = None
      BY <1>1, <2>2 DEF PopReturn, Take
    <3>3. {taken'[i] : i \in 1..Len(taken')} = {taken[i] : i \in 1..Len(taken)} \cup {v}
      <4>1. taken \in Seq(Tasks)
        OBVIOUS
      <4>2. {Append(taken, v)[i] : i \in 1..Len(Append(taken, v))}
              = {taken[i] : i \in 1..Len(taken)} \cup {v}
        BY <3>1, <4>1, AppendElements, Zenon
      <4> QED
        BY <3>2, <4>2, Zenon
    <3>4. {x \in Tasks : \E u \in Workers : cur'[u] = x}
            = {x \in Tasks : \E u \in Workers : cur[u] = x} \cup {v}
      BY <3>1, <3>2
    <3> QED
      BY <3>2, <3>3, <3>4 DEF TakenAccounted
  <2> QED
    BY <2>1, <2>2
<1>2. ASSUME NEW w \in Workers, FinishTask(w) PROVE TakenAccounted'
  <2>1. /\ taken' = taken /\ finished' = finished \cup {cur[w]}
        /\ cur' = [cur EXCEPT ![w] = None] /\ cur[w] \in Tasks
    BY <1>2 DEF FinishTask, qvars
  <2> DEFINE Running == {x \in Tasks : \E u \in Workers : cur[u] = x}
             RunningN == {x \in Tasks : \E u \in Workers : cur'[u] = x}
  <2>2. RunningN \subseteq Running /\ Running \subseteq RunningN \cup {cur[w]} /\ cur[w] \in Running
    BY <2>1
  <2> HIDE DEF Running, RunningN
  <2>3. finished' \cup RunningN = finished \cup Running
    BY <2>1, <2>2
  <2>4. {taken[i] : i \in 1..Len(taken)} = finished \cup Running
    BY Zenon DEF TakenAccounted, Running
  <2> QED
    <3>1. {taken'[i] : i \in 1..Len(taken')} = {taken[i] : i \in 1..Len(taken)}
      BY <2>1
    <3>2. {taken'[i] : i \in 1..Len(taken')} = finished' \cup RunningN
      BY <2>3, <2>4, <3>1, Zenon
    <3> QED
      BY <3>2, Zenon DEF TakenAccounted, RunningN
<1>3. ASSUME UNCHANGED <<taken, finished, cur>> PROVE TakenAccounted'
  BY <1>3 DEF TakenAccounted
<1>4. ASSUME NEW w \in Workers, StartThread(w) \/ LoopTest(w) \/ PopStep(w)
      PROVE  UNCHANGED <<taken, finished, cur>>
  BY <1>4 DEF StartThread, LoopTest, PopStep, PopEnter, WaitReady, Block, SpuriousWake,
     Reacquire, qvars, pvars
<1>5. ASSUME NEW t \in Threads, PoolExit(t) PROVE UNCHANGED <<taken, finished, cur>>
  BY <1>5 DEF PoolExit, ExitStore, ExitNotify, pvars
<1>6. ASSUME NEW t \in Threads, NEW v \in Tasks, AddTask(t, v)
      PROVE  UNCHANGED <<taken, finished, cur>>
  BY <1>6 DEF AddTask, Push, pvars
<1>7. ASSUME JoinCall \/ JoinReturn \/ Destroy \/ UNCHANGED vars
      PROVE  UNCHANGED <<taken, finished, cur>>
  BY <1>7 DEF JoinCall, JoinReturn, Destroy, vars, qvars, pvars
<1> QED
  BY <1>1, <1>2, <1>3, <1>4, <1>5, <1>6, <1>7 DEF PoolNext, WorkerStep

\* The inductive invariant holds in every behaviour of the pool.
THEOREM PoolInvariant == PoolSpec => []PoolInv
<1>1. PoolInv /\ [PoolNext]_vars => PoolInv'
  BY PoolPlaces, PoolAccounts DEF PoolInv
<1> QED
  BY <1>1, PoolInitInv, PTL DEF PoolSpec

\* Types of the pool and of its queue, the mutex discipline included.
THEOREM PoolTypeCorrect == PoolSpec => []PoolTypeOK
<1>1. PoolInv => PoolTypeOK
  BY DEF PoolInv
<1> QED
  BY <1>1, PoolInvariant, PTL

\* ~ThreadPool's assertion holds after join, and no task is left half done.
THEOREM PoolDestroyedClean == PoolSpec => []DestroyedClean
<1>1. PoolInv => DestroyedClean
  <2> SUFFICES ASSUME PoolInv, opc \in {"joined", "destroyed"}
               PROVE  /\ exit_
                      /\ \A w \in Workers : cur[w] = None /\ qpc[w] = "out"
                      /\ {taken[i] : i \in 1..Len(taken)} = finished
    BY DEF DestroyedClean
  <2> USE PoolAssumption, QueueAssumption DEF PoolInv, PoolTypeOK
  <2>1. \A w \in Workers : wpc[w] = "done"
    BY DEF JoinedDone
  <2>2. exit_
    BY <2>1 DEF WorkerPlaces
  <2>3. \A w \in Workers : cur[w] = None
    BY <2>1
  <2>4. \A w \in Workers : qpc[w] = "out"
    BY <2>1 DEF WorkerPlaces, TypeOK, PCs
  <2>5. {v \in Tasks : \E w \in Workers : cur[w] = v} = {}
    BY <2>3
  <2> QED
    BY <2>2, <2>3, <2>4, <2>5 DEF TakenAccounted
<1> QED
  BY <1>1, PoolInvariant, PTL

-----------------------------------------------------------------------------
(* Refinement.                                                              *)

\* A step of the pool is a step of the abstract service or invisible to it.
LEMMA PoolRefinesStep ==
  PoolInv /\ [PoolNext]_vars => [Service!Next]_(Service!svars)
<1> SUFFICES ASSUME PoolInv, [PoolNext]_vars
             PROVE  Service!Next \/ UNCHANGED Service!svars
  OBVIOUS
<1> USE PoolAssumption, QueueAssumption DEF PoolInv, PoolTypeOK, TypeOK, Service!svars
<1>1. ASSUME NEW w \in Workers, PopReturn(w) PROVE Service!Next \/ UNCHANGED Service!svars
  <2>1. CASE items = <<>>
    BY <1>1, <2>1 DEF PopReturn, Take
  <2>2. CASE items # <<>>
    <3>1. cur[w] = None /\ w \notin last
      BY <1>1 DEF PopReturn, LastIsLast
    <3>2. Service!Begin(w)
      BY <1>1, <2>2, <3>1 DEF PopReturn, Take, Service!Begin
    <3> QED
      BY <3>2 DEF Service!Next
  <2> QED
    BY <2>1, <2>2
<1>2. ASSUME NEW w \in Workers, FinishTask(w) PROVE Service!Next
  <2>1. Service!Finish(w)
    BY <1>2 DEF FinishTask, qvars, Service!Finish
  <2> QED
    BY <2>1 DEF Service!Next
<1>3. ASSUME NEW t \in Threads, NEW v \in Tasks, AddTask(t, v)
      PROVE  Service!Next \/ UNCHANGED Service!svars
  <2>1. CASE exit_ \/ Full
    BY <1>3, <2>1 DEF AddTask, Push, pvars
  <2>2. CASE ~(exit_ \/ Full)
    <3>1. Service!Submit(v)
      BY <1>3, <2>2 DEF AddTask, Push, pvars, Service!Submit
    <3> QED
      BY <3>1 DEF Service!Next
  <2> QED
    BY <2>1, <2>2
<1>4. ASSUME NEW t \in Threads, PoolExit(t) PROVE Service!Next \/ UNCHANGED Service!svars
  <2>1. CASE ExitStore(t)
    <3>1. Service!Close
      BY <1>4, <2>1 DEF PoolExit, ExitStore, pvars, Service!Close
    <3> QED
      BY <3>1 DEF Service!Next
  <2>2. CASE ExitNotify(t)
    BY <1>4, <2>2 DEF PoolExit, ExitNotify, pvars
  <2> QED
    BY <1>4, <2>1, <2>2 DEF PoolExit
<1>5. ASSUME NEW w \in Workers, StartThread(w) \/ LoopTest(w) \/ PopStep(w)
      PROVE  UNCHANGED Service!svars
  BY <1>5 DEF StartThread, LoopTest, PopStep, PopEnter, WaitReady, Block, SpuriousWake,
     Reacquire, qvars, pvars
<1>6. ASSUME JoinCall \/ JoinReturn \/ Destroy \/ UNCHANGED vars
      PROVE  UNCHANGED Service!svars
  BY <1>6 DEF JoinCall, JoinReturn, Destroy, vars, qvars, pvars
<1> QED
  BY <1>1, <1>2, <1>3, <1>4, <1>5, <1>6 DEF PoolNext, WorkerStep

\* The thread pool implements the abstract task service: tasks begin in the
\* order addTask accepted them, each on one worker, and each worker begins at
\* most one task after exit().
THEOREM PoolImplementsService == PoolSpec => ImplementsService
<1>1. PoolInit => Service!Init
  BY DEF PoolInit, QueueInit, Service!Init
<1> QED
  BY <1>1, PoolRefinesStep, PoolInvariant, PTL DEF PoolSpec, ImplementsService, Service!Spec

=============================================================================
