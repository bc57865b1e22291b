--------------------------- MODULE EventLoopProofs ---------------------------
(***************************************************************************)
(* EventLoop for any number of threads, channels and tasks, any pipe and    *)
(* queue size: no wake-up is lost between safeCall and the loop, and a      *)
(* closed channel is called only by the second handler of an entry whose    *)
(* first handler has closed it.                                             *)
(***************************************************************************)
EXTENDS EventLoop, TLAPS

\* The loop as its constructor leaves it.
LEMMA LoopInitInv == Init => LoopInv
<1> SUFFICES ASSUME Init PROVE LoopInv
  OBVIOUS
<1>1. TypeOK
  <2>1. <<>> \in Seq(Tasks)
    OBVIOUS
  <2>2. cpc \in [Thread -> CallPCs] /\ cpc[Loop] = "out"
    BY DEF Init, CallPCs, Thread
  <2> QED
    <3>1. pipe \in 0..PipeCap /\ timers \in 0..MaxTimers
      BY LoopAssumption DEF Init
    <3> QED
      BY <2>1, <2>2, <3>1 DEF Init, TypeOK, LoopPCs
<1>2. ChannelsConsistent /\ ActiveAreLive /\ NoLostWakeup
  BY DEF Init, ChannelsConsistent, ActiveAreLive, NoLostWakeup
<1> QED
  BY <1>1, <1>2 DEF LoopInv

\* Every action keeps the types and the places of the loop thread.
LEMMA LoopType == TypeOK /\ [Next]_vars => TypeOK'
<1> SUFFICES ASSUME TypeOK, [Next]_vars PROVE TypeOK'
  OBVIOUS
<1> USE LoopAssumption DEF TypeOK, LoopPCs, CallPCs, Thread, entry
<1>1. ASSUME NEW t \in Thread, NEW v \in Tasks, Push(t, v) PROVE TypeOK'
  <2>1. cpc' \in [Thread -> CallPCs] /\ (cpc'[Loop] # "out" => lpc' \in {"user", "dead"})
    BY <1>1 DEF Push, CanCall
  <2>2. tasks' \in Seq(Tasks) /\ dropped' \subseteq Tasks
    <3>1. CASE TasksFull
      BY <1>1, <3>1 DEF Push
    <3>2. CASE ~TasksFull
      <4>1. tasks' = Append(tasks, v) /\ dropped' = dropped
        BY <1>1, <3>2 DEF Push
      <4> QED
        BY <4>1
    <3> QED
      BY <3>1, <3>2
  <2> QED
    BY <1>1, <2>1, <2>2 DEF Push
<1>2. ASSUME NEW t \in Thread, WakeupCall(t) PROVE TypeOK'
  BY <1>2 DEF WakeupCall, CanCall
<1>3. ASSUME NEW t \in Thread, ExitStore(t) PROVE TypeOK'
  BY <1>3 DEF ExitStore, CanCall
<1>4. ASSUME NEW t \in Thread, Write(t) PROVE TypeOK'
  BY <1>4 DEF Write
<1>5. ASSUME NEW t \in Thread, WriteBroken(t) PROVE TypeOK'
  BY <1>5 DEF WriteBroken
<1>6. ASSUME NEW t \in Thread, ExitFlag(t) PROVE TypeOK'
  BY <1>6 DEF ExitFlag
<1>7. ASSUME LoopTest PROVE TypeOK'
  BY <1>7 DEF LoopTest
<1>8. ASSUME Poll PROVE TypeOK'
  BY <1>8 DEF Poll
<1>9. ASSUME DispatchEnd PROVE TypeOK'
  BY <1>9 DEF DispatchEnd
<1>10. ASSUME HandleWake PROVE TypeOK'
  BY <1>10 DEF HandleWake
<1>11. ASSUME Drain PROVE TypeOK'
  <2>1. CASE tasks = <<>>
    BY <1>11, <2>1 DEF Drain
  <2>2. CASE tasks # <<>>
    <3>1. tasks' = Tail(tasks) /\ ran' = Append(ran, Head(tasks))
      BY <1>11, <2>2 DEF Drain
    <3>2. Head(tasks) \in Tasks /\ Tail(tasks) \in Seq(Tasks)
      BY <2>2
    <3>3. tasks' \in Seq(Tasks) /\ ran' \in Seq(Tasks)
      BY <3>1, <3>2
    <3> QED
      BY <1>11, <2>2, <3>3 DEF Drain
  <2> QED
    BY <2>1, <2>2
<1>12. ASSUME NEW c \in Chans, HandleChannel(c) PROVE TypeOK'
  BY <1>12 DEF HandleChannel
<1>12r. ASSUME HandleRead PROVE TypeOK'
  BY <1>12r DEF HandleRead
<1>13. ASSUME TimerFires PROVE TypeOK'
  BY <1>13 DEF TimerFires
<1>14. ASSUME TimeoutsEnd PROVE TypeOK'
  BY <1>14 DEF TimeoutsEnd
<1>15. ASSUME NEW c \in Chans, CloseChannel(c) PROVE TypeOK'
  BY <1>15 DEF CloseChannel
<1>16. ASSUME NEW c \in Chans, OpenChannel(c) PROVE TypeOK'
  BY <1>16 DEF OpenChannel
<1>17. ASSUME NEW c \in Chans, Arrive(c) PROVE TypeOK'
  BY <1>17 DEF Arrive
<1>18. ASSUME UserReturn PROVE TypeOK'
  BY <1>18 DEF UserReturn
<1>19. ASSUME BeginDestroy PROVE TypeOK'
  BY <1>19 DEF BeginDestroy
<1>20. ASSUME NEW c \in Chans \cup {Wake}, CloseFirst(c) PROVE TypeOK'
  BY <1>20 DEF CloseFirst
<1>21. ASSUME DestroyEnd PROVE TypeOK'
  BY <1>21 DEF DestroyEnd
<1>22. ASSUME UNCHANGED vars PROVE TypeOK'
  BY <1>22 DEF vars
<1> QED
  BY <1>1, <1>2, <1>3, <1>4, <1>5, <1>6, <1>7, <1>8, <1>9, <1>10, <1>11, <1>12, <1>12r,
     <1>13, <1>14, <1>15, <1>16, <1>17, <1>18, <1>19, <1>20, <1>21, <1>22
     DEF Next, Call, LoopStep

\* The wakeup channel outlives the loop, and what is ready or active is
\* registered: closing a channel takes it out of all three sets.  A channel that
\* is owed its second handler was registered when its entry was taken up.
LEMMA LoopChannels ==
  LoopInv /\ [Next]_vars => ChannelsConsistent' /\ ActiveAreLive'
<1> SUFFICES ASSUME LoopInv, [Next]_vars PROVE ChannelsConsistent' /\ ActiveAreLive'
  OBVIOUS
<1> USE LoopAssumption DEF LoopInv, TypeOK, ChannelsConsistent, ActiveAreLive,
             Destroying, Dispatching, BetweenHandlers, Thread, entry
<1>1. ASSUME NEW t \in Thread, NEW v \in Tasks, Push(t, v)
      PROVE  ChannelsConsistent' /\ ActiveAreLive'
  BY <1>1 DEF Push
<1>2. ASSUME NEW t \in Thread, WakeupCall(t) PROVE ChannelsConsistent' /\ ActiveAreLive'
  BY <1>2 DEF WakeupCall
<1>3. ASSUME NEW t \in Thread, ExitStore(t) PROVE ChannelsConsistent' /\ ActiveAreLive'
  BY <1>3 DEF ExitStore
<1>4. ASSUME NEW t \in Thread, Write(t) PROVE ChannelsConsistent' /\ ActiveAreLive'
  BY <1>4 DEF Write
<1>5. ASSUME NEW t \in Thread, WriteBroken(t) PROVE ChannelsConsistent' /\ ActiveAreLive'
  BY <1>5 DEF WriteBroken
<1>6. ASSUME NEW t \in Thread, ExitFlag(t) PROVE ChannelsConsistent' /\ ActiveAreLive'
  BY <1>6 DEF ExitFlag
<1>7. ASSUME LoopTest PROVE ChannelsConsistent' /\ ActiveAreLive'
  BY <1>7 DEF LoopTest
<1>8. ASSUME Poll PROVE ChannelsConsistent' /\ ActiveAreLive'
  BY <1>8 DEF Poll
<1>9. ASSUME DispatchEnd PROVE ChannelsConsistent' /\ ActiveAreLive'
  BY <1>9 DEF DispatchEnd
<1>10. ASSUME HandleWake PROVE ChannelsConsistent' /\ ActiveAreLive'
  BY <1>10 DEF HandleWake
<1>11. ASSUME Drain PROVE ChannelsConsistent' /\ ActiveAreLive'
  BY <1>11 DEF Drain
<1>12. ASSUME NEW c \in Chans, HandleChannel(c) PROVE ChannelsConsistent' /\ ActiveAreLive'
  BY <1>12 DEF HandleChannel
<1>12r. ASSUME HandleRead PROVE ChannelsConsistent' /\ ActiveAreLive'
  BY <1>12r DEF HandleRead
<1>13. ASSUME TimerFires PROVE ChannelsConsistent' /\ ActiveAreLive'
  BY <1>13 DEF TimerFires
<1>14. ASSUME TimeoutsEnd PROVE ChannelsConsistent' /\ ActiveAreLive'
  BY <1>14 DEF TimeoutsEnd
<1>15. ASSUME NEW c \in Chans, CloseChannel(c) PROVE ChannelsConsistent' /\ ActiveAreLive'
  BY <1>15 DEF CloseChannel
<1>16. ASSUME NEW c \in Chans, OpenChannel(c) PROVE ChannelsConsistent' /\ ActiveAreLive'
  BY <1>16 DEF OpenChannel
<1>17. ASSUME NEW c \in Chans, Arrive(c) PROVE ChannelsConsistent' /\ ActiveAreLive'
  BY <1>17 DEF Arrive
<1>18. ASSUME UserReturn PROVE ChannelsConsistent' /\ ActiveAreLive'
  BY <1>18 DEF UserReturn
<1>19. ASSUME BeginDestroy PROVE ChannelsConsistent' /\ ActiveAreLive'
  BY <1>19 DEF BeginDestroy
<1>20. ASSUME NEW c \in Chans \cup {Wake}, CloseFirst(c) PROVE ChannelsConsistent' /\ ActiveAreLive'
  BY <1>20 DEF CloseFirst
<1>21. ASSUME DestroyEnd PROVE ChannelsConsistent' /\ ActiveAreLive'
  BY <1>21 DEF DestroyEnd
<1>22. ASSUME UNCHANGED vars PROVE ChannelsConsistent' /\ ActiveAreLive'
  BY <1>22 DEF vars
<1> QED
  BY <1>1, <1>2, <1>3, <1>4, <1>5, <1>6, <1>7, <1>8, <1>9, <1>10, <1>11, <1>12, <1>12r,
     <1>13, <1>14, <1>15, <1>16, <1>17, <1>18, <1>19, <1>20, <1>21, <1>22
     DEF Next, Call, LoopStep

\* A task is queued only by a thread that goes on to write a byte, a byte is
\* read only by the loop before it drains the queue, and the drain ends only
\* on an empty queue.
LEMMA LoopWakeup == LoopInv /\ [Next]_vars => NoLostWakeup'
<1> SUFFICES ASSUME LoopInv, [Next]_vars PROVE NoLostWakeup'
  OBVIOUS
<1> USE LoopAssumption DEF LoopInv, TypeOK, NoLostWakeup, Draining, Thread, entry
<1>1. ASSUME NEW t \in Thread, NEW v \in Tasks, Push(t, v) PROVE NoLostWakeup'
  BY <1>1 DEF Push
<1>2. ASSUME NEW t \in Thread, WakeupCall(t) PROVE NoLostWakeup'
  BY <1>2 DEF WakeupCall
<1>3. ASSUME NEW t \in Thread, ExitStore(t) PROVE NoLostWakeup'
  BY <1>3 DEF ExitStore, CanCall
<1>4. ASSUME NEW t \in Thread, Write(t) PROVE NoLostWakeup'
  BY <1>4 DEF Write
<1>5. ASSUME NEW t \in Thread, WriteBroken(t) PROVE NoLostWakeup'
  BY <1>5 DEF WriteBroken
<1>6. ASSUME NEW t \in Thread, ExitFlag(t) PROVE NoLostWakeup'
  BY <1>6 DEF ExitFlag
<1>7. ASSUME LoopTest PROVE NoLostWakeup'
  BY <1>7 DEF LoopTest
<1>8. ASSUME Poll PROVE NoLostWakeup'
  BY <1>8 DEF Poll
<1>9. ASSUME DispatchEnd PROVE NoLostWakeup'
  BY <1>9 DEF DispatchEnd
<1>10. ASSUME HandleWake PROVE NoLostWakeup'
  BY <1>10 DEF HandleWake
<1>11. ASSUME Drain PROVE NoLostWakeup'
  BY <1>11 DEF Drain
<1>12. ASSUME NEW c \in Chans, HandleChannel(c) PROVE NoLostWakeup'
  BY <1>12 DEF HandleChannel
<1>12r. ASSUME HandleRead PROVE NoLostWakeup'
  BY <1>12r DEF HandleRead
<1>13. ASSUME TimerFires PROVE NoLostWakeup'
  BY <1>13 DEF TimerFires
<1>14. ASSUME TimeoutsEnd PROVE NoLostWakeup'
  BY <1>14 DEF TimeoutsEnd
<1>15. ASSUME NEW c \in Chans, CloseChannel(c) PROVE NoLostWakeup'
  BY <1>15 DEF CloseChannel
<1>16. ASSUME NEW c \in Chans, OpenChannel(c) PROVE NoLostWakeup'
  BY <1>16 DEF OpenChannel
<1>17. ASSUME NEW c \in Chans, Arrive(c) PROVE NoLostWakeup'
  BY <1>17 DEF Arrive
<1>18. ASSUME UserReturn PROVE NoLostWakeup'
  BY <1>18 DEF UserReturn
<1>19. ASSUME BeginDestroy PROVE NoLostWakeup'
  BY <1>19 DEF BeginDestroy
<1>20. ASSUME NEW c \in Chans \cup {Wake}, CloseFirst(c) PROVE NoLostWakeup'
  BY <1>20 DEF CloseFirst
<1>21. ASSUME DestroyEnd PROVE NoLostWakeup'
  BY <1>21 DEF DestroyEnd
<1>22. ASSUME UNCHANGED vars PROVE NoLostWakeup'
  BY <1>22 DEF vars
<1> QED
  BY <1>1, <1>2, <1>3, <1>4, <1>5, <1>6, <1>7, <1>8, <1>9, <1>10, <1>11, <1>12, <1>12r,
     <1>13, <1>14, <1>15, <1>16, <1>17, <1>18, <1>19, <1>20, <1>21, <1>22
     DEF Next, Call, LoopStep

\* The inductive invariant holds in every behaviour of the event loop.
THEOREM LoopInvariant == Spec => []LoopInv
<1>1. LoopInv /\ [Next]_vars => LoopInv'
  <2>1. LoopInv => TypeOK
    BY DEF LoopInv
  <2> QED
    BY <2>1, LoopType, LoopChannels, LoopWakeup DEF LoopInv
<1> QED
  BY <1>1, LoopInitInv, PTL DEF Spec

\* The fields of EventsImp and its poller keep their types; the loop thread
\* calls the base only from user code.
THEOREM LoopTypeCorrect == Spec => []TypeOK
<1>1. LoopInv => TypeOK
  BY DEF LoopInv
<1> QED
  BY <1>1, LoopInvariant, PTL

\* While a task is queued and the loop does not run tasks, the wakeup pipe
\* holds a byte or the thread that pushed is about to write one.
THEOREM LoopLosesNoWakeup == Spec => []NoLostWakeup
<1>1. LoopInv => NoLostWakeup
  BY DEF LoopInv
<1> QED
  BY <1>1, LoopInvariant, PTL

\* Of any number of channels, with any code in their handlers: an entry whose
\* turn comes is of an open channel, and the second handler of an entry meets a
\* closed one only if the first has closed it.
THEOREM LoopDispatchesLive == Spec => []ActiveAreLive
<1>1. LoopInv => ActiveAreLive
  BY DEF LoopInv
<1> QED
  BY <1>1, LoopInvariant, PTL

=============================================================================
