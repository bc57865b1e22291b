----------------------------- MODULE EventLoop -----------------------------
(***************************************************************************)
(* handy/event_base.cc and handy/poller.cc: one EventBase, the thread that  *)
(* runs its loop() and the threads that call safeCall, wakeup and exit.     *)
(*                                                                          *)
(* A task goes into tasks_ and a byte into the wakeup pipe, in two steps;   *)
(* the loop reads the pipe through an ordinary channel of its epoll set and *)
(* then runs tasks until the queue is empty.  exit() stores exit_, writes a *)
(* byte and tells the poller, in three steps.  Tasks, channel handlers and  *)
(* timer callbacks are user code, run on the loop thread: they may call the *)
(* same functions, open channels and close them.                            *)
(*                                                                          *)
(* tasks_ is a SafeQueue, used with pop_wait(&task, 0) only: its operations *)
(* are single steps here (module SafeQueue has their inside).  A channel's  *)
(* payload is left out: it is ready or not.  A closed channel stays an      *)
(* object, as the library leaves it (conn.cc:139, event_base.cc:442,        *)
(* udp.cc:115): user code that deletes one in its own handler is outside.   *)
(* Timers are a number of armed one-shot callbacks (module Timers has their *)
(* order and identities).                                                   *)
(***************************************************************************)
EXTENDS Integers, Sequences, FiniteSets

CONSTANTS
  Callers,    \* threads other than the loop's that hold the EventBase
  Loop,       \* the thread that runs loop()
  Chans,      \* the channels user code registers
  Wake,       \* the channel on wakeupFds_[0]
  Tasks,      \* the tasks passed to safeCall, each at most once
  TaskCap,    \* taskCapacity; 0 means unlimited
  PipeCap,    \* bytes the pipe holds before a write blocks
  ReadMax,    \* sizeof buf: bytes one read of the pipe takes
  MaxTimers   \* bound: timers armed when the loop starts

ASSUME LoopAssumption ==
  /\ Loop \notin Callers
  /\ Wake \notin Chans
  /\ TaskCap \in Nat /\ MaxTimers \in Nat
  /\ PipeCap \in Nat \ {0} /\ ReadMax \in Nat \ {0}

VARIABLES
  tasks,      \* tasks_
  pipe,       \* bytes in the wakeup pipe
  exit_,      \* EventsImp::exit_
  exited_,    \* PollerBase::exited_
  live,       \* liveChannels_
  active,     \* the entries of activeEvs_ not dispatched yet and not nulled
  owed,       \* the channel whose handleRead the entry in hand still calls
  closed,     \* history: what that entry's handleWrite has closed so far
  ready,      \* user channels with an event pending in the kernel
  timers,     \* timers_: armed callbacks
  lpc,        \* where the loop thread is
  ret,        \* where the user code on the loop thread returns to
  final,      \* the loop thread is past while (!exit_), in loop_once(0)
  cpc,        \* where each thread is inside safeCall, wakeup or exit
  dropped,    \* history: tasks push returned false for
  ran         \* history: tasks begun, in order

entry == <<owed, closed>>
vars == <<tasks, pipe, exit_, exited_, live, active, entry, ready, timers,
          lpc, ret, final, cpc, dropped, ran>>

Thread == Callers \cup {Loop}

\* test      while (!exit_)
\* poll      in epoll_wait
\* dispatch  at the head of the loop over activeEvs_
\* read      between the two handlers that one entry calls
\* drain     in the wakeup handler, about to pop_wait(&task, 0)
\* user      in a task, a handler or a timer callback
\* timeouts  in handleTimeouts
\* returned  loop() has returned
\* closing   in ~PollerEpoll
\* gone      the EventBase is destroyed
\* dead      fatalif has ended the process
LoopPCs == {"test", "poll", "dispatch", "read", "drain", "user", "timeouts",
            "returned", "closing", "gone", "dead"}
\* write, exitWrite   about to write the wakeup byte (of safeCall / of exit)
\* exitFlag           about to set exited_
CallPCs == {"out", "write", "exitWrite", "exitFlag"}

Elems(s) == {s[i] : i \in 1..Len(s)}

\* Types, with what each place of the loop thread implies: user code has a
\* place to return to, and only inside it does the loop thread call the base.
TypeOK ==
  /\ tasks \in Seq(Tasks)
  /\ pipe \in 0..PipeCap
  /\ exit_ \in BOOLEAN /\ exited_ \in BOOLEAN /\ final \in BOOLEAN
  /\ live \subseteq Chans \cup {Wake}
  /\ active \subseteq Chans \cup {Wake}
  /\ owed \subseteq Chans /\ closed \subseteq Chans
  /\ ready \subseteq Chans
  /\ timers \in 0..MaxTimers
  /\ lpc \in LoopPCs
  /\ ret \in {"dispatch", "read", "drain", "timeouts", "closing"}
  /\ cpc \in [Thread -> CallPCs]
  /\ dropped \subseteq Tasks
  /\ ran \in Seq(Tasks)
  /\ cpc[Loop] # "out" => lpc \in {"user", "dead"}

Init ==
  /\ tasks = <<>>
  /\ pipe = 0
  /\ exit_ = FALSE
  /\ exited_ = FALSE
  /\ live = Chans \cup {Wake}
  /\ active = {}
  /\ owed = {} /\ closed = {}
  /\ ready = {}
  /\ timers = MaxTimers
  /\ lpc = "test"
  /\ ret = "dispatch"
  /\ final = FALSE
  /\ cpc = [t \in Thread |-> "out"]
  /\ dropped = {}
  /\ ran = <<>>

-----------------------------------------------------------------------------
(* Calls from any thread.                                                   *)

\* Another thread may use the base until its owner starts to destroy it.
CanCall(t) ==
  /\ cpc[t] = "out"
  /\ IF t = Loop THEN lpc = "user"
     ELSE lpc \notin {"closing", "gone", "dead"} /\ ~(lpc = "user" /\ ret = "closing")

SafeCalled(v) == v \in dropped \cup Elems(ran) \cup Elems(tasks)

TasksFull == TaskCap # 0 /\ Len(tasks) >= TaskCap

\* safeCall: tasks_.push(task); its result is ignored and wakeup() follows.
PushQuietly(t, v) ==
  /\ CanCall(t)
  /\ ~SafeCalled(v)
  /\ IF TasksFull
       THEN dropped' = dropped \cup {v} /\ UNCHANGED tasks
       ELSE tasks' = Append(tasks, v) /\ UNCHANGED dropped
  /\ cpc' = [cpc EXCEPT ![t] = IF t = Loop THEN "out" ELSE "write"]
  /\ UNCHANGED <<pipe, exit_, exited_, live, active, entry, ready, timers, lpc, ret,
                 final, ran>>
Push(t, v) ==
  /\ CanCall(t)
  /\ ~SafeCalled(v)
  /\ IF TasksFull
       THEN dropped' = dropped \cup {v} /\ UNCHANGED tasks
       ELSE tasks' = Append(tasks, v) /\ UNCHANGED dropped
  /\ cpc' = [cpc EXCEPT ![t] = "write"]
  /\ UNCHANGED <<pipe, exit_, exited_, live, active, entry, ready, timers, lpc, ret,
                 final, ran>>

\* EventBase::wakeup called by itself
WakeupCall(t) ==
  /\ CanCall(t)
  /\ cpc' = [cpc EXCEPT ![t] = "write"]
  /\ UNCHANGED <<tasks, pipe, exit_, exited_, live, active, entry, ready, timers, lpc,
                 ret, final, dropped, ran>>

ExitStore(t) ==
  /\ CanCall(t)
  /\ exit_' = TRUE
  /\ cpc' = [cpc EXCEPT ![t] = "exitWrite"]
  /\ UNCHANGED <<tasks, pipe, exited_, live, active, entry, ready, timers, lpc, ret,
                 final, dropped, ran>>

\* write(wakeupFds_[1], "", 1): the write end is a blocking descriptor.
Write(t) ==
  /\ cpc[t] \in {"write", "exitWrite"}
  /\ Wake \in live
  /\ pipe < PipeCap
  /\ pipe' = pipe + 1
  /\ cpc' = [cpc EXCEPT ![t] = IF @ = "write" THEN "out" ELSE "exitFlag"]
  /\ UNCHANGED <<tasks, exit_, exited_, live, active, entry, ready, timers, lpc, ret,
                 final, dropped, ran>>

\* The same write with the read end closed: SIGPIPE or, where the program
\* handles that signal, EPIPE and fatalif.  Either ends the process.
WriteBroken(t) ==
  /\ cpc[t] \in {"write", "exitWrite"}
  /\ Wake \notin live
  /\ lpc' = "dead"
  /\ UNCHANGED <<tasks, pipe, exit_, exited_, live, active, entry, ready, timers, ret,
                 final, cpc, dropped, ran>>

\* poller_->exited()
ExitFlag(t) ==
  /\ cpc[t] = "exitFlag"
  /\ exited_' = TRUE
  /\ cpc' = [cpc EXCEPT ![t] = "out"]
  /\ UNCHANGED <<tasks, pipe, exit_, live, active, entry, ready, timers, lpc, ret,
                 final, dropped, ran>>

-----------------------------------------------------------------------------
(* The loop thread.                                                         *)

\* while (!exit_) loop_once(10000); clear the timers; loop_once(0)
LoopTest ==
  /\ lpc = "test"
  /\ lpc' = "poll"
  /\ final' = exit_
  /\ timers' = IF exit_ THEN 0 ELSE timers
  /\ UNCHANGED <<tasks, pipe, exit_, exited_, live, active, entry, ready, ret, cpc,
                 dropped, ran>>

\* epoll_wait: level-triggered; returns with nothing after its timeout (or
\* EINTR).  At most kMaxEvents entries is never reached with so few channels.
Poll ==
  /\ lpc = "poll"
  /\ lpc' = "dispatch"
  /\ active' = ready \cup (IF pipe > 0 THEN {Wake} ELSE {})
  /\ UNCHANGED <<tasks, pipe, exit_, exited_, live, entry, ready, timers, ret, final,
                 cpc, dropped, ran>>

\* while ((--lastActive_ >= 0) && (!exited_)) ends
DispatchEnd ==
  /\ lpc = "dispatch"
  /\ active = {} \/ exited_
  /\ lpc' = "timeouts"
  /\ active' = {}
  /\ UNCHANGED <<tasks, pipe, exit_, exited_, live, entry, ready, timers, ret, final,
                 cpc, dropped, ran>>

\* The wakeup channel's handler: read at most sizeof buf bytes, then drain.
HandleWake ==
  /\ lpc = "dispatch"
  /\ ~exited_
  /\ Wake \in active
  /\ active' = active \ {Wake}
  /\ pipe' = IF pipe < ReadMax THEN 0 ELSE pipe - ReadMax
  /\ lpc' = "drain"
  /\ UNCHANGED <<tasks, exit_, exited_, live, entry, ready, timers, ret, final, cpc,
                 dropped, ran>>

\* while (tasks_.pop_wait(&task, 0)) task();
DrainBlocking ==
  /\ lpc = "drain"
  /\ tasks # <<>>
  /\ lpc' = "user"
  /\ ret' = "drain"
  /\ tasks' = Tail(tasks)
  /\ ran' = Append(ran, Head(tasks))
  /\ UNCHANGED <<pipe, exit_, exited_, live, active, entry, ready, timers, final, cpc,
                 dropped>>
Drain ==
  /\ lpc = "drain"
  /\ IF tasks = <<>>
       THEN /\ lpc' = "dispatch"
            /\ UNCHANGED <<tasks, ran, ret>>
       ELSE /\ lpc' = "user"
            /\ ret' = "drain"
            /\ tasks' = Tail(tasks)
            /\ ran' = Append(ran, Head(tasks))
  /\ UNCHANGED <<pipe, exit_, exited_, live, active, entry, ready, timers, final, cpc,
                 dropped>>

\* An entry of a user channel: its write handler, or its read handler, or the
\* first of the two.  They consume what made the channel ready.
HandleChannel(c) ==
  /\ lpc = "dispatch"
  /\ ~exited_
  /\ c \in active
  /\ active' = active \ {c}
  /\ ready' = ready \ {c}
  /\ lpc' = "user"
  /\ \/ ret' = "dispatch" /\ UNCHANGED owed
     \/ ret' = "read" /\ owed' = {c}
  /\ UNCHANGED <<tasks, pipe, exit_, exited_, live, closed, timers, final, cpc,
                 dropped, ran>>

\* ch->handleRead() after ch->handleWrite(): ch is a local variable, so neither
\* the nulling of the entry nor exited_ is seen.
HandleRead ==
  /\ lpc = "read"
  /\ owed' = {} /\ closed' = {}
  /\ lpc' = "user"
  /\ ret' = "dispatch"
  /\ UNCHANGED <<tasks, pipe, exit_, exited_, live, active, ready, timers, final, cpc,
                 dropped, ran>>

\* handleTimeouts: the due callbacks one after the other ...
TimerFiresUnchecked ==
  /\ lpc = "timeouts"
  /\ timers' = timers - 1
  /\ lpc' = "user"
  /\ ret' = "timeouts"
  /\ UNCHANGED <<tasks, pipe, exit_, exited_, live, active, entry, ready, final, cpc,
                 dropped, ran>>
TimerFires ==
  /\ lpc = "timeouts"
  /\ timers > 0
  /\ timers' = timers - 1
  /\ lpc' = "user"
  /\ ret' = "timeouts"
  /\ UNCHANGED <<tasks, pipe, exit_, exited_, live, active, entry, ready, final, cpc,
                 dropped, ran>>

\* ... and when none is due, back to loop().
TimeoutsEnd ==
  /\ lpc = "timeouts"
  /\ lpc' = IF final THEN "returned" ELSE "test"
  /\ UNCHANGED <<tasks, pipe, exit_, exited_, live, active, entry, ready, timers, ret,
                 final, cpc, dropped, ran>>

\* User code closes a channel: Channel::close, whose removeChannel nulls the
\* entry of activeEvs_ as well.  (Its handleRead is more user code.)
CloseChannelKeepingEntry(c) ==
  /\ lpc = "user" /\ cpc[Loop] = "out"
  /\ c \in live
  /\ live' = live \ {c}
  /\ ready' = ready \ {c}
  /\ closed' = IF owed = {} THEN {} ELSE closed \cup {c}
  /\ UNCHANGED <<tasks, pipe, exit_, exited_, active, owed, timers, lpc, ret, final,
                 cpc, dropped, ran>>
CloseChannel(c) ==
  /\ lpc = "user" /\ cpc[Loop] = "out"
  /\ c \in live
  /\ live' = live \ {c}
  /\ active' = active \ {c}
  /\ ready' = ready \ {c}
  /\ closed' = IF owed = {} THEN {} ELSE closed \cup {c}
  /\ UNCHANGED <<tasks, pipe, exit_, exited_, owed, timers, lpc, ret, final, cpc,
                 dropped, ran>>

\* User code makes a new channel: addChannel.  The object that the entry in
\* hand points to is not a new one: closing it has not deleted it.
OpenChannel(c) ==
  /\ lpc = "user" /\ cpc[Loop] = "out" /\ ret # "closing"
  /\ c \notin live \cup owed
  /\ live' = live \cup {c}
  /\ UNCHANGED <<tasks, pipe, exit_, exited_, active, entry, ready, timers, lpc, ret,
                 final, cpc, dropped, ran>>

UserReturn ==
  /\ lpc = "user"
  /\ cpc[Loop] = "out"
  /\ lpc' = ret
  /\ UNCHANGED <<tasks, pipe, exit_, exited_, live, active, entry, ready, timers, ret,
                 final, cpc, dropped, ran>>

\* The kernel: a registered user channel becomes ready.
Arrive(c) ==
  /\ c \in live \ ready
  /\ lpc \notin {"closing", "gone", "dead"}
  /\ ready' = ready \cup {c}
  /\ UNCHANGED <<tasks, pipe, exit_, exited_, live, active, entry, timers, lpc, ret,
                 final, cpc, dropped, ran>>

-----------------------------------------------------------------------------
(* Destruction, after loop() returned and the other threads let go.         *)

BeginDestroy ==
  /\ lpc = "returned"
  /\ \A t \in Callers : cpc[t] = "out"
  /\ lpc' = "closing"
  /\ UNCHANGED <<tasks, pipe, exit_, exited_, live, active, entry, ready, timers, ret,
                 final, cpc, dropped, ran>>

\* ~PollerEpoll: (*liveChannels_.begin())->close(), in the order of the
\* channels' addresses.  The handler of a user channel is user code again;
\* the wakeup handler sees fd() < 0 and deletes its channel.
CloseFirst(c) ==
  /\ lpc = "closing"
  /\ c \in live
  /\ live' = live \ {c}
  /\ IF c = Wake
       THEN pipe' = 0 /\ UNCHANGED <<ready, lpc, ret>>
       ELSE /\ ready' = ready \ {c}
            /\ lpc' = "user" /\ ret' = "closing"
            /\ UNCHANGED pipe
  /\ UNCHANGED <<tasks, exit_, exited_, active, entry, timers, final, cpc, dropped,
                 ran>>

DestroyEnd ==
  /\ lpc = "closing"
  /\ live = {}
  /\ lpc' = "gone"
  /\ UNCHANGED <<tasks, pipe, exit_, exited_, live, active, entry, ready, timers, ret,
                 final, cpc, dropped, ran>>

-----------------------------------------------------------------------------

Call(t) ==
  \/ \E v \in Tasks : Push(t, v)
  \/ WakeupCall(t) \/ ExitStore(t)
  \/ Write(t) \/ WriteBroken(t) \/ ExitFlag(t)

LoopStep ==
  \/ LoopTest \/ Poll \/ DispatchEnd \/ HandleWake \/ Drain
  \/ \E c \in Chans : HandleChannel(c)
  \/ HandleRead
  \/ TimerFires \/ TimeoutsEnd

Next ==
  \/ \E t \in Thread : Call(t)
  \/ LoopStep
  \/ \E c \in Chans : CloseChannel(c) \/ OpenChannel(c) \/ Arrive(c)
  \/ UserReturn
  \/ BeginDestroy
  \/ \E c \in Chans \cup {Wake} : CloseFirst(c)
  \/ DestroyEnd

Spec == Init /\ [][Next]_vars

\* The loop thread runs (epoll_wait returns after at most 10 seconds); user
\* code returns, whatever it calls before; a blocked write goes on when the
\* pipe has had room again and again; exit() finishes.
Fairness ==
  /\ WF_vars(LoopStep)
  /\ SF_vars(UserReturn)
  /\ \A t \in Thread : SF_vars(Write(t)) /\ WF_vars(ExitFlag(t))

FairSpec == Spec /\ Fairness

-----------------------------------------------------------------------------

Draining == lpc = "drain" \/ (lpc = "user" /\ ret = "drain")

\* No lost wake-up: while a task is queued and the loop is not running tasks,
\* the pipe holds a byte or the thread that pushed is about to write one -
\* epoll will report the wakeup channel.
NoLostWakeup ==
  (tasks # <<>> /\ ~Draining /\ Wake \in live) =>
    pipe > 0 \/ \E t \in Thread : cpc[t] = "write"

\* removeChannel nulls activeEvs_: an entry whose turn comes is of a channel
\* that is open, although others reported by the same epoll_wait ran code that
\* closes channels.  Closed channels are still called in one case, the second
\* handler of the entry in hand (poller.cc:107): then the first handler of that
\* very entry has closed the channel.
ActiveAreLive ==
  /\ active \subseteq live
  /\ owed \subseteq live \cup closed

\* The loop thread blocks in its own wakeup(): the pipe is full and the only
\* thread that reads it is the one that writes.
SelfBlocked == cpc[Loop] \in {"write", "exitWrite"} /\ pipe = PipeCap

\* A task safeCall has queued is run, or exit() is called, or the loop thread
\* blocked itself on its own full pipe.
QueuedTaskRuns ==
  \A v \in Tasks : v \in Elems(tasks) ~> (v \in Elems(ran) \/ exit_ \/ SelfBlocked)

\* exit() ends loop(), from whichever thread and wherever the loop is, asleep
\* in epoll_wait included - unless the loop thread blocked itself.
ExitEndsLoop ==
  exit_ ~> (lpc \in {"returned", "closing", "gone", "dead"} \/ SelfBlocked
            \/ (lpc = "user" /\ ret = "closing"))

\* safeCall and exit return: a caller blocked on the full pipe gets its byte
\* in, unless nobody reads the pipe any more.
CallReturns ==
  \A t \in Callers : cpc[t] # "out" ~> (cpc[t] = "out" \/ exit_ \/ SelfBlocked)

\* Inductive strengthening: the destructor alone closes the wakeup channel;
\* only registered channels are ready; nothing is left to dispatch outside
\* the loop over activeEvs_, and a handler is owed only between the two.
Destroying == lpc \in {"closing", "gone", "dead"} \/ (lpc = "user" /\ ret = "closing")
Dispatching ==
  \/ lpc \in {"dispatch", "read", "drain"}
  \/ lpc = "user" /\ ret \in {"dispatch", "read", "drain"}
BetweenHandlers == lpc = "read" \/ (lpc = "user" /\ ret = "read")
ChannelsConsistent ==
  /\ Wake \notin live => Destroying
  /\ ready \subseteq live
  /\ active # {} => Dispatching
  /\ owed # {} => BetweenHandlers
  /\ owed = {} => closed = {}

LoopInv ==
  /\ TypeOK
  /\ ChannelsConsistent
  /\ ActiveAreLive
  /\ NoLostWakeup

=============================================================================
