------------------------------- MODULE Timers -------------------------------
(***************************************************************************)
(* handy/event_base.cc: the timers of an EventBase.                         *)
(*                                                                          *)
(* timers_ maps <<at, seq>> to a callback, timerReps_ maps the handle of a  *)
(* repeating timer, <<-at, seq>>, to its state; the callback of its entry   *)
(* in timers_ holds a pointer to that state.  Everything here happens on    *)
(* the loop thread; what interleaves is user code (a timer's callback or an *)
(* I/O handler, which may arm, cancel and exit) with the passes of          *)
(* handleTimeouts, and the clock with all of it.                            *)
(*                                                                          *)
(* The clock counts milliseconds from 0 and every timer is for a later      *)
(* moment, as with runAfter; it stands still between refreshNearest and the *)
(* epoll_wait that follows it.  nextTimeout_ is an int: HalfInt is 2^31.    *)
(***************************************************************************)
EXTENDS Integers, Sequences, FiniteSets

CONSTANTS
  Delays,     \* what user code passes to runAfter
  Intervals,  \* the intervals it passes; 0 arms a one-shot timer
  MaxNow,     \* bound: the last moment of the clock
  MaxCalls,   \* bound: calls of runAt
  MaxWait,    \* loop() polls for at most 10000 ms
  HalfInt,    \* 2^31, scaled
  Forever     \* 1 << 30, nextTimeout_ when no timer is armed

ASSUME TimersAssumption ==
  /\ Delays \subseteq Nat \ {0}
  /\ Intervals \subseteq Nat
  /\ {MaxNow, MaxCalls} \subseteq Nat
  /\ {MaxWait, HalfInt, Forever} \subseteq Nat \ {0}

VARIABLES
  now,          \* util::timeMilli()
  timers_,      \* TimerId -> the handle of the timer that the entry fires
  timerReps_,   \* handle -> [at, interval, timerid]
  timerSeq_,    \* timerSeq_
  nextTimeout_, \* nextTimeout_
  exit_,        \* exit_
  lpc,          \* where the loop thread is
  passNow,      \* the moment the current handleTimeouts pass compares with
  wakeBy,       \* when the current epoll_wait times out
  calls,        \* bound: runAt calls so far
  start,        \* history: handle of a repeating timer -> its first moment
  fires,        \* history: handle -> times its callback was begun
  cancelled     \* history: handles cancel() was called with

vars == <<now, timers_, timerReps_, timerSeq_, nextTimeout_, exit_, lpc, passNow,
          wakeBy, calls, start, fires, cancelled>>

\* poll       in epoll_wait            io        in an I/O handler
\* timeouts   in handleTimeouts        callback  in a timer's callback
\* ended      loop() is past its clear()s
\* undefined  cancel() has dereferenced timerReps_.end()
LoopPCs == {"poll", "io", "timeouts", "callback", "ended", "undefined"}

Before(a, b) == a[1] < b[1] \/ (a[1] = b[1] /\ a[2] < b[2])
Armed == DOMAIN timers_
Reps == DOMAIN timerReps_
Handles == DOMAIN fires
Without(f, x) == [y \in DOMAIN f \ {x} |-> f[y]]
With(f, x, v) == [y \in DOMAIN f \cup {x} |-> IF y = x THEN v ELSE f[y]]

\* Conversion of an int64_t to int.
ToInt(x) == ((x + HalfInt) % (2 * HalfInt)) - HalfInt

\* refreshNearest(): what it assigns to nextTimeout_ for the timers f.
NearestOfLast(f) ==
  LET first == CHOOSE t \in DOMAIN f : \A u \in DOMAIN f : u = t \/ Before(u, t)
      left == ToInt(first[1] - now)
  IN IF DOMAIN f = {} THEN Forever ELSE IF left < 0 THEN 0 ELSE left
NearestUnclamped(f) ==
  LET first == CHOOSE t \in DOMAIN f : \A u \in DOMAIN f : u = t \/ Before(t, u)
  IN IF DOMAIN f = {} THEN Forever ELSE ToInt(first[1] - now)
Nearest(f) ==
  LET first == CHOOSE t \in DOMAIN f : \A u \in DOMAIN f : u = t \/ Before(t, u)
      left == ToInt(first[1] - now)
  IN IF DOMAIN f = {} THEN Forever ELSE IF left < 0 THEN 0 ELSE left

Least(a, b) == IF a < b THEN a ELSE b

\* Types; a TimerId is unique by its sequence number.
TypeOK ==
  /\ now \in Nat /\ passNow \in Nat /\ wakeBy \in Nat
  /\ timerSeq_ \in Nat /\ nextTimeout_ \in Nat /\ calls \in Nat
  /\ exit_ \in BOOLEAN
  /\ lpc \in LoopPCs
  /\ Armed \subseteq (Nat \ {0}) \X (1..timerSeq_)
  /\ \A t \in Armed : timers_[t] \in Handles
  /\ Reps \subseteq {h \in Handles : h[1] < 0}
  /\ \A h \in Reps : timerReps_[h] \in
        [at : Nat, interval : Nat \ {0}, timerid : Nat \X (1..timerSeq_)]
  /\ Handles \subseteq Int \X (1..timerSeq_)
  /\ fires \in [Handles -> Nat]
  /\ DOMAIN start = {h \in Handles : h[1] < 0}
  /\ cancelled \subseteq Handles

Empty == [x \in {} |-> 0]

Init ==
  /\ now = 0 /\ passNow = 0 /\ wakeBy = 0
  /\ timers_ = Empty /\ timerReps_ = Empty
  /\ timerSeq_ = 0
  /\ nextTimeout_ = Forever
  /\ exit_ = FALSE
  /\ lpc = "io"
  /\ calls = 0
  /\ start = Empty /\ fires = Empty
  /\ cancelled = {}

\* User code on the loop thread: also the handlers of the last loop_once(0)
\* and the callbacks of connections closed by the destructor ("ended").
UserCode == lpc \in {"io", "callback", "ended"}

\* runAfter(d, task, i) = runAt(now + d, task, i); a no-op once exit_ is set.
RunAt(d, i) ==
  LET at == now + d
      rep == i # 0
      handle == <<IF rep THEN -at ELSE at, timerSeq_ + 1>>
      id == <<at, timerSeq_ + (IF rep THEN 2 ELSE 1)>>
  IN /\ UserCode
     /\ ~exit_
     /\ calls < MaxCalls
     /\ calls' = calls + 1
     /\ timerSeq_' = id[2]
     /\ timers_' = With(timers_, id, handle)
     /\ timerReps_' = IF rep THEN With(timerReps_, handle,
                                       [at |-> at, interval |-> i, timerid |-> id])
                      ELSE timerReps_
     /\ start' = IF rep THEN With(start, handle, at) ELSE start
     /\ fires' = With(fires, handle, 0)
     /\ nextTimeout_' = Nearest(timers_')
     /\ UNCHANGED <<now, exit_, lpc, passNow, wakeBy, cancelled>>

\* cancel(h) of a handle that runAt returned.  A one-shot timer that is gone
\* is ignored; a repeating one that is gone is looked up all the same.
CancelRepOnly(h) ==
  /\ UserCode
  /\ h \in Handles
  /\ IF h[1] >= 0
       THEN timers_' = Without(timers_, h) /\ UNCHANGED <<timerReps_, lpc>>
       ELSE IF h \in Reps
       THEN timerReps_' = Without(timerReps_, h) /\ UNCHANGED <<timers_, lpc>>
       ELSE lpc' = "undefined" /\ UNCHANGED <<timers_, timerReps_>>
  /\ cancelled' = cancelled \cup {h}
  /\ UNCHANGED <<now, timerSeq_, nextTimeout_, exit_, passNow, wakeBy, calls, start, fires>>
CancelLowerBound(h) ==
  LET later == {t \in Armed : t = h \/ Before(h, t)}
      found == {t \in later : \A u \in later : u = t \/ Before(t, u)}
  IN /\ UserCode
     /\ h \in Handles
     /\ h[1] >= 0
     /\ timers_' = [t \in Armed \ found |-> timers_[t]]
     /\ cancelled' = cancelled \cup {h}
     /\ UNCHANGED <<now, timerReps_, timerSeq_, nextTimeout_, exit_, lpc, passNow, wakeBy,
                    calls, start, fires>>
Cancel(h) ==
  /\ UserCode
  /\ h \in Handles
  /\ IF h[1] >= 0
       THEN /\ timers_' = Without(timers_, h)
            /\ UNCHANGED <<timerReps_, lpc>>
       ELSE IF h \in Reps
       THEN /\ timers_' = Without(timers_, timerReps_[h].timerid)
            /\ timerReps_' = Without(timerReps_, h)
            /\ UNCHANGED lpc
       ELSE /\ lpc' = "undefined"
            /\ UNCHANGED <<timers_, timerReps_>>
  /\ cancelled' = cancelled \cup {h}
  /\ UNCHANGED <<now, timerSeq_, nextTimeout_, exit_, passNow, wakeBy, calls, start, fires>>

\* EventBase::exit, from user code or another thread
Exit ==
  /\ exit_' = TRUE
  /\ UNCHANGED <<now, timers_, timerReps_, timerSeq_, nextTimeout_, lpc, passNow, wakeBy,
                 calls, start, fires, cancelled>>

\* User code returns; after the I/O handlers handleTimeouts begins.
UserReturn ==
  /\ lpc \in {"io", "callback"}
  /\ lpc' = "timeouts"
  /\ passNow' = IF lpc = "io" THEN now ELSE passNow
  /\ UNCHANGED <<now, timers_, timerReps_, timerSeq_, nextTimeout_, exit_, wakeBy, calls,
                 start, fires, cancelled>>

Due(t) == t[1] <= passNow
First(t) == t \in Armed /\ \A u \in Armed : u = t \/ Before(t, u)

\* One round of handleTimeouts for a one-shot timer: out of the map, then run.
FireOnce(t) ==
  /\ lpc = "timeouts"
  /\ First(t) /\ Due(t)
  /\ timers_[t] = t
  /\ timers_' = Without(timers_, t)
  /\ fires' = [fires EXCEPT ![t] = @ + 1]
  /\ lpc' = "callback"
  /\ UNCHANGED <<now, timerReps_, timerSeq_, nextTimeout_, exit_, passNow, wakeBy, calls,
                 start, cancelled>>

\* ... and for a repeating one: repeatableTimeout re-arms it, then runs it.
FireRepeatDrifting(t) ==
  LET h == timers_[t]
      at == now + timerReps_[h].interval
      id == <<at, timerSeq_ + 1>>
  IN /\ lpc = "timeouts"
     /\ First(t) /\ Due(t)
     /\ h # t
     /\ timerSeq_' = timerSeq_ + 1
     /\ timerReps_' = [timerReps_ EXCEPT ![h].at = at, ![h].timerid = id]
     /\ timers_' = With(Without(timers_, t), id, h)
     /\ nextTimeout_' = Nearest(timers_')
     /\ fires' = [fires EXCEPT ![h] = @ + 1]
     /\ lpc' = "callback"
     /\ UNCHANGED <<now, exit_, passNow, wakeBy, calls, start, cancelled>>
FireRepeat(t) ==
  LET h == timers_[t]
      at == timerReps_[h].at + timerReps_[h].interval
      id == <<at, timerSeq_ + 1>>
  IN /\ lpc = "timeouts"
     /\ First(t) /\ Due(t)
     /\ h # t
     /\ timerSeq_' = timerSeq_ + 1
     /\ timerReps_' = [timerReps_ EXCEPT ![h].at = at, ![h].timerid = id]
     /\ timers_' = With(Without(timers_, t), id, h)
     /\ nextTimeout_' = Nearest(timers_')
     /\ fires' = [fires EXCEPT ![h] = @ + 1]
     /\ lpc' = "callback"
     /\ UNCHANGED <<now, exit_, passNow, wakeBy, calls, start, cancelled>>

\* No entry is due: refreshNearest, back to loop() and into epoll_wait.
PassEnd ==
  /\ lpc = "timeouts"
  /\ ~\E t \in Armed : Due(t)
  /\ ~exit_
  /\ nextTimeout_' = Nearest(timers_)
  /\ wakeBy' = now + Least(MaxWait, nextTimeout_')
  /\ lpc' = "poll"
  /\ UNCHANGED <<now, timers_, timerReps_, timerSeq_, exit_, passNow, calls, start, fires,
                 cancelled>>

\* The same with exit_ set: loop() clears both maps and is done with timers.
LoopEnd ==
  /\ lpc = "timeouts"
  /\ ~\E t \in Armed : Due(t)
  /\ exit_
  /\ timers_' = Empty
  /\ timerReps_' = Empty
  /\ nextTimeout_' = Forever
  /\ lpc' = "ended"
  /\ UNCHANGED <<now, timerSeq_, exit_, passNow, wakeBy, calls, start, fires, cancelled>>

\* epoll_wait returns, for an event or at its timeout.
PollReturn ==
  /\ lpc = "poll"
  /\ lpc' = "io"
  /\ UNCHANGED <<now, timers_, timerReps_, timerSeq_, nextTimeout_, exit_, passNow, wakeBy,
                 calls, start, fires, cancelled>>

\* Time passes, in epoll_wait until its timeout only, and in a pass of
\* handleTimeouts no more than an int of milliseconds (24 days) holds.
Tick ==
  /\ now < MaxNow
  /\ lpc = "poll" => now < wakeBy
  /\ lpc \in {"timeouts", "callback"} => now < passNow + HalfInt
  /\ now' = now + 1
  /\ UNCHANGED <<timers_, timerReps_, timerSeq_, nextTimeout_, exit_, lpc, passNow, wakeBy,
                 calls, start, fires, cancelled>>

Pass ==
  \/ \E t \in Armed : FireOnce(t) \/ FireRepeat(t)
  \/ PassEnd \/ LoopEnd \/ PollReturn \/ UserReturn

Next ==
  \/ \E d \in Delays, i \in Intervals : RunAt(d, i)
  \/ \E h \in Handles : Cancel(h)
  \/ Exit
  \/ Pass
  \/ Tick

Spec == Init /\ [][Next]_vars

\* User code and epoll_wait return, handleTimeouts goes on, and time passes also
\* while the loop spins with a truncated wait of 0.
Fairness == WF_vars(Pass) /\ SF_vars(Tick)

FairSpec == Spec /\ Fairness

-----------------------------------------------------------------------------

\* Every entry of timers_ fires a timer that still exists: a one-shot entry is
\* its own handle, and an entry with a TimerRepeatable* points to a state that
\* names exactly this entry - never to an erased one.  Every repeating timer
\* stays armed, also while its callback runs.
RepsConsistent ==
  /\ \A t \in Armed :
       \/ timers_[t] = t
       \/ timers_[t] \in Reps /\ timerReps_[timers_[t]].timerid = t
  /\ \A h \in Reps :
       /\ timerReps_[h].timerid \in Armed
       /\ timers_[timerReps_[h].timerid] = h

\* cancel(h) is final: no entry is left that would fire the timer again,
\* wherever cancel was called from, the timer's own callback included.
CancelIsFinal == \A t \in Armed : timers_[t] \notin cancelled

\* Timers keep to their schedule, however late the callbacks ran: a repeating
\* one neither drifts nor skips, its next moment is its first moment plus one
\* interval per callback; a one-shot one is gone once it fired, and not early.
OnSchedule ==
  /\ \A h \in Reps : timerReps_[h].at = start[h] + fires[h] * timerReps_[h].interval
  /\ \A h \in Handles : h[1] > 0 /\ fires[h] > 0 => fires[h] = 1 /\ h \notin Armed /\ h[1] <= now

\* epoll_wait never sleeps beyond the nearest timer: while the loop polls, its
\* timeout is no later than any armed moment that is still to come when it
\* went to sleep, although nextTimeout_ is a truncated difference.
NeverOversleeps ==
  lpc = "poll" => \A t \in Armed : wakeBy <= t[1] \/ wakeBy <= now

\* Every armed one-shot timer within the clock's bound fires, unless it is
\* cancelled itself or the loop exits: no runAt or cancel of another timer,
\* expired or not, and no repeating timer that catches up makes the loop
\* forget it.  (Stated for the first four sequence numbers.)
TimerFires ==
  \A t \in (1..MaxNow) \X (1..4) :
    t \in Handles ~> ((t \in Handles /\ fires[t] > 0) \/ t \in cancelled
                      \/ exit_ \/ lpc = "undefined")

\* cancel() of a timer that is already removed is ignored.
CancelIgnoresRemoved == lpc # "undefined"

=============================================================================
