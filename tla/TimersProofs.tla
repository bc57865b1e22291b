---------------------------- MODULE TimersProofs ----------------------------
(***************************************************************************)
(* Timers for any delays, intervals and bounds: the two maps stay           *)
(* consistent, cancel is final, timers keep to their schedule and           *)
(* epoll_wait never sleeps beyond the nearest of them.                      *)
(*                                                                          *)
(* The argument rests on the sequence numbers: whatever runAt and           *)
(* repeatableTimeout make up is new, so the entry of a repeating timer is   *)
(* never anybody's handle, and no cancel of a one-shot timer can hit it.    *)
(***************************************************************************)
EXTENDS Timers, WellFoundedInduction, TLAPS

\* The clock: a pass compares with a moment that has been, and is not so long
\* ago that the difference would not fit refreshNearest's int.
ClockInv ==
  /\ passNow <= now
  /\ lpc \in {"timeouts", "callback"} => now - passNow <= HalfInt

\* The entry of a repeating timer carries its moment and is no handle;
\* handles of one-shot timers are positive, of repeating ones negative.
EntriesInv ==
  /\ \A h \in Reps : /\ timerReps_[h].timerid[1] = timerReps_[h].at
                     /\ timerReps_[h].timerid \notin Handles
  /\ \A h \in Handles : h[1] # 0
  /\ \A h \in DOMAIN start : start[h] \in Nat

TimersInv ==
  /\ TypeOK /\ ClockInv /\ EntriesInv
  /\ RepsConsistent /\ CancelIsFinal /\ OnSchedule /\ NeverOversleeps

-----------------------------------------------------------------------------
(* The least of a set, and what refreshNearest computes.                    *)

\* A set of naturals has a least member.
LEMMA LeastNat ==
  ASSUME NEW S, S \subseteq Nat, S # {}
  PROVE  \E m \in S : \A n \in S : m <= n
<1>1. PICK m \in S : \A n \in S : <<n, m>> \notin OpToRel(<, Nat)
  BY NatLessThanWellFounded, WFMin
<1>2. \A n \in S : ~(n < m)
  BY <1>1 DEF OpToRel
<1> QED
  BY <1>2

\* timers_.begin(): a non-empty map has a first entry, by moment and then by
\* sequence number.
LEMMA FirstEntry ==
  ASSUME NEW S, S \subseteq Nat \X Nat, S # {}
  PROVE  \E t \in S : \A u \in S : u = t \/ Before(t, u)
<1> DEFINE M == {t[1] : t \in S}
<1>1. M \subseteq Nat /\ M # {}
  OBVIOUS
<1>2. PICK m \in M : \A n \in M : m <= n
  BY <1>1, LeastNat
<1> DEFINE Q == {t[2] : t \in {u \in S : u[1] = m}}
<1>3. Q \subseteq Nat /\ Q # {}
  BY <1>2
<1>4. PICK q \in Q : \A n \in Q : q <= n
  BY <1>3, LeastNat
<1>5. PICK t \in S : t[1] = m /\ t[2] = q
  BY <1>4
<1>6. \A u \in S : u = t \/ Before(t, u)
  <2> SUFFICES ASSUME NEW u \in S, u # t PROVE Before(t, u)
    OBVIOUS
  <2>1. m <= u[1]
    BY <1>2
  <2>2. u[1] = m => q <= u[2]
    BY <1>4
  <2>3. u = <<u[1], u[2]>> /\ t = <<t[1], t[2]>>
    OBVIOUS
  <2>4. u[1] = m => q # u[2]
    BY <1>5, <2>3
  <2>5. u[1] \in Nat /\ u[2] \in Nat /\ m \in Nat /\ q \in Nat
    BY <1>1, <1>3
  <2> QED
    BY <1>5, <2>1, <2>2, <2>4, <2>5 DEF Before
<1> QED
  BY <1>6

\* The remainder of a division by a positive number: in its range, no more
\* than what is divided, and that itself when it is in the range already.
LEMMA Remainder ==
  ASSUME NEW y \in Int, NEW w \in Nat, w > 0
  PROVE  /\ (y % w) \in 0 .. (w - 1)
         /\ y >= 0 => (y % w) <= y
         /\ 0 <= y /\ y < w => (y % w) = y
<1>1. (y % w) \in 0 .. (w - 1)
  OBVIOUS
<1>2. y >= 0 => (y % w) <= y
  OBVIOUS
<1>3. 0 <= y /\ y < w => (y % w) = y
  OBVIOUS
<1> QED
  BY <1>1, <1>2, <1>3

\* A difference that is not negative is never made larger by the conversion
\* to int, and one that is negative, but no more than an int holds, is kept.
LEMMA ToIntBounds ==
  ASSUME NEW x \in Int
  PROVE  /\ ToInt(x) \in Int
         /\ x >= 0 => ToInt(x) <= x
         /\ -HalfInt <= x /\ x < 0 => ToInt(x) = x
<1>1. HalfInt \in Nat /\ HalfInt > 0
  BY TimersAssumption
<1>2. PICK y \in Int, w \in Nat : y = x + HalfInt /\ w = 2 * HalfInt
  BY <1>1
<1>3. w > 0
  BY <1>1, <1>2
<1>4. ToInt(x) = (y % w) - HalfInt
  BY <1>2 DEF ToInt
<1>5. /\ (y % w) \in 0 .. (w - 1)
      /\ y >= 0 => (y % w) <= y
      /\ 0 <= y /\ y < w => (y % w) = y
  BY <1>3, Remainder
<1> HIDE DEF ToInt
<1> QED
  BY <1>1, <1>2, <1>4, <1>5

\* refreshNearest gives epoll_wait a time that ends at or before the first
\* armed moment, or at once: also when that moment is further ahead than an int
\* says, though not when it is that far in the past.
LEMMA NearestBounds ==
  ASSUME NEW f, DOMAIN f \subseteq Nat \X Nat, now \in Nat
  PROVE  /\ Nearest(f) \in Nat
         /\ (\A t \in DOMAIN f : now - t[1] <= HalfInt) =>
              \A t \in DOMAIN f : now + Nearest(f) <= t[1] \/ Nearest(f) = 0
<1>1. CASE DOMAIN f = {}
  BY <1>1, TimersAssumption DEF Nearest
<1>2. CASE DOMAIN f # {}
  <2> DEFINE first == CHOOSE t \in DOMAIN f : \A u \in DOMAIN f : u = t \/ Before(t, u)
  <2>1. first \in DOMAIN f /\ \A u \in DOMAIN f : u = first \/ Before(first, u)
    BY <1>2, FirstEntry
  <2>5. first[1] \in Nat /\ first[1] - now \in Int
    BY <2>1
  <2>2. PICK left \in Int : left = ToInt(first[1] - now)
    BY <2>5, ToIntBounds
  <2>3. Nearest(f) = IF left < 0 THEN 0 ELSE left
    BY <1>2, <2>2 DEF Nearest
  <2> HIDE DEF first
  <2>4. \A u \in DOMAIN f : first[1] <= u[1]
    BY <2>1 DEF Before
  <2>6. /\ first[1] - now >= 0 => left <= first[1] - now
        /\ -HalfInt <= first[1] - now /\ first[1] - now < 0 => left < 0
    BY <2>2, <2>5, ToIntBounds
  <2>8. ASSUME \A t \in DOMAIN f : now - t[1] <= HalfInt, NEW t \in DOMAIN f
        PROVE  now + Nearest(f) <= t[1] \/ Nearest(f) = 0
    <3>1. t[1] \in Nat /\ first[1] <= t[1]
      BY <2>4, <2>8
    <3>2. -HalfInt <= first[1] - now
      BY <2>1, <2>5, <2>8, TimersAssumption
    <3> QED
      BY <2>2, <2>3, <2>5, <2>6, <3>1, <3>2
  <2>9. Nearest(f) \in Nat
    BY <2>2, <2>3
  <2> QED
    BY <2>8, <2>9
<1> QED
  BY <1>1, <1>2

-----------------------------------------------------------------------------
(* The invariant, action by action.                                         *)

\* No timer is armed to begin with.
LEMMA TimersInitInv == Init => TimersInv
<1> SUFFICES ASSUME Init PROVE TimersInv
  OBVIOUS
<1>1. Armed = {} /\ Reps = {} /\ Handles = {} /\ DOMAIN start = {}
  BY DEF Init, Empty, Armed, Reps, Handles
<1>2. TypeOK
  <2>1. fires \in [Handles -> Nat]
    BY <1>1 DEF Init, Empty, Handles
  <2>2. exit_ \in BOOLEAN
    BY Zenon DEF Init
  <2> QED
    BY <1>1, <2>1, <2>2, TimersAssumption DEF Init, TypeOK, LoopPCs
<1>3. ClockInv /\ EntriesInv
  BY <1>1, TimersAssumption DEF Init, ClockInv, EntriesInv
<1>4. RepsConsistent /\ CancelIsFinal /\ OnSchedule
  BY <1>1 DEF RepsConsistent, CancelIsFinal, OnSchedule
<1>5. NeverOversleeps
  BY DEF Init, NeverOversleeps
<1> QED
  BY <1>2, <1>3, <1>4, <1>5 DEF TimersInv

\* runAt of a one-shot timer keeps the invariant.
LEMMA RunOnceInv ==
  ASSUME TimersInv, NEW d \in Delays, RunAt(d, 0) PROVE TimersInv'
<1> DEFINE at == now + d
           id == <<at, timerSeq_ + 1>>
<1> USE DEF TimersInv
<1>1. /\ UserCode /\ calls' = calls + 1 /\ timerSeq_' = timerSeq_ + 1
      /\ timers_' = With(timers_, id, id) /\ timerReps_' = timerReps_ /\ start' = start
      /\ fires' = With(fires, id, 0) /\ nextTimeout_' = Nearest(timers_')
      /\ UNCHANGED <<now, exit_, lpc, passNow, wakeBy, cancelled>>
  BY DEF RunAt
<1>2. at \in Nat \ {0} /\ timerSeq_ \in Nat
  BY TimersAssumption DEF TypeOK
<1>3. id \notin Armed /\ id \notin Handles
  BY <1>2 DEF TypeOK
<1>4. id \in (Nat \ {0}) \X (1..(timerSeq_ + 1)) /\ id[1] = at /\ id[1] > 0
  BY <1>2
<1> HIDE DEF at, id
<1>5. /\ Armed' = Armed \cup {id} /\ timers_'[id] = id
      /\ \A t \in Armed : timers_'[t] = timers_[t]
  BY <1>1, <1>3 DEF Armed, With
<1>6. /\ Handles' = Handles \cup {id} /\ fires'[id] = 0
      /\ \A h \in Handles : fires'[h] = fires[h]
  BY <1>1, <1>3 DEF Handles, With
<1>7. Reps' = Reps
  BY <1>1 DEF Reps
<1>8. \A k \in 1..timerSeq_ : k \in 1..timerSeq_'
  BY <1>1, <1>2
<1>9. TypeOK'
  <2>1. Armed' \subseteq (Nat \ {0}) \X (1..timerSeq_')
    BY <1>1, <1>2, <1>4, <1>5 DEF TypeOK
  <2>2. \A t \in Armed' : timers_'[t] \in Handles'
    BY <1>5, <1>6 DEF TypeOK
  <2>3. Reps' \subseteq {h \in Handles' : h[1] < 0}
    BY <1>6, <1>7 DEF TypeOK
  <2>4. \A h \in Reps' : timerReps_'[h] \in
           [at : Nat, interval : Nat \ {0}, timerid : Nat \X (1..timerSeq_')]
    BY <1>1, <1>7, <1>8 DEF TypeOK
  <2>5. Handles' \subseteq Int \X (1..timerSeq_')
    BY <1>1, <1>2, <1>4, <1>6 DEF TypeOK
  <2>6. fires' \in [Handles' -> Nat]
    BY <1>1, <1>3, <1>6 DEF TypeOK, Handles, With
  <2>7. DOMAIN start' = {h \in Handles' : h[1] < 0}
    BY <1>1, <1>4, <1>6, <1>2 DEF TypeOK
  <2>8. cancelled' \subseteq Handles'
    BY <1>1, <1>6 DEF TypeOK
  <2>9. nextTimeout_' \in Nat
    <3>1. DOMAIN timers_' \subseteq Nat \X Nat
      BY <2>1, <1>1, <1>2 DEF Armed
    <3> QED
      BY <1>1, <3>1, NearestBounds DEF TypeOK, ClockInv
  <2>10. exit_' \in BOOLEAN
    BY <1>1, Zenon DEF TypeOK
  <2>11. /\ now' \in Nat /\ passNow' \in Nat /\ wakeBy' \in Nat /\ lpc' \in LoopPCs
         /\ timerSeq_' \in Nat /\ calls' \in Nat
    BY <1>1, <1>2 DEF TypeOK
  <2> QED
    BY <2>1, <2>2, <2>3, <2>4, <2>5, <2>6, <2>7, <2>8, <2>9, <2>10, <2>11 DEF TypeOK
<1>10. ClockInv'
  BY <1>1 DEF ClockInv
<1>11. EntriesInv'
  <2>1. \A h \in Reps : timerReps_[h].timerid # id
    BY <1>3 DEF RepsConsistent
  <2> QED
    BY <1>1, <1>4, <1>6, <1>7, <2>1, <1>2 DEF EntriesInv
<1>12. RepsConsistent'
  BY <1>1, <1>3, <1>5, <1>7 DEF RepsConsistent
<1>13. CancelIsFinal'
  BY <1>1, <1>3, <1>5 DEF CancelIsFinal, TypeOK
<1>14. OnSchedule'
  <2>1. \A h \in Reps' : timerReps_'[h].at = start'[h] + fires'[h] * timerReps_'[h].interval
    BY <1>1, <1>6, <1>7 DEF OnSchedule, TypeOK
  <2>2. \A h \in Handles' : h[1] > 0 /\ fires'[h] > 0 => fires'[h] = 1 /\ h \notin Armed' /\ h[1] <= now'
    BY <1>1, <1>3, <1>5, <1>6 DEF OnSchedule
  <2> QED
    BY <2>1, <2>2 DEF OnSchedule
<1>15. NeverOversleeps'
  BY <1>1 DEF NeverOversleeps, UserCode
<1> QED
  BY <1>9, <1>10, <1>11, <1>12, <1>13, <1>14, <1>15

\* runAt of a repeating timer keeps the invariant: the handle it returns and
\* the entry it makes have sequence numbers of their own.
LEMMA RunRepeatInv ==
  ASSUME TimersInv, NEW d \in Delays, NEW i \in Intervals, i # 0, RunAt(d, i)
  PROVE  TimersInv'
<1> DEFINE at == now + d
           handle == <<-at, timerSeq_ + 1>>
           id == <<at, timerSeq_ + 2>>
           rep == [at |-> at, interval |-> i, timerid |-> id]
<1> USE DEF TimersInv
<1>1. /\ UserCode /\ calls' = calls + 1 /\ timerSeq_' = timerSeq_ + 2
      /\ timers_' = With(timers_, id, handle) /\ timerReps_' = With(timerReps_, handle, rep)
      /\ start' = With(start, handle, at)
      /\ fires' = With(fires, handle, 0) /\ nextTimeout_' = Nearest(timers_')
      /\ UNCHANGED <<now, exit_, lpc, passNow, wakeBy, cancelled>>
  BY DEF RunAt
<1>2. at \in Nat \ {0} /\ timerSeq_ \in Nat /\ i \in Nat \ {0}
  BY TimersAssumption DEF TypeOK
<1>3. /\ id \notin Armed /\ id \notin Handles /\ handle \notin Handles
      /\ handle \notin Armed /\ handle # id
  BY <1>2 DEF TypeOK
<1>4. /\ id \in (Nat \ {0}) \X (1..(timerSeq_ + 2)) /\ id[1] = at /\ id[1] > 0
      /\ handle \in Int \X (1..(timerSeq_ + 2)) /\ handle[1] < 0
  BY <1>2
<1>5. /\ rep \in [at : Nat, interval : Nat \ {0}, timerid : Nat \X (1..(timerSeq_ + 2))]
      /\ rep.at = at /\ rep.interval = i /\ rep.timerid = id
  BY <1>2
<1> HIDE DEF at, handle, id, rep
<1>6. /\ Armed' = Armed \cup {id} /\ timers_'[id] = handle
      /\ \A t \in Armed : timers_'[t] = timers_[t]
  BY <1>1, <1>3 DEF Armed, With
<1>7. /\ Handles' = Handles \cup {handle} /\ fires'[handle] = 0
      /\ \A h \in Handles : fires'[h] = fires[h]
  BY <1>1, <1>3 DEF Handles, With
<1>8. handle \notin Reps /\ handle \notin DOMAIN start
  BY <1>3 DEF TypeOK
<1>9. /\ Reps' = Reps \cup {handle} /\ timerReps_'[handle] = rep
      /\ \A h \in Reps : timerReps_'[h] = timerReps_[h]
  BY <1>1, <1>8 DEF Reps, With
<1>10. /\ DOMAIN start' = DOMAIN start \cup {handle} /\ start'[handle] = at
       /\ \A h \in DOMAIN start : start'[h] = start[h]
  BY <1>1, <1>8 DEF With
<1>11. \A k \in 1..timerSeq_ : k \in 1..timerSeq_'
  BY <1>1, <1>2
<1>12. TypeOK'
  <2>1. Armed' \subseteq (Nat \ {0}) \X (1..timerSeq_')
    BY <1>1, <1>2, <1>4, <1>6 DEF TypeOK
  <2>2. \A t \in Armed' : timers_'[t] \in Handles'
    BY <1>6, <1>7 DEF TypeOK
  <2>3. Reps' \subseteq {h \in Handles' : h[1] < 0}
    BY <1>4, <1>7, <1>9 DEF TypeOK
  <2>4. \A h \in Reps' : timerReps_'[h] \in
           [at : Nat, interval : Nat \ {0}, timerid : Nat \X (1..timerSeq_')]
    BY <1>1, <1>5, <1>9, <1>11 DEF TypeOK
  <2>5. Handles' \subseteq Int \X (1..timerSeq_')
    BY <1>1, <1>2, <1>4, <1>7 DEF TypeOK
  <2>6. fires' \in [Handles' -> Nat]
    BY <1>1, <1>3, <1>7 DEF TypeOK, Handles, With
  <2>7. DOMAIN start' = {h \in Handles' : h[1] < 0}
    BY <1>4, <1>7, <1>10 DEF TypeOK
  <2>8. cancelled' \subseteq Handles'
    BY <1>1, <1>7 DEF TypeOK
  <2>9. nextTimeout_' \in Nat
    <3>1. DOMAIN timers_' \subseteq Nat \X Nat
      BY <2>1, <1>1, <1>2 DEF Armed
    <3> QED
      BY <1>1, <3>1, NearestBounds DEF TypeOK, ClockInv
  <2>10. exit_' \in BOOLEAN
    BY <1>1, Zenon DEF TypeOK
  <2>11. /\ now' \in Nat /\ passNow' \in Nat /\ wakeBy' \in Nat /\ lpc' \in LoopPCs
         /\ timerSeq_' \in Nat /\ calls' \in Nat
    BY <1>1, <1>2 DEF TypeOK
  <2> QED
    BY <2>1, <2>2, <2>3, <2>4, <2>5, <2>6, <2>7, <2>8, <2>9, <2>10, <2>11 DEF TypeOK
<1>13. ClockInv'
  BY <1>1 DEF ClockInv
<1>14. EntriesInv'
  <2>1. \A h \in Reps : timerReps_[h].timerid # handle
    BY <1>3 DEF RepsConsistent
  <2>2. \A h \in Reps' : /\ timerReps_'[h].timerid[1] = timerReps_'[h].at
                         /\ timerReps_'[h].timerid \notin Handles'
    BY <1>3, <1>4, <1>5, <1>7, <1>9, <2>1 DEF EntriesInv
  <2>3. \A h \in Handles' : h[1] # 0
    BY <1>4, <1>7 DEF EntriesInv
  <2>4. \A h \in DOMAIN start' : start'[h] \in Nat
    BY <1>2, <1>10 DEF EntriesInv
  <2> QED
    BY <2>2, <2>3, <2>4 DEF EntriesInv
<1>15. RepsConsistent'
  BY <1>3, <1>5, <1>6, <1>8, <1>9 DEF RepsConsistent
<1>16. CancelIsFinal'
  BY <1>1, <1>3, <1>6 DEF CancelIsFinal, TypeOK
<1>17. OnSchedule'
  <2>1. \A h \in Reps : h \in Handles /\ h \in DOMAIN start
    BY DEF TypeOK
  <2>2. \A h \in Reps' : timerReps_'[h].at = start'[h] + fires'[h] * timerReps_'[h].interval
    <3>1. timerReps_'[handle].at = start'[handle] + fires'[handle] * timerReps_'[handle].interval
      BY <1>2, <1>5, <1>7, <1>9, <1>10
    <3>2. \A h \in Reps : timerReps_'[h].at = start'[h] + fires'[h] * timerReps_'[h].interval
      BY <1>7, <1>9, <1>10, <2>1 DEF OnSchedule
    <3> QED
      BY <1>9, <3>1, <3>2
  <2>3. \A h \in Handles' : h[1] > 0 /\ fires'[h] > 0 => fires'[h] = 1 /\ h \notin Armed' /\ h[1] <= now'
    BY <1>1, <1>3, <1>4, <1>6, <1>7 DEF OnSchedule
  <2> QED
    BY <2>2, <2>3 DEF OnSchedule
<1>18. NeverOversleeps'
  BY <1>1 DEF NeverOversleeps, UserCode
<1> QED
  BY <1>12, <1>13, <1>14, <1>15, <1>16, <1>17, <1>18

\* What cancel(h) does when h is found: the one entry that would fire h
\* leaves timers_, and with it the state of h, if it repeats, timerReps_.
LEMMA CancelMaps ==
  ASSUME TimersInv, NEW h \in Handles, NEW gone,
         \A t \in Armed : timers_[t] = h => t = gone,
         gone \in Armed => timers_[gone] = h,
         timers_' = Without(timers_, gone),
         Reps' = Reps \ {h}, \A g \in Reps' : timerReps_'[g] = timerReps_[g],
         cancelled' = cancelled \cup {h}, lpc' \in LoopPCs \ {"poll"}, lpc' \in {lpc, "undefined"},
         UNCHANGED <<now, timerSeq_, nextTimeout_, exit_, passNow, wakeBy, calls, start, fires>>
  PROVE  TimersInv'
<1> USE DEF TimersInv
<1>1. /\ Armed' = Armed \ {gone} /\ \A t \in Armed' : timers_'[t] = timers_[t]
      /\ Handles' = Handles
  BY DEF Armed, Without, Handles
<1>2. TypeOK'
  <2>1. /\ now' \in Nat /\ passNow' \in Nat /\ wakeBy' \in Nat /\ lpc' \in LoopPCs
        /\ timerSeq_' \in Nat /\ calls' \in Nat /\ nextTimeout_' \in Nat
    BY DEF TypeOK
  <2>2. exit_' \in BOOLEAN
    BY Zenon DEF TypeOK
  <2>3. /\ Armed' \subseteq (Nat \ {0}) \X (1..timerSeq_')
        /\ \A t \in Armed' : timers_'[t] \in Handles'
    BY <1>1 DEF TypeOK
  <2>4. /\ Reps' \subseteq {g \in Handles' : g[1] < 0}
        /\ \A g \in Reps' : timerReps_'[g] \in
             [at : Nat, interval : Nat \ {0}, timerid : Nat \X (1..timerSeq_')]
    BY <1>1 DEF TypeOK
  <2>5. /\ Handles' \subseteq Int \X (1..timerSeq_') /\ fires' \in [Handles' -> Nat]
        /\ DOMAIN start' = {g \in Handles' : g[1] < 0} /\ cancelled' \subseteq Handles'
    BY <1>1 DEF TypeOK
  <2> QED
    BY <2>1, <2>2, <2>3, <2>4, <2>5 DEF TypeOK
<1>3. ClockInv' /\ EntriesInv'
  BY <1>1 DEF ClockInv, EntriesInv
<1>4. RepsConsistent'
  <2>1. ASSUME NEW t \in Armed'
        PROVE  timers_'[t] = t \/ (timers_'[t] \in Reps' /\ timerReps_'[timers_'[t]].timerid = t)
    BY <1>1 DEF RepsConsistent
  <2>2. ASSUME NEW g \in Reps'
        PROVE  timerReps_'[g].timerid \in Armed' /\ timers_'[timerReps_'[g].timerid] = g
    BY <1>1 DEF RepsConsistent
  <2> QED
    BY <2>1, <2>2 DEF RepsConsistent
<1>5. CancelIsFinal'
  BY <1>1 DEF CancelIsFinal
<1>6. OnSchedule'
  BY <1>1 DEF OnSchedule
<1>7. NeverOversleeps'
  BY DEF NeverOversleeps
<1> QED
  BY <1>2, <1>3, <1>4, <1>5, <1>6, <1>7

\* cancel keeps the invariant: of a one-shot timer, whether it is armed or
\* not, of a repeating one, and of one that is gone.
LEMMA CancelInv ==
  ASSUME TimersInv, NEW h \in Handles, Cancel(h) PROVE TimersInv'
<1> USE DEF TimersInv
<1>1. /\ UserCode /\ cancelled' = cancelled \cup {h}
      /\ UNCHANGED <<now, timerSeq_, nextTimeout_, exit_, passNow, wakeBy, calls, start, fires>>
  BY DEF Cancel
<1>2. h \in Int \X (1..timerSeq_) /\ h[1] \in Int
  BY DEF TypeOK
<1>3. lpc \in LoopPCs \ {"poll"}
  BY <1>1 DEF UserCode, LoopPCs
<1>4. \A t \in Armed : t[1] \in Nat
  BY DEF TypeOK
<1>5. \A g \in Reps : g \in Handles /\ g[1] < 0
  BY DEF TypeOK
<1>6. CASE h[1] >= 0
  <2>1. timers_' = Without(timers_, h) /\ UNCHANGED <<timerReps_, lpc>>
    BY <1>6 DEF Cancel
  <2>2. h \notin Reps
    BY <1>2, <1>5, <1>6
  <2>3. \A t \in Armed : timers_[t] = h => t = h
    BY <2>2 DEF RepsConsistent
  <2>4. h \in Armed => timers_[h] = h
    BY DEF RepsConsistent, EntriesInv
  <2>5. Reps' = Reps \ {h} /\ \A g \in Reps' : timerReps_'[g] = timerReps_[g]
    BY <2>1, <2>2 DEF Reps
  <2> QED
    BY <1>1, <1>3, <2>1, <2>3, <2>4, <2>5, CancelMaps
<1>7. CASE h[1] < 0 /\ h \in Reps
  <2> DEFINE id == timerReps_[h].timerid
  <2>1. /\ timers_' = Without(timers_, id) /\ timerReps_' = Without(timerReps_, h)
        /\ UNCHANGED lpc
    BY <1>2, <1>7 DEF Cancel
  <2>2. \A t \in Armed : timers_[t] = h => t = id
    BY <1>2, <1>4, <1>7 DEF RepsConsistent
  <2>3. timers_[id] = h
    BY <1>7 DEF RepsConsistent
  <2>4. Reps' = Reps \ {h} /\ \A g \in Reps' : timerReps_'[g] = timerReps_[g]
    BY <2>1 DEF Reps, Without
  <2> QED
    BY <1>1, <1>3, <2>1, <2>2, <2>3, <2>4, CancelMaps
<1>8. CASE h[1] < 0 /\ h \notin Reps
  <2>1. lpc' = "undefined" /\ UNCHANGED <<timers_, timerReps_>>
    BY <1>2, <1>8 DEF Cancel
  <2>2. \A t \in Armed : timers_[t] # h
    BY <1>2, <1>4, <1>8 DEF RepsConsistent
  <2>3. /\ Armed' = Armed /\ Reps' = Reps /\ Handles' = Handles
    BY <1>1, <2>1 DEF Armed, Reps, Handles
  <2>4. TypeOK'
    <3>1. exit_' \in BOOLEAN
      BY <1>1, Zenon DEF TypeOK
    <3>2. lpc' \in LoopPCs
      BY <2>1 DEF LoopPCs
    <3> QED
      BY <1>1, <2>1, <2>3, <3>1, <3>2 DEF TypeOK
  <2>5. ClockInv' /\ EntriesInv'
    BY <1>1, <2>1, <2>3 DEF ClockInv, EntriesInv
  <2>6. RepsConsistent' /\ CancelIsFinal' /\ OnSchedule'
    BY <1>1, <2>1, <2>2, <2>3 DEF RepsConsistent, CancelIsFinal, OnSchedule
  <2>7. NeverOversleeps'
    BY <2>1 DEF NeverOversleeps
  <2> QED
    BY <2>4, <2>5, <2>6, <2>7
<1> QED
  BY <1>2, <1>6, <1>7, <1>8

\* One round of handleTimeouts for a one-shot timer keeps the invariant.
LEMMA FireOnceInv ==
  ASSUME TimersInv, NEW t \in Armed, FireOnce(t) PROVE TimersInv'
<1> USE DEF TimersInv
<1>1. /\ lpc = "timeouts" /\ Due(t) /\ timers_[t] = t /\ timers_' = Without(timers_, t)
      /\ fires' = [fires EXCEPT ![t] = @ + 1] /\ lpc' = "callback"
      /\ UNCHANGED <<now, timerReps_, timerSeq_, nextTimeout_, exit_, passNow, wakeBy, calls,
                     start, cancelled>>
  BY DEF FireOnce
<1>2. /\ t \in Handles /\ t[1] \in Nat /\ t[1] > 0 /\ fires \in [Handles -> Nat]
      /\ passNow \in Nat /\ now \in Nat
  BY <1>1 DEF TypeOK
<1>3. /\ Handles' = Handles /\ fires'[t] = fires[t] + 1
      /\ \A h \in Handles : h # t => fires'[h] = fires[h]
      /\ fires' \in [Handles -> Nat]
  BY <1>1, <1>2 DEF Handles
<1>4. /\ Armed' = Armed \ {t} /\ \A u \in Armed' : timers_'[u] = timers_[u]
      /\ Reps' = Reps
  BY <1>1 DEF Armed, Without, Reps
<1>5. fires[t] = 0
  BY <1>2 DEF OnSchedule
<1>6. t \notin Reps
  BY <1>2 DEF TypeOK
<1>7. TypeOK'
  <2>1. exit_' \in BOOLEAN
    BY <1>1, Zenon DEF TypeOK
  <2>2. lpc' \in LoopPCs
    BY <1>1 DEF LoopPCs
  <2>3. /\ now' \in Nat /\ passNow' \in Nat /\ wakeBy' \in Nat
        /\ timerSeq_' \in Nat /\ calls' \in Nat /\ nextTimeout_' \in Nat
    BY <1>1 DEF TypeOK
  <2>4. /\ Armed' \subseteq (Nat \ {0}) \X (1..timerSeq_')
        /\ \A u \in Armed' : timers_'[u] \in Handles'
    BY <1>1, <1>3, <1>4 DEF TypeOK
  <2>5. /\ Reps' \subseteq {g \in Handles' : g[1] < 0}
        /\ \A g \in Reps' : timerReps_'[g] \in
             [at : Nat, interval : Nat \ {0}, timerid : Nat \X (1..timerSeq_')]
    BY <1>1, <1>3, <1>4 DEF TypeOK
  <2>6. /\ Handles' \subseteq Int \X (1..timerSeq_') /\ fires' \in [Handles' -> Nat]
        /\ DOMAIN start' = {g \in Handles' : g[1] < 0} /\ cancelled' \subseteq Handles'
    BY <1>1, <1>3 DEF TypeOK
  <2> QED
    BY <2>1, <2>2, <2>3, <2>4, <2>5, <2>6 DEF TypeOK
<1>8. ClockInv' /\ EntriesInv'
  BY <1>1, <1>3, <1>4 DEF ClockInv, EntriesInv
<1>9. RepsConsistent'
  BY <1>1, <1>4, <1>6 DEF RepsConsistent
<1>10. CancelIsFinal'
  BY <1>1, <1>4 DEF CancelIsFinal
<1>11. OnSchedule'
  <2>1. \A h \in Reps' : timerReps_'[h].at = start'[h] + fires'[h] * timerReps_'[h].interval
    BY <1>1, <1>3, <1>4, <1>6 DEF OnSchedule, TypeOK
  <2>2. fires'[t] = 1 /\ t \notin Armed' /\ t[1] <= now'
    BY <1>1, <1>2, <1>3, <1>4, <1>5 DEF Due, ClockInv
  <2>3. \A h \in Handles' : h[1] > 0 /\ fires'[h] > 0 => fires'[h] = 1 /\ h \notin Armed' /\ h[1] <= now'
    BY <1>1, <1>3, <1>4, <2>2 DEF OnSchedule
  <2> QED
    BY <2>1, <2>3 DEF OnSchedule
<1>12. NeverOversleeps'
  BY <1>1 DEF NeverOversleeps
<1> QED
  BY <1>7, <1>8, <1>9, <1>10, <1>11, <1>12

\* Multiplication distributes over one more callback.
LEMMA OneMore == \A n, k \in Nat : (n + 1) * k = n * k + k /\ n * k \in Nat
  OBVIOUS

\* repeatableTimeout keeps the invariant: the new entry is nobody's handle,
\* the state names it before the callback runs, and the next moment is one
\* interval after the last one, not after now.
LEMMA FireRepeatInv ==
  ASSUME TimersInv, NEW t \in Armed, FireRepeat(t) PROVE TimersInv'
<1> DEFINE h == timers_[t]
           at == timerReps_[h].at + timerReps_[h].interval
           id == <<at, timerSeq_ + 1>>
<1> USE DEF TimersInv
<1>1. /\ lpc = "timeouts" /\ Due(t) /\ h # t /\ timerSeq_' = timerSeq_ + 1
      /\ timerReps_' = [timerReps_ EXCEPT ![h].at = at, ![h].timerid = id]
      /\ timers_' = With(Without(timers_, t), id, h)
      /\ nextTimeout_' = Nearest(timers_')
      /\ fires' = [fires EXCEPT ![h] = @ + 1] /\ lpc' = "callback"
      /\ UNCHANGED <<now, exit_, passNow, wakeBy, calls, start, cancelled>>
  BY DEF FireRepeat
<1>2. h \in Reps /\ timerReps_[h].timerid = t
  BY <1>1 DEF RepsConsistent
<1>3. timerReps_[h] \in [at : Nat, interval : Nat \ {0}, timerid : Nat \X (1..timerSeq_)]
  BY <1>2 DEF TypeOK
<1>4. h \in Handles /\ h[1] < 0 /\ h \in DOMAIN start
  BY <1>2 DEF TypeOK
<1>5. at \in Nat \ {0} /\ timerSeq_ \in Nat
  BY <1>3 DEF TypeOK
<1>6. id \notin Armed /\ id \notin Handles
  BY <1>5 DEF TypeOK
<1>7. id \in (Nat \ {0}) \X (1..(timerSeq_ + 1)) /\ id[1] = at
  BY <1>5
<1>8. Reps' = Reps /\ \A g \in Reps : g # h => timerReps_'[g] = timerReps_[g]
  BY <1>1 DEF Reps
<1>9. timerReps_'[h] = [timerReps_[h] EXCEPT !.at = at, !.timerid = id]
  BY <1>1, <1>2 DEF Reps
<1>10. /\ timerReps_'[h].at = at /\ timerReps_'[h].timerid = id
       /\ timerReps_'[h].interval = timerReps_[h].interval
       /\ timerReps_'[h] \in [at : Nat, interval : Nat \ {0}, timerid : Nat \X (1..(timerSeq_ + 1))]
  <2>1. \A k \in 1..timerSeq_ : k \in 1..(timerSeq_ + 1)
    BY <1>5
  <2> QED
    BY <1>3, <1>5, <1>7, <1>9, <2>1
<1>11. fires \in [Handles -> Nat]
  BY DEF TypeOK
<1>12. /\ Handles' = Handles /\ fires'[h] = fires[h] + 1
       /\ \A g \in Handles : g # h => fires'[g] = fires[g]
       /\ fires' \in [Handles -> Nat]
  BY <1>1, <1>4, <1>11 DEF Handles
<1>13. at = timerReps_[h].at + timerReps_[h].interval
  OBVIOUS
<1> HIDE DEF id, at
<1>14. /\ Armed' = (Armed \ {t}) \cup {id} /\ timers_'[id] = h
       /\ \A u \in Armed \ {t} : timers_'[u] = timers_[u]
  BY <1>1, <1>6 DEF Armed, With, Without
<1> HIDE DEF h
<1>15. \A k \in 1..timerSeq_ : k \in 1..timerSeq_'
  BY <1>1, <1>5
<1>16. TypeOK'
  <2>1. exit_' \in BOOLEAN
    BY <1>1, Zenon DEF TypeOK
  <2>2. lpc' \in LoopPCs
    BY <1>1 DEF LoopPCs
  <2>3. Armed' \subseteq (Nat \ {0}) \X (1..timerSeq_')
    BY <1>1, <1>7, <1>14, <1>15 DEF TypeOK
  <2>4. nextTimeout_' \in Nat
    <3>1. DOMAIN timers_' \subseteq Nat \X Nat
      BY <2>3, <1>1, <1>5 DEF Armed
    <3> QED
      BY <1>1, <3>1, NearestBounds DEF TypeOK, ClockInv
  <2>5. /\ now' \in Nat /\ passNow' \in Nat /\ wakeBy' \in Nat
        /\ timerSeq_' \in Nat /\ calls' \in Nat
    BY <1>1 DEF TypeOK
  <2>6. \A u \in Armed' : timers_'[u] \in Handles'
    BY <1>4, <1>12, <1>14 DEF TypeOK
  <2>7. Reps' \subseteq {g \in Handles' : g[1] < 0}
    BY <1>8, <1>12 DEF TypeOK
  <2>8. \A g \in Reps' : timerReps_'[g] \in
             [at : Nat, interval : Nat \ {0}, timerid : Nat \X (1..timerSeq_')]
    <3>1. \A g \in Reps : g # h => timerReps_'[g] \in
             [at : Nat, interval : Nat \ {0}, timerid : Nat \X (1..timerSeq_')]
      BY <1>8, <1>15 DEF TypeOK
    <3> QED
      BY <1>1, <1>8, <1>10, <3>1
  <2>9. Handles' \subseteq Int \X (1..timerSeq_')
    BY <1>12, <1>15 DEF TypeOK
  <2>10. /\ fires' \in [Handles' -> Nat]
         /\ DOMAIN start' = {g \in Handles' : g[1] < 0} /\ cancelled' \subseteq Handles'
    BY <1>1, <1>12 DEF TypeOK
  <2> QED
    BY <2>1, <2>2, <2>3, <2>4, <2>5, <2>6, <2>7, <2>8, <2>9, <2>10 DEF TypeOK
<1>17. ClockInv'
  BY <1>1 DEF ClockInv
<1>18. EntriesInv'
  <2>1. \A g \in Reps : g # h => /\ timerReps_'[g].timerid[1] = timerReps_'[g].at
                                /\ timerReps_'[g].timerid \notin Handles'
    BY <1>8, <1>12 DEF EntriesInv
  <2>2. timerReps_'[h].timerid[1] = timerReps_'[h].at /\ timerReps_'[h].timerid \notin Handles'
    BY <1>6, <1>7, <1>10, <1>12
  <2>3. /\ \A g \in Handles' : g[1] # 0
        /\ \A g \in DOMAIN start' : start'[g] \in Nat
    BY <1>1, <1>12 DEF EntriesInv
  <2> QED
    BY <1>8, <2>1, <2>2, <2>3 DEF EntriesInv
<1>19. RepsConsistent'
  <2>1. ASSUME NEW u \in Armed'
        PROVE  timers_'[u] = u \/ (timers_'[u] \in Reps' /\ timerReps_'[timers_'[u]].timerid = u)
    BY <1>2, <1>6, <1>8, <1>10, <1>14 DEF RepsConsistent
  <2>2. ASSUME NEW g \in Reps'
        PROVE  timerReps_'[g].timerid \in Armed' /\ timers_'[timerReps_'[g].timerid] = g
    <3>1. CASE g = h
      BY <1>10, <1>14, <3>1
    <3>2. CASE g # h
      <4>1. g \in Reps /\ timerReps_'[g].timerid = timerReps_[g].timerid
        BY <1>8, <2>2, <3>2
      <4>2. timerReps_[g].timerid \in Armed /\ timers_[timerReps_[g].timerid] = g
        BY <4>1 DEF RepsConsistent
      <4>3. timerReps_[g].timerid # t
        BY <3>2, <4>2 DEF h
      <4> QED
        BY <1>14, <4>1, <4>2, <4>3
    <3> QED
      BY <3>1, <3>2
  <2> QED
    BY <2>1, <2>2 DEF RepsConsistent
<1>20. CancelIsFinal'
  <2>1. h \notin cancelled
    BY DEF CancelIsFinal, h
  <2> QED
    BY <1>1, <1>14, <2>1 DEF CancelIsFinal
<1>21. OnSchedule'
  <2>1. timerReps_'[h].at = start'[h] + fires'[h] * timerReps_'[h].interval
    <3>1. PICK a \in Nat, i \in Nat, f \in Nat, b \in Nat :
            a = timerReps_[h].at /\ i = timerReps_[h].interval /\ f = fires[h] /\ b = start[h]
      BY <1>3, <1>4, <1>11 DEF EntriesInv
    <3>2. a = b + f * i
      BY <1>2, <3>1 DEF OnSchedule
    <3>3. PICK m \in Nat : m = f * i /\ (f + 1) * i = m + i
      BY OneMore
    <3>4. a + i = b + (m + i)
      BY <3>2, <3>3
    <3> QED
      BY <1>1, <1>10, <1>12, <1>13, <3>1, <3>3, <3>4
  <2>2. \A g \in Reps : g # h => timerReps_'[g].at = start'[g] + fires'[g] * timerReps_'[g].interval
    BY <1>1, <1>8, <1>12 DEF OnSchedule, TypeOK
  <2>3. \A g \in Handles' : g[1] > 0 /\ fires'[g] > 0 => fires'[g] = 1 /\ g \notin Armed' /\ g[1] <= now'
    <3>1. \A g \in Handles : g # h => (g[1] > 0 /\ fires'[g] > 0 =>
                                     fires'[g] = 1 /\ g \notin Armed' /\ g[1] <= now')
      BY <1>1, <1>6, <1>12, <1>14 DEF OnSchedule
    <3>2. h[1] \in Int /\ ~(h[1] > 0)
      BY <1>4 DEF TypeOK
    <3> QED
      BY <1>12, <3>1, <3>2
  <2> QED
    BY <1>8, <2>1, <2>2, <2>3 DEF OnSchedule
<1>22. NeverOversleeps'
  BY <1>1 DEF NeverOversleeps
<1> QED
  BY <1>16, <1>17, <1>18, <1>19, <1>20, <1>21, <1>22

\* The steps that leave the timers as they are: exit, the end of a callback,
\* epoll_wait's return and the clock.
LEMMA QuietInv ==
  ASSUME TimersInv,
         UNCHANGED <<timers_, timerReps_, timerSeq_, calls, start, fires, cancelled>>,
         now' \in Nat, now <= now', passNow' \in Nat, wakeBy' \in Nat, nextTimeout_' \in Nat,
         exit_' \in BOOLEAN, lpc' \in LoopPCs, ClockInv', NeverOversleeps'
  PROVE  TimersInv'
<1> USE DEF TimersInv
<1>1. Armed' = Armed /\ Reps' = Reps /\ Handles' = Handles
  BY DEF Armed, Reps, Handles
<1>2. TypeOK'
  BY <1>1 DEF TypeOK
<1>3. EntriesInv' /\ RepsConsistent' /\ CancelIsFinal'
  BY <1>1 DEF EntriesInv, RepsConsistent, CancelIsFinal
<1>4. OnSchedule'
  <2>1. \A h \in Handles : h[1] \in Int
    BY DEF TypeOK
  <2> QED
    BY <1>1, <2>1 DEF OnSchedule, TypeOK
<1> QED
  BY <1>2, <1>3, <1>4

\* Every step keeps the invariant.
LEMMA TimersNextInv == TimersInv /\ [Next]_vars => TimersInv'
<1> SUFFICES ASSUME TimersInv, [Next]_vars PROVE TimersInv'
  OBVIOUS
<1>0. now \in Nat /\ passNow \in Nat /\ wakeBy \in Nat /\ nextTimeout_ \in Nat
  BY DEF TimersInv, TypeOK
<1>1. ASSUME NEW d \in Delays, NEW i \in Intervals, RunAt(d, i) PROVE TimersInv'
  BY <1>1, RunOnceInv, RunRepeatInv
<1>2. ASSUME NEW h \in Handles, Cancel(h) PROVE TimersInv'
  BY <1>2, CancelInv
<1>3. CASE Exit
  <2>1. exit_' \in BOOLEAN
    BY <1>3, Zenon DEF Exit
  <2> QED
    BY <1>0, <1>3, <2>1, QuietInv DEF Exit, TimersInv, TypeOK, ClockInv, NeverOversleeps, Armed
<1>4. ASSUME NEW t \in Armed, FireOnce(t) \/ FireRepeat(t) PROVE TimersInv'
  BY <1>4, FireOnceInv, FireRepeatInv
<1>5. CASE PassEnd
  <2>1. /\ nextTimeout_' = Nearest(timers_) /\ wakeBy' = now + Least(MaxWait, nextTimeout_')
        /\ lpc' = "poll"
        /\ UNCHANGED <<now, timers_, timerReps_, timerSeq_, passNow, calls, start, fires, cancelled>>
    BY <1>5 DEF PassEnd
  <2>2. exit_' \in BOOLEAN
    BY <1>5, Zenon DEF PassEnd, TimersInv, TypeOK
  <2>3. DOMAIN timers_ \subseteq Nat \X Nat
    BY DEF TimersInv, TypeOK, Armed
  <2>4. /\ nextTimeout_' \in Nat
        /\ \A t \in Armed : now + nextTimeout_' <= t[1] \/ nextTimeout_' = 0
    <3>1. ASSUME NEW t \in DOMAIN timers_ PROVE now - t[1] <= HalfInt
      <4>1. t[1] \in Nat /\ passNow < t[1]
        BY <1>0, <1>5, <2>3 DEF PassEnd, Due, Armed
      <4>2. now - passNow <= HalfInt
        BY <1>5 DEF PassEnd, TimersInv, ClockInv
      <4> QED
        BY <1>0, <4>1, <4>2, TimersAssumption
    <3> QED
      BY <1>0, <2>1, <2>3, <3>1, NearestBounds DEF Armed
  <2>5. Least(MaxWait, nextTimeout_') \in Nat /\ Least(MaxWait, nextTimeout_') <= nextTimeout_'
    BY <2>4, TimersAssumption DEF Least
  <2>6. wakeBy' \in Nat /\ wakeBy' <= now + nextTimeout_'
    BY <1>0, <2>1, <2>4, <2>5
  <2>7. \A t \in Armed : t[1] \in Nat
    BY <2>3 DEF Armed
  <2>8. NeverOversleeps'
    BY <1>0, <2>1, <2>4, <2>6, <2>7 DEF NeverOversleeps, Armed
  <2>9. ClockInv' /\ lpc' \in LoopPCs
    BY <2>1 DEF TimersInv, ClockInv, LoopPCs
  <2> QED
    BY <1>0, <2>1, <2>2, <2>4, <2>6, <2>8, <2>9, QuietInv
<1>6. CASE LoopEnd
  <2>1. /\ timers_' = Empty /\ timerReps_' = Empty /\ nextTimeout_' = Forever /\ lpc' = "ended"
        /\ UNCHANGED <<now, timerSeq_, passNow, wakeBy, calls, start, fires, cancelled>>
    BY <1>6 DEF LoopEnd
  <2>2. exit_' \in BOOLEAN
    BY <1>6, Zenon DEF LoopEnd, TimersInv, TypeOK
  <2>3. Armed' = {} /\ Reps' = {} /\ Handles' = Handles
    BY <2>1 DEF Armed, Reps, Empty, Handles
  <2>4. TypeOK'
    BY <2>1, <2>2, <2>3, TimersAssumption DEF TimersInv, TypeOK, LoopPCs
  <2>5. EntriesInv' /\ ClockInv'
    BY <2>1, <2>3 DEF TimersInv, EntriesInv, ClockInv
  <2>6. RepsConsistent' /\ CancelIsFinal' /\ OnSchedule' /\ NeverOversleeps'
    BY <2>1, <2>3 DEF TimersInv, RepsConsistent, CancelIsFinal, OnSchedule, NeverOversleeps
  <2> QED
    BY <2>4, <2>5, <2>6 DEF TimersInv
<1>7. CASE PollReturn
  <2>1. exit_' \in BOOLEAN
    BY <1>7, Zenon DEF PollReturn, TimersInv, TypeOK
  <2> QED
    BY <1>0, <1>7, <2>1, QuietInv DEF PollReturn, TimersInv, ClockInv, NeverOversleeps, LoopPCs
<1>8. CASE UserReturn
  <2>1. exit_' \in BOOLEAN
    BY <1>8, Zenon DEF UserReturn, TimersInv, TypeOK
  <2>2. ClockInv'
    BY <1>0, <1>8, TimersAssumption DEF UserReturn, TimersInv, ClockInv
  <2> QED
    BY <1>0, <1>8, <2>1, <2>2, QuietInv DEF UserReturn, TimersInv, ClockInv, NeverOversleeps, LoopPCs
<1>9. CASE Tick
  <2>1. exit_' \in BOOLEAN
    BY <1>9, Zenon DEF Tick, TimersInv, TypeOK
  <2>2. /\ now' = now + 1
        /\ lpc \in {"timeouts", "callback"} => now < passNow + HalfInt
        /\ UNCHANGED <<timers_, timerReps_, timerSeq_, nextTimeout_, lpc, passNow, wakeBy,
                       calls, start, fires, cancelled>>
    BY <1>9 DEF Tick
  <2>3. ClockInv' /\ lpc' \in LoopPCs
    BY <1>0, <2>2, TimersAssumption DEF TimersInv, ClockInv, TypeOK
  <2>4. NeverOversleeps'
    BY <1>0, <2>2 DEF TimersInv, NeverOversleeps, Armed
  <2> QED
    BY <1>0, <2>1, <2>2, <2>3, <2>4, QuietInv
<1>10. CASE UNCHANGED vars
  <2>1. exit_' \in BOOLEAN
    BY <1>10, Zenon DEF vars, TimersInv, TypeOK
  <2> QED
    BY <1>0, <1>10, <2>1, QuietInv DEF vars, TimersInv, TypeOK, ClockInv, NeverOversleeps, Armed
<1> QED
  BY <1>1, <1>2, <1>3, <1>4, <1>5, <1>6, <1>7, <1>8, <1>9, <1>10 DEF Next, Pass

-----------------------------------------------------------------------------
(* The theorems.                                                            *)

\* In every reachable state the two maps, the clock and the history of the
\* timers fit together.
THEOREM TimersInvariant == Spec => []TimersInv
  BY TimersInitInv, TimersNextInv, PTL DEF Spec

\* The types, among them that a TimerId is unique by its sequence number.
THEOREM TimersTypeCorrect == Spec => []TypeOK
<1>1. TimersInv => TypeOK
  BY DEF TimersInv
<1> QED
  BY <1>1, TimersInvariant, PTL

\* No entry of timers_ points to a TimerRepeatable that was erased, and every
\* repeating timer stays armed, for any delays, intervals and calls.
THEOREM MapsStayConsistent == Spec => []RepsConsistent
<1>1. TimersInv => RepsConsistent
  BY DEF TimersInv
<1> QED
  BY <1>1, TimersInvariant, PTL

\* cancel(h) leaves no entry that would fire h, and none comes back.
THEOREM CancelStaysFinal == Spec => []CancelIsFinal
<1>1. TimersInv => CancelIsFinal
  BY DEF TimersInv
<1> QED
  BY <1>1, TimersInvariant, PTL

\* Repeating timers neither drift nor skip; one-shot timers fire once, and
\* not early.
THEOREM TimersKeepSchedule == Spec => []OnSchedule
<1>1. TimersInv => OnSchedule
  BY DEF TimersInv
<1> QED
  BY <1>1, TimersInvariant, PTL

\* epoll_wait never sleeps beyond the nearest timer, whatever the moments
\* that runAt is given: a difference that does not fit an int wakes the loop
\* too early, never too late.
THEOREM LoopNeverOversleeps == Spec => []NeverOversleeps
<1>1. TimersInv => NeverOversleeps
  BY DEF TimersInv
<1> QED
  BY <1>1, TimersInvariant, PTL
=============================================================================
