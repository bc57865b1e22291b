---------------------------- MODULE ServersProofs ----------------------------
(***************************************************************************)
(* Servers for any clients, loops, pool threads and deployments: answers    *)
(* reach the client that asked, each at most once, and in order where one   *)
(* thread computes them; and the loops get the connections in turn.         *)
(*                                                                          *)
(* The argument follows a message on its way: unread, in the pool's queue,  *)
(* with a pool thread, in the loop's tasks, answered.  It is in one of      *)
(* these at a time and never goes back, and with one pool thread no message *)
(* of a client is ahead of an earlier one.  For the turn, a loop may be     *)
(* ahead of another by one only if the other one is served before it.       *)
(***************************************************************************)
EXTENDS Servers, SequenceTheorems, FiniteSetTheorems, TLAPS

Replies == [kind : {"reply"}, who : Clients, msg : Nat]
Adds == [kind : {"add"}, who : Clients, msg : {0}]

Ran(s) == {s[i] : i \in 1..Len(s)}
Distinct(s) == \A i, j \in 1..Len(s) : i < j => s[i] # s[j]

\* Messages of one client in the order in which it sent them; others anyhow.
Earlier(q, r) == q.who = r.who => q.msg < r.msg
Ordered(s) == \A i, j \in 1..Len(s) : i < j => Earlier(s[i], s[j])
Rising(s) == \A i, j \in 1..Len(s) : i < j => s[i] < s[j]
AllEarlier(Q, R) == \A q \in Q, r \in R : Earlier(q, r)

\* Where a message can be once it has been read.
Queued == Ran(jobs)
Running == {running[w] : w \in {v \in Workers : running[v] # NoJob}}
Returned == Ran(tasks[1])
Answered == {r \in Replies : r.msg \in Ran(answers[r.who])}

TypeOK ==
  /\ dep \in Deployments
  /\ backlog \in Seq(Clients)
  /\ place \in [Clients -> Places]
  /\ DOMAIN tasks = Bases
  /\ tasks[1] \in Seq(Replies) /\ \A b \in Bases \ {1} : tasks[b] \in Seq(Adds)
  /\ inbox \in [Clients -> Seq(Nat)] /\ asked \in [Clients -> Nat]
  /\ jobs \in Seq(Replies)
  /\ DOMAIN running = Workers /\ Running \subseteq Replies
  /\ read \subseteq Clients \X Nat
  /\ answers \in [Clients -> Seq(Nat)]
  /\ back \in [Clients -> Seq(Nat)] /\ handed \in [Clients -> Seq(Nat)]

\* Over UDP every client that can send has its place from the start.
UdpInv ==
  dep.udp =>
    /\ backlog = <<>>
    /\ \A c \in Clients : place[c] # "open" =>
         c \notin dep.clients /\ inbox[c] = <<>> /\ \A m \in Nat : <<c, m>> \notin read

\* With one pool thread, or none, order is kept.
OneAtATime == ~dep.udp /\ dep.workers < 2

\* What is in a socket was sent and is not read yet.
UnreadInv ==
  \A c \in Clients :
    /\ Distinct(inbox[c])
    /\ \A m \in Ran(inbox[c]) : m <= asked[c] /\ <<c, m>> \notin read
    /\ \A m \in Nat : <<c, m>> \in read => m <= asked[c]
    /\ OneAtATime =>
         /\ Rising(inbox[c])
         /\ \A m \in Nat, x \in Ran(inbox[c]) : <<c, m>> \in read => m < x

\* What is on its way was read.
WayInv == \A r \in Queued \cup Running \cup Returned \cup Answered : <<r.who, r.msg>> \in read

\* A message is in one place.
OnceInv ==
  /\ Distinct(jobs) /\ Distinct(tasks[1])
  /\ \A v, w \in Workers : running[v] = running[w] /\ running[v] # NoJob => v = w
  /\ \A c \in Clients : Distinct(answers[c])
  /\ Queued \cap Running = {} /\ Queued \cap Returned = {} /\ Queued \cap Answered = {}
  /\ Running \cap Returned = {} /\ Running \cap Answered = {} /\ Returned \cap Answered = {}

\* A server without a pool answers on the spot.
PlainInv == dep.workers = 0 => jobs = <<>> /\ tasks[1] = <<>>

\* An answer is in flight to its UDP client or has been handed over, not both.
HandedInv ==
  \A c \in Clients :
    /\ Distinct(back[c]) /\ Distinct(handed[c])
    /\ Ran(back[c]) \cap Ran(handed[c]) = {}
    /\ Ran(back[c]) \cup Ran(handed[c]) \subseteq Ran(answers[c])

\* No message overtakes another of its client.
OrderInv ==
  OneAtATime =>
    /\ \A c \in Clients : Rising(answers[c])
    /\ Ordered(jobs) /\ Ordered(tasks[1])
    /\ AllEarlier(Running, Queued) /\ AllEarlier(Returned, Queued) /\ AllEarlier(Answered, Queued)
    /\ AllEarlier(Returned, Running) /\ AllEarlier(Answered, Running)
    /\ AllEarlier(Answered, Returned)

\* The way of the messages that have been read.
PipeInv == WayInv /\ OnceInv /\ PlainInv /\ HandedInv /\ OrderInv

ServersInv == TypeOK /\ UdpInv /\ UnreadInv /\ PipeInv

-----------------------------------------------------------------------------
(* Sequences.                                                               *)

\* What push_back keeps.
Appends(S, s, x) ==
  /\ Append(s, x) \in Seq(S) /\ Ran(Append(s, x)) = Ran(s) \cup {x}
  /\ Distinct(s) /\ x \notin Ran(s) => Distinct(Append(s, x))
  /\ Ordered(s) /\ AllEarlier(Ran(s), {x}) => Ordered(Append(s, x))
  /\ Rising(s) /\ (\A y \in Ran(s) : y < x) => Rising(Append(s, x))

\* push_back.
LEMMA AppendFacts ==
  ASSUME NEW S, NEW s \in Seq(S), NEW x \in S
  PROVE  Appends(S, s, x)
<1> DEFINE t == Append(s, x)
<1>1. /\ t \in Seq(S) /\ Len(s) \in Nat /\ Len(t) = Len(s) + 1 /\ t[Len(s) + 1] = x
      /\ \A i \in 1..Len(s) : t[i] = s[i]
  OBVIOUS
<1> HIDE DEF t
<1>2. \A i \in 1..Len(t) : i \in 1..Len(s) \/ i = Len(s) + 1
  BY <1>1
<1>3. Len(s) + 1 \in 1..Len(t) /\ \A i \in 1..Len(s) : i \in 1..Len(t)
  BY <1>1
<1>4. Ran(t) = Ran(s) \cup {x}
  BY <1>1, <1>2, <1>3 DEF Ran
<1>5. \A i, j \in 1..Len(t) : i < j => i \in 1..Len(s)
  BY <1>1
<1>6. \A i \in 1..Len(s) : s[i] \in Ran(s)
  BY DEF Ran
<1>7. ASSUME Distinct(s), x \notin Ran(s) PROVE Distinct(t)
  BY <1>1, <1>2, <1>5, <1>6, <1>7 DEF Distinct
<1>8. ASSUME Ordered(s), AllEarlier(Ran(s), {x}) PROVE Ordered(t)
  BY <1>1, <1>2, <1>5, <1>6, <1>8 DEF Ordered, AllEarlier
<1>9. ASSUME Rising(s), \A y \in Ran(s) : y < x PROVE Rising(t)
  BY <1>1, <1>2, <1>5, <1>6, <1>9 DEF Rising
<1> QED
  BY <1>1, <1>4, <1>7, <1>8, <1>9 DEF t, Appends

\* pop_front.
LEMMA TailFacts ==
  ASSUME NEW S, NEW s \in Seq(S), s # <<>>
  PROVE  /\ Tail(s) \in Seq(S) /\ Head(s) \in S /\ Ran(s) = Ran(Tail(s)) \cup {Head(s)}
         /\ Distinct(s) => Distinct(Tail(s)) /\ Head(s) \notin Ran(Tail(s))
         /\ Ordered(s) => Ordered(Tail(s)) /\ AllEarlier({Head(s)}, Ran(Tail(s)))
         /\ Rising(s) => Rising(Tail(s)) /\ \A y \in Ran(Tail(s)) : Head(s) < y
<1> DEFINE t == Tail(s)
           h == Head(s)
<1>1. /\ t \in Seq(S) /\ h \in S /\ Len(s) \in Nat /\ Len(s) > 0 /\ Len(t) = Len(s) - 1 /\ h = s[1]
      /\ \A i \in 1..Len(t) : t[i] = s[i + 1]
  OBVIOUS
<1> HIDE DEF t, h
<1>2. \A i \in 1..Len(t) : i + 1 \in 1..Len(s) /\ 1 < i + 1
  BY <1>1
<1>3. 1 \in 1..Len(s) /\ \A i \in 1..Len(s) : i = 1 \/ (i - 1 \in 1..Len(t) /\ (i - 1) + 1 = i)
  BY <1>1
<1>4. Ran(s) = Ran(t) \cup {h}
  <2>1. ASSUME NEW x \in Ran(s) PROVE x \in Ran(t) \cup {h}
    <3>1. PICK i \in 1..Len(s) : x = s[i]
      BY <2>1 DEF Ran
    <3>2. CASE i = 1
      BY <3>1, <3>2, <1>1
    <3>3. CASE i # 1
      <4>1. i - 1 \in 1..Len(t) /\ x = t[i - 1]
        BY <3>1, <3>3, <1>1, <1>3
      <4> QED
        BY <4>1 DEF Ran
    <3> QED
      BY <3>2, <3>3
  <2>2. Ran(t) \subseteq Ran(s)
    BY <1>1, <1>2 DEF Ran
  <2>3. h \in Ran(s)
    BY <1>1, <1>3 DEF Ran
  <2> QED
    BY <2>1, <2>2, <2>3
<1>5. \A i, j \in 1..Len(t) : i < j => i + 1 < j + 1
  BY <1>1
<1>6. \A y \in Ran(t) : \E i \in 1..Len(t) : y = s[i + 1]
  BY <1>1 DEF Ran
<1>7. ASSUME Distinct(s) PROVE Distinct(t) /\ h \notin Ran(t)
  BY <1>1, <1>2, <1>3, <1>5, <1>6, <1>7 DEF Distinct
<1>8. ASSUME Ordered(s) PROVE Ordered(t) /\ AllEarlier({h}, Ran(t))
  <2>1. Ordered(t)
    BY <1>1, <1>2, <1>5, <1>8 DEF Ordered
  <2>2. AllEarlier({h}, Ran(t))
    BY <1>1, <1>2, <1>3, <1>6, <1>8 DEF Ordered, AllEarlier
  <2> QED
    BY <2>1, <2>2
<1>9. ASSUME Rising(s) PROVE Rising(t) /\ \A y \in Ran(t) : h < y
  <2>1. Rising(t)
    BY <1>1, <1>2, <1>5, <1>9 DEF Rising
  <2>2. \A y \in Ran(t) : h < y
    BY <1>1, <1>2, <1>3, <1>6, <1>9 DEF Rising
  <2> QED
    BY <2>1, <2>2
<1> QED
  BY <1>1, <1>4, <1>7, <1>8, <1>9 DEF t, h

\* A datagram is overtaken by the next one.
LEMMA SwapFacts ==
  ASSUME NEW S, NEW s \in Seq(S), Len(s) > 1, Distinct(s)
  PROVE  LET t == <<s[2], s[1]>> \o SubSeq(s, 3, Len(s))
         IN  t \in Seq(S) /\ Ran(t) \subseteq Ran(s) /\ Distinct(t)
<1> DEFINE r == SubSeq(s, 3, Len(s))
           t == <<s[2], s[1]>> \o r
           at(i) == IF i = 1 THEN 2 ELSE IF i = 2 THEN 1 ELSE i
<1>1. Len(s) \in Nat /\ s[1] \in S /\ s[2] \in S
  OBVIOUS
<1>2. r \in Seq(S) /\ Len(r) = Len(s) - 2 /\ \A i \in 1..(Len(s) - 2) : r[i] = s[i + 2]
  <2>1. \A i \in 3..Len(s) : i \in 1..Len(s)
    BY <1>1
  <2>2. r \in Seq(S)
    BY <1>1, <2>1, SubSeqProperties
  <2>3. Len(r) = Len(s) - 2
    <3>1. CASE Len(s) = 2
      BY <3>1
    <3>2. CASE Len(s) > 2
      BY <1>1, <3>2
    <3>3. \A n \in Nat : n > 1 => n = 2 \/ n > 2
      OBVIOUS
    <3>4. Len(s) = 2 \/ Len(s) > 2
      BY <1>1, <3>3, Zenon
    <3> QED
      BY <3>1, <3>2, <3>4
  <2>4. \A i \in 1..(Len(s) - 2) : r[i] = s[i + 2]
    BY <1>1
  <2> QED
    BY <2>2, <2>3, <2>4
<1> HIDE DEF r
<1>3. t \in Seq(S) /\ Len(t) = Len(s)
  BY <1>1, <1>2
<1>4. \A i \in 1..Len(s) : t[i] = s[at(i)] /\ at(i) \in 1..Len(s)
  BY <1>1, <1>2
<1> HIDE DEF t
<1>5. Ran(t) \subseteq Ran(s)
  BY <1>3, <1>4 DEF Ran
<1>6. \A i, j \in 1..Len(s) : i # j => s[i] # s[j]
  BY <1>1 DEF Distinct
<1>7. \A i, j \in 1..Len(s) : i < j => at(i) # at(j)
  BY <1>1
<1> HIDE DEF at
<1>8. Distinct(t)
  BY <1>3, <1>4, <1>6, <1>7 DEF Distinct
<1> QED
  BY <1>3, <1>5, <1>8 DEF t, r

\* A datagram is taken out of its place.
LEMMA RemoveFacts ==
  ASSUME NEW S, NEW s \in Seq(S), NEW i \in 1..Len(s), Distinct(s)
  PROVE  LET t == SubSeq(s, 1, i - 1) \o SubSeq(s, i + 1, Len(s))
         IN  t \in Seq(S) /\ Ran(t) \subseteq Ran(s) /\ s[i] \notin Ran(t) /\ Distinct(t)
             /\ s[i] \in Ran(s)
<1> DEFINE p == SubSeq(s, 1, i - 1)
           r == SubSeq(s, i + 1, Len(s))
           t == p \o r
           at(k) == IF k < i THEN k ELSE k + 1
<1>1. Len(s) \in Nat /\ i \in Nat /\ 1 <= i /\ i <= Len(s)
  OBVIOUS
<1>2. p \in Seq(S) /\ Len(p) = i - 1 /\ \A k \in 1..(i - 1) : p[k] = s[k]
  <2>1. \A k \in 1..(i - 1) : k \in 1..Len(s)
    BY <1>1
  <2>2. i - 1 \in Int /\ p \in Seq(S)
    BY <1>1, <2>1, SubSeqProperties
  <2>3. Len(p) = i - 1 /\ \A k \in 1..(i - 1) : p[k] = s[k]
    BY <1>1
  <2> QED
    BY <2>2, <2>3
<1>3. r \in Seq(S) /\ Len(r) = Len(s) - i /\ \A k \in 1..(Len(s) - i) : r[k] = s[k + i]
  <2>1. \A k \in (i + 1)..Len(s) : k \in 1..Len(s)
    BY <1>1
  <2>2. r \in Seq(S)
    BY <1>1, <2>1, SubSeqProperties
  <2>3. Len(r) = Len(s) - i
    BY <1>1
  <2>4. \A k \in 1..(Len(s) - i) : r[k] = s[k + i]
    BY <1>1
  <2> QED
    BY <2>2, <2>3, <2>4
<1> HIDE DEF p, r
<1>4. t \in Seq(S) /\ Len(t) = Len(s) - 1
  BY <1>1, <1>2, <1>3
<1>5. ASSUME NEW k \in 1..Len(t) PROVE t[k] = s[at(k)] /\ at(k) \in 1..Len(s) /\ at(k) # i
  <2>1. CASE k < i
    BY <1>1, <1>2, <1>3, <1>4, <2>1
  <2>2. CASE k >= i
    <3>1. t[k] = r[k - (i - 1)]
      <4>1. k \in 1..(Len(p) + Len(r)) /\ ~(k <= Len(p))
        BY <1>1, <1>2, <1>3, <1>4, <2>2
      <4>2. (p \o r)[k] = r[k - Len(p)]
        BY <1>2, <1>3, <4>1
      <4> QED
        BY <1>2, <4>2
    <3>2. k - (i - 1) \in 1..(Len(s) - i) /\ (k - (i - 1)) + i = k + 1
      BY <1>1, <1>4, <2>2
    <3>3. at(k) = k + 1
      BY <1>1, <2>2
    <3> QED
      BY <1>1, <1>3, <1>4, <3>1, <3>2, <3>3
  <2> QED
    BY <1>1, <1>4, <2>1, <2>2
<1> HIDE DEF t
<1>6. Ran(t) \subseteq Ran(s)
  BY <1>5 DEF Ran
<1>7. \A j, k \in 1..Len(s) : j # k => s[j] # s[k]
  BY <1>1 DEF Distinct
<1>8. \A j, k \in 1..Len(t) : j < k => at(j) # at(k)
  BY <1>1, <1>4
<1> HIDE DEF at
<1>9. Distinct(t)
  BY <1>5, <1>7, <1>8 DEF Distinct
<1>10. s[i] \notin Ran(t) /\ s[i] \in Ran(s)
  BY <1>5, <1>7 DEF Ran
<1> QED
  BY <1>4, <1>6, <1>9, <1>10 DEF t, p, r

-----------------------------------------------------------------------------
(* Where messages are.                                                      *)

\* A reply is its client and its message.
LEMMA ReplyFacts ==
  ASSUME NEW c \in Clients, NEW m \in Nat
  PROVE  /\ Reply(c, m) \in Replies /\ Reply(c, m).who = c /\ Reply(c, m).msg = m
         /\ \A r \in Replies : r.who \in Clients /\ r.msg \in Nat /\ r.kind = "reply"
         /\ \A r \in Replies : r.who = c /\ r.msg = m => r = Reply(c, m)
  BY DEF Reply, Replies

\* The deployment allows a loop 1.
LEMMA DeploymentFacts ==
  ASSUME dep \in Deployments
  PROVE  /\ dep.workers \in Nat /\ 1 \in Bases /\ Bases \subseteq Nat /\ Workers \subseteq Nat
         /\ dep.udp \in BOOLEAN /\ (dep.udp => Bases = {1} /\ dep.workers # 0)
         /\ dep.workers = 0 => Workers = {}
         /\ dep.workers < 2 => \A v, w \in Workers : v = w
<1>1. DeploymentOK(dep)
  BY ServersAssumption
<1>2. dep.workers \in Nat /\ dep.bases \in Nat \ {0} /\ dep.udp \in BOOLEAN
  BY <1>1 DEF DeploymentOK
<1>3. dep.udp => dep.bases = 1 /\ dep.workers > 0
  BY <1>1 DEF DeploymentOK
<1>4. /\ 1 \in Bases /\ Bases \subseteq Nat /\ Workers \subseteq Nat
      /\ dep.workers = 0 => Workers = {}
  BY <1>2 DEF Bases, Workers
<1>5. dep.bases = 1 => Bases = {1}
  BY DEF Bases
<1>6. dep.workers < 2 => \A v, w \in Workers : v = w
  BY <1>2 DEF Workers
<1>7. dep.workers > 0 => dep.workers # 0
  BY <1>2
<1> QED
  BY <1>2, <1>3, <1>4, <1>5, <1>6, <1>7, Zenon

\* The places are sets of replies.
LEMMA PlaceFacts ==
  ASSUME TypeOK
  PROVE  /\ Queued \subseteq Replies /\ Running \subseteq Replies
         /\ Returned \subseteq Replies /\ Answered \subseteq Replies
         /\ \A c \in Clients, m \in Nat : Reply(c, m) \in Answered <=> m \in Ran(answers[c])
<1>1. \A r \in Seq(Replies) : Ran(r) \subseteq Replies
  BY DEF Ran
<1>2. Queued \subseteq Replies /\ Running \subseteq Replies /\ Returned \subseteq Replies
  BY <1>1 DEF TypeOK, Queued, Returned
<1>3. Answered \subseteq Replies
  BY DEF Answered
<1>4. ASSUME NEW c \in Clients, NEW m \in Nat
      PROVE  Reply(c, m) \in Answered <=> m \in Ran(answers[c])
  BY ReplyFacts DEF Answered
<1> QED
  BY <1>2, <1>3, <1>4

\* Steps that move no message that has been read.
LEMMA PlacesStay ==
  ASSUME UNCHANGED <<dep, jobs, running, answers>>, tasks'[1] = tasks[1]
  PROVE  Queued' = Queued /\ Running' = Running /\ Returned' = Returned /\ Answered' = Answered
<1>1. Queued' = Queued
  BY DEF Queued, Ran
<1>2. Returned' = Returned
  BY DEF Returned, Ran
<1>3. Running' = Running
  BY DEF Running, Workers
<1>4. Answered' = Answered
  BY DEF Answered, Ran
<1> QED
  BY <1>1, <1>2, <1>3, <1>4

\* An answer is written.
LEMMA AnswerFacts ==
  ASSUME TypeOK, NEW c \in Clients, NEW m \in Nat,
         answers' = [answers EXCEPT ![c] = Append(@, m)]
  PROVE  /\ answers' \in [Clients -> Seq(Nat)]
         /\ Answered' = Answered \cup {Reply(c, m)}
         /\ Ran(answers'[c]) = Ran(answers[c]) \cup {m}
         /\ \A d \in Clients : Ran(answers[d]) \subseteq Ran(answers'[d])
         /\ (\A d \in Clients : Distinct(answers[d])) /\ Reply(c, m) \notin Answered
              => \A d \in Clients : Distinct(answers'[d])
         /\ (\A d \in Clients : Rising(answers[d])) /\ AllEarlier(Answered, {Reply(c, m)})
              => \A d \in Clients : Rising(answers'[d])
<1>1. answers \in [Clients -> Seq(Nat)]
  BY DEF TypeOK
<1>2. answers'[c] = Append(answers[c], m) /\ \A d \in Clients \ {c} : answers'[d] = answers[d]
  BY <1>1
<1>3. /\ Append(answers[c], m) \in Seq(Nat)
      /\ Ran(Append(answers[c], m)) = Ran(answers[c]) \cup {m}
      /\ Distinct(answers[c]) /\ m \notin Ran(answers[c]) => Distinct(Append(answers[c], m))
      /\ Rising(answers[c]) /\ (\A y \in Ran(answers[c]) : y < m) => Rising(Append(answers[c], m))
  <2>1. answers[c] \in Seq(Nat)
    BY <1>1
  <2>2. Appends(Nat, answers[c], m)
    BY <2>1, AppendFacts
  <2> QED
    BY <2>2 DEF Appends
<1>4. answers' \in [Clients -> Seq(Nat)]
  BY <1>1, <1>3
<1>5. /\ Ran(answers'[c]) = Ran(answers[c]) \cup {m}
      /\ \A d \in Clients \ {c} : Ran(answers'[d]) = Ran(answers[d])
  <2>1. Ran(answers'[c]) = Ran(answers[c]) \cup {m}
    BY <1>2, <1>3
  <2>2. ASSUME NEW d \in Clients \ {c} PROVE Ran(answers'[d]) = Ran(answers[d])
    BY <1>2, Zenon DEF Ran
  <2> QED
    BY <2>1, <2>2
<1>6. Answered' = Answered \cup {Reply(c, m)}
  <2>1. \A r \in Replies : r \in Answered' <=> r.msg \in Ran(answers'[r.who])
    BY DEF Answered
  <2>2. \A r \in Replies : r \in Answered <=> r.msg \in Ran(answers[r.who])
    BY DEF Answered
  <2>3. Answered' \subseteq Replies /\ Answered \subseteq Replies
    BY DEF Answered
  <2>4. ASSUME NEW r \in Replies PROVE r \in Answered' <=> r \in Answered \cup {Reply(c, m)}
    <3>1. /\ r.who \in Clients /\ r.msg \in Nat /\ (r.who = c /\ r.msg = m => r = Reply(c, m))
          /\ Reply(c, m).who = c /\ Reply(c, m).msg = m
      BY ReplyFacts
    <3>2. CASE r.who = c
      <4>1. r.msg \in Ran(answers'[c]) <=> r.msg \in Ran(answers[c]) \cup {m}
        BY <1>5
      <4> QED
        BY <2>1, <2>2, <3>1, <3>2, <4>1
    <3>3. CASE r.who # c
      <4>1. Ran(answers'[r.who]) = Ran(answers[r.who])
        BY <1>5, <3>1, <3>3
      <4> QED
        BY <2>1, <2>2, <3>1, <3>3, <4>1
    <3> QED
      BY <3>2, <3>3
  <2>5. Reply(c, m) \in Replies
    BY ReplyFacts
  <2> QED
    BY <2>3, <2>4, <2>5
<1>7. m \in Ran(answers[c]) => Reply(c, m) \in Answered
  BY PlaceFacts
<1>8. AllEarlier(Answered, {Reply(c, m)}) => \A y \in Ran(answers[c]) : y < m
  <2>1. SUFFICES ASSUME AllEarlier(Answered, {Reply(c, m)}), NEW y \in Ran(answers[c]) PROVE y < m
    OBVIOUS
  <2>2. y \in Nat
    BY <1>1 DEF Ran
  <2>3. Reply(c, y) \in Answered
    BY <2>2, PlaceFacts
  <2>4. Earlier(Reply(c, y), Reply(c, m))
    BY <2>1, <2>3 DEF AllEarlier
  <2> QED
    BY <2>2, <2>4 DEF Earlier, Reply
<1>9. (\A d \in Clients : Distinct(answers[d])) /\ Reply(c, m) \notin Answered
              => \A d \in Clients : Distinct(answers'[d])
  BY <1>2, <1>3, <1>7
<1>10. (\A d \in Clients : Rising(answers[d])) /\ AllEarlier(Answered, {Reply(c, m)})
              => \A d \in Clients : Rising(answers'[d])
  BY <1>2, <1>3, <1>8
<1> QED
  BY <1>4, <1>5, <1>6, <1>9, <1>10

-----------------------------------------------------------------------------
(* Connections, clients and what is unread.                                 *)

\* Nothing happens on the way to the UDP clients.
LEMMA HandedStays ==
  ASSUME HandedInv, back' = back, handed' = handed,
         \A c \in Clients : Ran(answers[c]) \subseteq Ran(answers'[c])
  PROVE  HandedInv'
<1>1. \A c \in Clients :
         /\ Distinct(back'[c]) /\ Distinct(handed'[c])
         /\ Ran(back'[c]) \cap Ran(handed'[c]) = {}
         /\ Ran(back'[c]) \cup Ran(handed'[c]) \subseteq Ran(answers'[c])
  BY DEF HandedInv
<1> QED
  BY <1>1, Zenon DEF HandedInv, Distinct, Ran

\* Steps that move no message that has been read keep all of them in place.
LEMMA PipeStays ==
  ASSUME PipeInv, UNCHANGED <<dep, jobs, running, read, answers, back, handed>>,
         tasks'[1] = tasks[1]
  PROVE  PipeInv'
<1>1. Queued' = Queued /\ Running' = Running /\ Returned' = Returned /\ Answered' = Answered
  BY PlacesStay
<1>2. WayInv'
  BY <1>1 DEF PipeInv, WayInv
<1>3. OnceInv'
  BY <1>1 DEF PipeInv, OnceInv, Workers, Distinct
<1>4. PlainInv'
  BY DEF PipeInv, PlainInv
<1>5. HandedInv'
  BY HandedStays DEF PipeInv
<1>6. OrderInv'
  BY <1>1 DEF PipeInv, OrderInv, OneAtATime, Rising, Ordered
<1> QED
  BY <1>2, <1>3, <1>4, <1>5, <1>6 DEF PipeInv

\* Steps that read and send nothing keep the sockets as they are.
LEMMA UnreadStays ==
  ASSUME UnreadInv, UNCHANGED <<dep, inbox, asked, read>>
  PROVE  UnreadInv'
  BY DEF UnreadInv, OneAtATime, Distinct, Rising, Ran

\* handleAccept, the task it leaves to another loop, and steps that only change
\* what this proof does not follow.
LEMMA PlacingStep ==
  ASSUME ServersInv,
         UNCHANGED <<dep, inbox, asked, jobs, running, read, answers>>,
         back' = back, handed' = handed,
         tasks'[1] = tasks[1], DOMAIN tasks' = Bases,
         \A b \in Bases \ {1} : tasks'[b] \in Seq(Adds),
         backlog' \in Seq(Clients), place' \in [Clients -> Places],
         dep.udp => backlog' = backlog /\ place' = place
  PROVE  ServersInv'
<1>1. PipeInv' /\ UnreadInv'
  BY PipeStays, UnreadStays DEF ServersInv
<1>2. UdpInv'
  BY DEF ServersInv, UdpInv
<1>3. Running' = Running /\ Bases' = Bases /\ Workers' = Workers
  BY PlacesStay DEF Bases, Workers
<1>4. TypeOK'
  BY <1>3 DEF ServersInv, TypeOK
<1> QED
  BY <1>1, <1>2, <1>4 DEF ServersInv

\* One socket's content changes: a message is sent, lost or overtaken, or the
\* connection is closed.
LEMMA SocketStep ==
  ASSUME ServersInv, NEW c \in Clients, NEW q \in Seq(Nat),
         UNCHANGED <<dep, backlog, tasks, jobs, running, read, answers>>,
         back' = back, handed' = handed,
         inbox' = [inbox EXCEPT ![c] = q],
         asked' \in [Clients -> Nat], \A d \in Clients : asked[d] <= asked'[d],
         place' \in [Clients -> Places],
         dep.udp => place' = place /\ (place[c] # "open" => q = <<>>),
         Distinct(q), \A m \in Ran(q) : m <= asked'[c] /\ <<c, m>> \notin read,
         OneAtATime => Rising(q) /\ \A m \in Nat, x \in Ran(q) : <<c, m>> \in read => m < x
  PROVE  ServersInv'
<1>1. PipeInv'
  BY PipeStays DEF ServersInv
<1>2. inbox \in [Clients -> Seq(Nat)] /\ asked \in [Clients -> Nat]
  BY DEF ServersInv, TypeOK
<1>3. inbox'[c] = q /\ (\A d \in Clients \ {c} : inbox'[d] = inbox[d]) /\ inbox' \in [Clients -> Seq(Nat)]
  BY <1>2
<1>4. OneAtATime' = OneAtATime
  BY DEF OneAtATime
<1>5. UnreadInv'
  <2>1. SUFFICES ASSUME NEW d \in Clients
                 PROVE  /\ Distinct(inbox'[d])
                        /\ \A m \in Ran(inbox'[d]) : m <= asked'[d] /\ <<d, m>> \notin read
                        /\ \A m \in Nat : <<d, m>> \in read => m <= asked'[d]
                        /\ OneAtATime =>
                             /\ Rising(inbox'[d])
                             /\ \A m \in Nat, x \in Ran(inbox'[d]) : <<d, m>> \in read => m < x
    BY <1>4, Zenon DEF UnreadInv, Distinct, Rising, Ran
  <2>2. \A m \in Nat : <<d, m>> \in read => m <= asked'[d]
    BY <1>2 DEF ServersInv, UnreadInv
  <2>3. CASE d = c
    BY <1>3, <2>2, <2>3, Zenon
  <2>4. CASE d # c
    <3>1. inbox'[d] = inbox[d] /\ asked[d] <= asked'[d] /\ asked[d] \in Nat /\ asked'[d] \in Nat
      BY <1>2, <1>3, <2>4
    <3>2. /\ Distinct(inbox[d])
          /\ \A m \in Ran(inbox[d]) : m <= asked[d] /\ <<d, m>> \notin read
          /\ OneAtATime =>
               /\ Rising(inbox[d])
               /\ \A m \in Nat, x \in Ran(inbox[d]) : <<d, m>> \in read => m < x
      BY DEF ServersInv, UnreadInv
    <3>3. Ran(inbox[d]) \subseteq Nat
      BY <1>2 DEF Ran
    <3>4. ASSUME NEW m \in Ran(inbox[d]) PROVE m <= asked'[d]
      <4>1. m \in Nat /\ m <= asked[d]
        BY <3>2, <3>3
      <4> QED
        BY <3>1, <4>1
    <3> QED
      BY <2>2, <3>1, <3>2, <3>4, Zenon
  <2> QED
    BY <2>3, <2>4
<1>6. UdpInv'
  BY <1>3 DEF ServersInv, UdpInv
<1>7. Running' = Running /\ Bases' = Bases /\ Workers' = Workers
  BY PlacesStay DEF Bases, Workers
<1>8. TypeOK'
  BY <1>3, <1>7 DEF ServersInv, TypeOK
<1> QED
  BY <1>1, <1>5, <1>6, <1>8 DEF ServersInv

-----------------------------------------------------------------------------
(* A message is read.                                                       *)

\* The oldest message of a socket is read: it is new to everything after the
\* socket, and where order is kept it comes after what was read before it.
LEMMA ReadFacts ==
  ASSUME ServersInv, NEW c \in Clients, inbox[c] # <<>>,
         inbox' = [inbox EXCEPT ![c] = Tail(@)],
         read' = read \cup {<<c, Head(inbox[c])>>},
         UNCHANGED <<dep, asked, place, backlog>>
  PROVE  /\ Head(inbox[c]) \in Nat /\ inbox' \in [Clients -> Seq(Nat)] /\ read' \subseteq Clients \X Nat
         /\ UnreadInv' /\ UdpInv'
         /\ LET r == Reply(c, Head(inbox[c]))
                on == Queued \cup Running \cup Returned \cup Answered
            IN  /\ r \in Replies /\ r \notin on /\ <<r.who, r.msg>> \in read'
                /\ OneAtATime => AllEarlier(on, {r})
<1> DEFINE m == Head(inbox[c])
           q == Tail(inbox[c])
           on == Queued \cup Running \cup Returned \cup Answered
<1>1. inbox \in [Clients -> Seq(Nat)] /\ asked \in [Clients -> Nat] /\ read \subseteq Clients \X Nat
  BY DEF ServersInv, TypeOK
<1>2. /\ inbox[c] \in Seq(Nat) /\ Distinct(inbox[c])
      /\ \A x \in Ran(inbox[c]) : x <= asked[c] /\ <<c, x>> \notin read
      /\ OneAtATime =>
           /\ Rising(inbox[c])
           /\ \A k \in Nat, x \in Ran(inbox[c]) : <<c, k>> \in read => k < x
  BY <1>1 DEF ServersInv, UnreadInv
<1>3. /\ q \in Seq(Nat) /\ m \in Nat /\ Ran(inbox[c]) = Ran(q) \cup {m}
      /\ Distinct(q) /\ m \notin Ran(q)
      /\ Rising(inbox[c]) => Rising(q) /\ \A y \in Ran(q) : m < y
  BY <1>2, TailFacts
<1>4. inbox'[c] = q /\ (\A d \in Clients \ {c} : inbox'[d] = inbox[d]) /\ inbox' \in [Clients -> Seq(Nat)]
  BY <1>1, <1>3
<1>5. <<c, m>> \notin read /\ m <= asked[c] /\ read' = read \cup {<<c, m>>}
  BY <1>2, <1>3
<1> HIDE DEF m, q
<1>6. OneAtATime' = OneAtATime /\ asked' = asked
  BY DEF OneAtATime
<1>7. UnreadInv'
  <2>1. SUFFICES ASSUME NEW d \in Clients
                 PROVE  /\ Distinct(inbox'[d])
                        /\ \A k \in Ran(inbox'[d]) : k <= asked[d] /\ <<d, k>> \notin read'
                        /\ \A k \in Nat : <<d, k>> \in read' => k <= asked[d]
                        /\ OneAtATime =>
                             /\ Rising(inbox'[d])
                             /\ \A k \in Nat, x \in Ran(inbox'[d]) : <<d, k>> \in read' => k < x
    BY <1>6, Zenon DEF UnreadInv, Distinct, Rising, Ran
  <2>2. /\ Distinct(inbox[d])
        /\ \A k \in Ran(inbox[d]) : k <= asked[d] /\ <<d, k>> \notin read
        /\ \A k \in Nat : <<d, k>> \in read => k <= asked[d]
        /\ OneAtATime =>
             /\ Rising(inbox[d])
             /\ \A k \in Nat, x \in Ran(inbox[d]) : <<d, k>> \in read => k < x
    BY DEF ServersInv, UnreadInv
  <2>3. CASE d = c
    <3>1. \A k \in Nat : <<c, k>> \in read' <=> <<c, k>> \in read \/ k = m
      BY <1>5
    <3>2. inbox'[d] = q /\ Ran(q) \subseteq Ran(inbox[c])
      BY <1>3, <1>4, <2>3
    <3>3. Ran(q) \subseteq Nat
      BY <1>3 DEF Ran
    <3>4. \A k \in Ran(q) : k <= asked[d] /\ <<d, k>> \notin read'
      BY <1>2, <1>3, <2>3, <3>1, <3>2, <3>3
    <3>5. \A k \in Nat : <<d, k>> \in read' => k <= asked[d]
      BY <1>5, <2>2, <2>3, <3>1
    <3>6. OneAtATime => Rising(q) /\ \A k \in Nat, x \in Ran(q) : <<d, k>> \in read' => k < x
      BY <1>2, <1>3, <2>2, <2>3, <3>1, <3>2
    <3> QED
      BY <1>3, <3>2, <3>4, <3>5, <3>6
  <2>4. CASE d # c
    <3>1. \A k : <<d, k>> \in read' <=> <<d, k>> \in read
      BY <1>5, <2>4
    <3>2. inbox'[d] = inbox[d]
      BY <1>4, <2>4
    <3> QED
      BY <2>2, <3>1, <3>2
  <2> QED
    BY <2>3, <2>4
<1>8. UdpInv'
  <2>1. SUFFICES ASSUME dep.udp, NEW d \in Clients, place[d] # "open"
                 PROVE  d \notin dep.clients /\ inbox'[d] = <<>> /\ \A k \in Nat : <<d, k>> \notin read'
    BY DEF ServersInv, UdpInv
  <2>2. d \notin dep.clients /\ inbox[d] = <<>> /\ \A k \in Nat : <<d, k>> \notin read
    BY <2>1 DEF ServersInv, UdpInv
  <2>3. d # c
    BY <2>2
  <2> QED
    BY <1>4, <1>5, <2>2, <2>3
<1>9. Reply(c, m) \in Replies /\ Reply(c, m).who = c /\ Reply(c, m).msg = m
  BY <1>3, ReplyFacts
<1>10. \A r \in on : r \in Replies /\ r.msg \in Nat /\ <<r.who, r.msg>> \in read
  BY PlaceFacts DEF ServersInv, PipeInv, WayInv, Replies
<1>11. Reply(c, m) \notin on
  BY <1>5, <1>9, <1>10
<1>12. OneAtATime => AllEarlier(on, {Reply(c, m)})
  BY <1>2, <1>3, <1>9, <1>10 DEF AllEarlier, Earlier
<1>13. read' \subseteq Clients \X Nat
  BY <1>1, <1>3, <1>5
<1>14. <<Reply(c, m).who, Reply(c, m).msg>> \in read'
  BY <1>5, <1>9
<1> QED
  BY <1>3, <1>4, <1>7, <1>8, <1>9, <1>11, <1>12, <1>13, <1>14 DEF m

\* HSHA and HSHAU give the message they have read to the pool.
LEMMA PoolStep ==
  ASSUME ServersInv, NEW c \in Clients, inbox[c] # <<>>, dep.workers # 0,
         inbox' = [inbox EXCEPT ![c] = Tail(@)],
         read' = read \cup {<<c, Head(inbox[c])>>},
         AddTask(Reply(c, Head(inbox[c]))),
         UNCHANGED <<dep, asked, place, backlog, tasks, running, answers, back, handed>>
  PROVE  ServersInv'
<1> DEFINE r == Reply(c, Head(inbox[c]))
<1>1. /\ inbox' \in [Clients -> Seq(Nat)] /\ read' \subseteq Clients \X Nat
      /\ UnreadInv' /\ UdpInv'
      /\ r \in Replies /\ r \notin Queued \cup Running \cup Returned \cup Answered
      /\ <<r.who, r.msg>> \in read'
      /\ OneAtATime => AllEarlier(Queued \cup Running \cup Returned \cup Answered, {r})
  BY ReadFacts
<1>2. jobs' = jobs \/ jobs' = Append(jobs, r)
  BY DEF AddTask
<1> HIDE DEF r
<1>3. Running' = Running /\ Returned' = Returned /\ Answered' = Answered /\ Workers' = Workers /\ Bases' = Bases
  BY DEF Running, Returned, Answered, Workers, Bases, Ran
<1>4. /\ jobs \in Seq(Replies) /\ Distinct(jobs)
      /\ OneAtATime => Ordered(jobs)
  BY DEF ServersInv, TypeOK, PipeInv, OnceInv, OrderInv
<1>5. OneAtATime' = OneAtATime
  BY DEF OneAtATime
<1>6. /\ jobs' \in Seq(Replies) /\ Distinct(jobs') /\ Queued \subseteq Queued'
      /\ Queued' \subseteq Queued \cup {r} /\ (OneAtATime => Ordered(jobs'))
  <2>1. CASE jobs' = jobs
    BY <1>4, <2>1 DEF Queued
  <2>2. CASE jobs' = Append(jobs, r)
    <3>1. OneAtATime => AllEarlier(Ran(jobs), {r})
      BY <1>1 DEF AllEarlier, Queued
    <3>2. r \notin Ran(jobs)
      BY <1>1 DEF Queued
    <3>3. /\ Append(jobs, r) \in Seq(Replies) /\ Ran(Append(jobs, r)) = Ran(jobs) \cup {r}
          /\ Distinct(Append(jobs, r)) /\ (OneAtATime => Ordered(Append(jobs, r)))
      <4>1. Appends(Replies, jobs, r)
        BY <1>1, <1>4, AppendFacts
      <4> QED
        BY <1>1, <1>4, <3>1, <3>2, <4>1 DEF Appends
    <3>4. Queued' = Queued \cup {r}
      BY <2>2, <3>3 DEF Queued
    <3> QED
      BY <2>2, <3>3, <3>4
  <2> QED
    BY <1>2, <2>1, <2>2
<1>7. WayInv'
  BY <1>1, <1>3, <1>6 DEF ServersInv, PipeInv, WayInv
<1>8. OnceInv'
  <2>1. OnceInv
    BY DEF ServersInv, PipeInv
  <2>2. Distinct(tasks'[1]) /\ \A d \in Clients : Distinct(answers'[d])
    BY <2>1 DEF OnceInv
  <2>3. \A v, w \in Workers' : running'[v] = running'[w] /\ running'[v] # NoJob => v = w
    BY <1>3, <2>1 DEF OnceInv
  <2>4. Queued' \cap Running = {} /\ Queued' \cap Returned = {} /\ Queued' \cap Answered = {}
    BY <1>1, <1>6, <2>1 DEF OnceInv
  <2>5. Running \cap Returned = {} /\ Running \cap Answered = {} /\ Returned \cap Answered = {}
    BY <2>1 DEF OnceInv
  <2> QED
    BY <1>3, <1>6, <2>2, <2>3, <2>4, <2>5 DEF OnceInv, Distinct
<1>9. PlainInv'
  BY DEF PlainInv
<1>10. HandedInv'
  BY HandedStays DEF ServersInv, PipeInv
<1>11. OrderInv'
  <2>1. SUFFICES ASSUME OneAtATime
                 PROVE  /\ \A d \in Clients : Rising(answers'[d])
                        /\ Ordered(jobs') /\ Ordered(tasks'[1])
                        /\ AllEarlier(Running, Queued') /\ AllEarlier(Returned, Queued')
                        /\ AllEarlier(Answered, Queued')
                        /\ AllEarlier(Returned, Running) /\ AllEarlier(Answered, Running)
                        /\ AllEarlier(Answered, Returned)
    BY <1>3, <1>5, Zenon DEF OrderInv, Rising, Ordered, AllEarlier
  <2>2. OrderInv
    BY DEF ServersInv, PipeInv
  <2>3. AllEarlier(Running, Queued') /\ AllEarlier(Returned, Queued') /\ AllEarlier(Answered, Queued')
    BY <1>1, <1>6, <2>1, <2>2 DEF AllEarlier, OrderInv
  <2> QED
    BY <1>6, <2>1, <2>2, <2>3 DEF OrderInv
<1>12. TypeOK'
  BY <1>1, <1>3, <1>6 DEF ServersInv, TypeOK
<1> QED
  BY <1>1, <1>7, <1>8, <1>9, <1>10, <1>11, <1>12 DEF ServersInv, PipeInv

\* A server without a pool answers on the spot: there is nobody between.
LEMMA PlainStep ==
  ASSUME ServersInv, NEW c \in Clients, inbox[c] # <<>>, dep.workers = 0,
         inbox' = [inbox EXCEPT ![c] = Tail(@)],
         read' = read \cup {<<c, Head(inbox[c])>>},
         answers' = [answers EXCEPT ![c] = Append(@, Head(inbox[c]))],
         UNCHANGED <<dep, asked, place, backlog, tasks, jobs, running, back, handed>>
  PROVE  ServersInv'
<1> DEFINE m == Head(inbox[c])
           r == Reply(c, m)
<1>1. /\ m \in Nat /\ inbox' \in [Clients -> Seq(Nat)] /\ read' \subseteq Clients \X Nat
      /\ UnreadInv' /\ UdpInv'
      /\ r \in Replies /\ r \notin Queued \cup Running \cup Returned \cup Answered
      /\ <<r.who, r.msg>> \in read'
      /\ OneAtATime => AllEarlier(Queued \cup Running \cup Returned \cup Answered, {r})
  BY ReadFacts
<1>2. Queued' = Queued /\ Running' = Running /\ Returned' = Returned /\ Workers' = Workers /\ Bases' = Bases
  BY DEF Queued, Running, Returned, Workers, Bases, Ran
<1>3. Queued = {} /\ Running = {} /\ Returned = {}
  <2>1. Workers = {} /\ jobs = <<>> /\ tasks[1] = <<>>
    BY DeploymentFacts DEF ServersInv, TypeOK, PipeInv, PlainInv
  <2> QED
    BY <2>1 DEF Queued, Running, Returned, Ran
<1>4. answers' = [answers EXCEPT ![c] = Append(@, m)]
  OBVIOUS
<1> HIDE DEF m, r
<1>5. /\ answers' \in [Clients -> Seq(Nat)] /\ Answered' = Answered \cup {r}
      /\ \A d \in Clients : Ran(answers[d]) \subseteq Ran(answers'[d])
      /\ (\A d \in Clients : Distinct(answers[d])) /\ r \notin Answered
              => \A d \in Clients : Distinct(answers'[d])
      /\ (\A d \in Clients : Rising(answers[d])) /\ AllEarlier(Answered, {r})
              => \A d \in Clients : Rising(answers'[d])
  BY <1>1, <1>4, AnswerFacts DEF ServersInv, r
<1>6. WayInv'
  BY <1>1, <1>2, <1>5 DEF ServersInv, PipeInv, WayInv
<1>7. OnceInv'
  <2>1. OnceInv
    BY DEF ServersInv, PipeInv
  <2>2. \A d \in Clients : Distinct(answers'[d])
    BY <1>1, <1>5, <2>1 DEF OnceInv
  <2> QED
    BY <1>2, <1>3, <2>1, <2>2 DEF OnceInv, Distinct
<1>8. PlainInv'
  BY DEF ServersInv, PipeInv, PlainInv
<1>9. HandedInv'
  BY <1>5, HandedStays DEF ServersInv, PipeInv
<1>10. OrderInv'
  <2>1. SUFFICES ASSUME OneAtATime
                 PROVE  (\A d \in Clients : Rising(answers'[d])) /\ Ordered(jobs) /\ Ordered(tasks[1])
    BY <1>2, <1>3 DEF OrderInv, OneAtATime, AllEarlier, Ordered
  <2>2. AllEarlier(Answered, {r})
    BY <1>1, <2>1 DEF AllEarlier
  <2> QED
    BY <1>5, <2>1, <2>2 DEF ServersInv, PipeInv, OrderInv
<1>11. TypeOK'
  BY <1>1, <1>2, <1>5 DEF ServersInv, TypeOK
<1> QED
  BY <1>1, <1>6, <1>7, <1>8, <1>9, <1>10, <1>11 DEF ServersInv, PipeInv

-----------------------------------------------------------------------------
(* The pool and the loop's tasks.                                           *)

\* A pool thread takes the oldest job: with one thread none is being run.
LEMMA BeginStep ==
  ASSUME ServersInv, NEW w \in Workers, Begin(w)
  PROVE  ServersInv'
<1> DEFINE h == Head(jobs)
<1>1. /\ jobs # <<>> /\ running[w] = NoJob /\ running' = [running EXCEPT ![w] = h] /\ jobs' = Tail(jobs)
      /\ UNCHANGED <<dep, inbox, asked, place, backlog, tasks, read, answers, back, handed>>
  BY DEF Begin, conns, loops, peers
<1>2. /\ jobs \in Seq(Replies) /\ DOMAIN running = Workers /\ Running \subseteq Replies
      /\ OnceInv /\ OrderInv /\ dep \in Deployments
  BY DEF ServersInv, TypeOK, PipeInv
<1>3. /\ jobs' \in Seq(Replies) /\ h \in Replies /\ Queued = Queued' \cup {h}
      /\ Distinct(jobs') /\ h \notin Queued'
      /\ Ordered(jobs) => Ordered(jobs') /\ AllEarlier({h}, Queued')
  BY <1>1, <1>2, TailFacts DEF Queued, OnceInv
<1> HIDE DEF h
<1>4. Returned' = Returned /\ Answered' = Answered /\ Workers' = Workers /\ Bases' = Bases
  BY <1>1 DEF Returned, Answered, Workers, Bases, Ran
<1>5. running'[w] = h /\ (\A v \in Workers \ {w} : running'[v] = running[v]) /\ DOMAIN running' = Workers
  BY <1>1, <1>2
<1>6. Running' \subseteq Running \cup {h}
  BY <1>4, <1>5 DEF Running
<1>7. UnreadInv' /\ UdpInv'
  BY <1>1, UnreadStays DEF ServersInv, UdpInv
<1>8. WayInv'
  BY <1>1, <1>3, <1>4, <1>6 DEF ServersInv, PipeInv, WayInv
<1>9. OnceInv'
  <2>1. \A v \in Workers : running[v] # NoJob => running[v] \in Running
    BY DEF Running
  <2>2. ASSUME NEW u \in Workers, NEW v \in Workers, running'[u] = running'[v], running'[u] # NoJob
        PROVE  u = v
    BY <1>2, <1>3, <1>5, <2>1, <2>2 DEF OnceInv
  <2>3. Distinct(tasks'[1]) /\ \A d \in Clients : Distinct(answers'[d])
    BY <1>1, <1>2 DEF OnceInv
  <2>4. /\ Queued' \cap Running' = {} /\ Queued' \cap Returned = {} /\ Queued' \cap Answered = {}
        /\ Running' \cap Returned = {} /\ Running' \cap Answered = {} /\ Returned \cap Answered = {}
    BY <1>2, <1>3, <1>6 DEF OnceInv
  <2> QED
    BY <1>3, <1>4, <2>2, <2>3, <2>4 DEF OnceInv
<1>10. PlainInv'
  BY <1>1, <1>2, DeploymentFacts DEF PlainInv
<1>11. HandedInv'
  BY <1>1, HandedStays DEF ServersInv, PipeInv
<1>12. OrderInv'
  <2>1. SUFFICES ASSUME OneAtATime
                 PROVE  /\ \A d \in Clients : Rising(answers'[d])
                        /\ Ordered(jobs') /\ Ordered(tasks'[1])
                        /\ AllEarlier(Running', Queued') /\ AllEarlier(Returned, Queued')
                        /\ AllEarlier(Answered, Queued')
                        /\ AllEarlier(Returned, Running') /\ AllEarlier(Answered, Running')
                        /\ AllEarlier(Answered, Returned)
    BY <1>1, <1>4, Zenon DEF OrderInv, Rising, Ordered, AllEarlier, OneAtATime
  <2>2. Running' \subseteq {h}
    <3>1. \A v \in Workers : v = w
      BY <1>2, <2>1, DeploymentFacts DEF OneAtATime
    <3> QED
      BY <1>4, <1>5, <3>1 DEF Running
  <2>3. (\A d \in Clients : Rising(answers'[d])) /\ Ordered(jobs') /\ Ordered(tasks'[1])
    BY <1>1, <1>2, <1>3, <2>1 DEF OrderInv
  <2>4. AllEarlier(Returned, Queued) /\ AllEarlier(Answered, Queued) /\ AllEarlier(Answered, Returned)
    BY <1>2, <2>1 DEF OrderInv
  <2>5. AllEarlier({h}, Queued')
    BY <1>2, <1>3, <2>1 DEF OrderInv
  <2> QED
    BY <1>3, <2>2, <2>3, <2>4, <2>5 DEF AllEarlier
<1>13. TypeOK'
  BY <1>1, <1>2, <1>3, <1>4, <1>5, <1>6 DEF ServersInv, TypeOK
<1> QED
  BY <1>7, <1>8, <1>9, <1>10, <1>11, <1>12, <1>13 DEF ServersInv, PipeInv

\* A pool thread gives its answer to the loop, behind every earlier one.
LEMMA FinishStep ==
  ASSUME ServersInv, NEW w \in Workers, Finish(w)
  PROVE  ServersInv'
<1> DEFINE r == running[w]
<1>1. /\ r # NoJob /\ running' = [running EXCEPT ![w] = NoJob]
      /\ tasks' = [tasks EXCEPT ![1] = Append(@, r)]
      /\ UNCHANGED <<dep, inbox, asked, place, backlog, jobs, read, answers, back, handed>>
  BY DEF Finish, conns, peers
<1>2. /\ DOMAIN running = Workers /\ Running \subseteq Replies
      /\ DOMAIN tasks = Bases /\ tasks[1] \in Seq(Replies)
      /\ OnceInv /\ OrderInv /\ dep \in Deployments
  BY DEF ServersInv, TypeOK, PipeInv
<1>3. r \in Running /\ r \in Replies
  BY <1>1, <1>2 DEF Running
<1>4. r \notin Queued /\ r \notin Returned /\ r \notin Answered
  BY <1>2, <1>3 DEF OnceInv
<1>5. 1 \in Bases
  BY <1>2, DeploymentFacts
<1>6. /\ tasks'[1] = Append(tasks[1], r) /\ DOMAIN tasks' = Bases
      /\ \A b \in Bases \ {1} : tasks'[b] = tasks[b]
  BY <1>1, <1>2, <1>5
<1>7. running'[w] = NoJob /\ (\A v \in Workers \ {w} : running'[v] = running[v]) /\ DOMAIN running' = Workers
  BY <1>1, <1>2
<1>8. \A v \in Workers : running[v] = r => v = w
  BY <1>1, <1>2 DEF OnceInv
<1> HIDE DEF r
<1>9. Queued' = Queued /\ Answered' = Answered /\ Workers' = Workers /\ Bases' = Bases
  BY <1>1 DEF Queued, Answered, Workers, Bases, Ran
<1>10. Running' \subseteq Running /\ r \notin Running'
  BY <1>1, <1>7, <1>8, <1>9 DEF Running
<1>11. /\ tasks'[1] \in Seq(Replies) /\ Returned' = Returned \cup {r} /\ Distinct(tasks'[1])
       /\ Ordered(tasks[1]) /\ AllEarlier(Returned, {r}) => Ordered(tasks'[1])
  <2>1. /\ Append(tasks[1], r) \in Seq(Replies) /\ Ran(Append(tasks[1], r)) = Ran(tasks[1]) \cup {r}
        /\ Distinct(tasks[1]) /\ r \notin Ran(tasks[1]) => Distinct(Append(tasks[1], r))
        /\ Ordered(tasks[1]) /\ AllEarlier(Ran(tasks[1]), {r}) => Ordered(Append(tasks[1], r))
    <3>1. Appends(Replies, tasks[1], r)
      BY <1>2, <1>3, AppendFacts
    <3> QED
      BY <3>1 DEF Appends
  <2> QED
    BY <1>2, <1>4, <1>6, <2>1 DEF Returned, OnceInv
<1>12. UnreadInv' /\ UdpInv'
  BY <1>1, UnreadStays DEF ServersInv, UdpInv
<1>13. WayInv'
  BY <1>1, <1>3, <1>9, <1>10, <1>11 DEF ServersInv, PipeInv, WayInv
<1>14. OnceInv'
  <2>1. ASSUME NEW u \in Workers, NEW v \in Workers, running'[u] = running'[v], running'[u] # NoJob
        PROVE  u = v
    BY <1>2, <1>7, <2>1 DEF OnceInv
  <2>2. Distinct(jobs') /\ \A d \in Clients : Distinct(answers'[d])
    BY <1>1, <1>2 DEF OnceInv
  <2>3. /\ Queued \cap Running' = {} /\ Queued \cap Returned' = {} /\ Queued \cap Answered = {}
        /\ Running' \cap Returned' = {} /\ Running' \cap Answered = {} /\ Returned' \cap Answered = {}
    BY <1>2, <1>4, <1>10, <1>11 DEF OnceInv
  <2> QED
    BY <1>9, <1>11, <2>1, <2>2, <2>3 DEF OnceInv
<1>15. PlainInv'
  BY <1>1, <1>2, DeploymentFacts DEF PlainInv
<1>16. HandedInv'
  BY <1>1, HandedStays DEF ServersInv, PipeInv
<1>17. OrderInv'
  <2>1. SUFFICES ASSUME OneAtATime
                 PROVE  /\ \A d \in Clients : Rising(answers'[d])
                        /\ Ordered(jobs') /\ Ordered(tasks'[1])
                        /\ AllEarlier(Running', Queued) /\ AllEarlier(Returned', Queued)
                        /\ AllEarlier(Answered, Queued)
                        /\ AllEarlier(Returned', Running') /\ AllEarlier(Answered, Running')
                        /\ AllEarlier(Answered, Returned')
    BY <1>1, <1>9, Zenon DEF OrderInv, Rising, Ordered, AllEarlier, OneAtATime
  <2>2. Running' = {}
    <3>1. \A v \in Workers : v = w
      BY <1>2, <2>1, DeploymentFacts DEF OneAtATime
    <3> QED
      BY <1>7, <1>9, <3>1 DEF Running
  <2>3. (\A d \in Clients : Rising(answers'[d])) /\ Ordered(jobs')
    BY <1>1, <1>2, <2>1 DEF OrderInv
  <2>4. /\ AllEarlier(Returned, Running) /\ AllEarlier(Answered, Running) /\ AllEarlier(Running, Queued)
        /\ AllEarlier(Returned, Queued) /\ AllEarlier(Answered, Queued) /\ AllEarlier(Answered, Returned)
        /\ Ordered(tasks[1])
    BY <1>2, <2>1 DEF OrderInv
  <2>5. Ordered(tasks'[1])
    BY <1>3, <1>11, <2>4 DEF AllEarlier
  <2> QED
    BY <1>3, <1>11, <2>2, <2>3, <2>4, <2>5 DEF AllEarlier
<1>18. TypeOK'
  BY <1>1, <1>2, <1>6, <1>7, <1>9, <1>10, <1>11 DEF ServersInv, TypeOK
<1> QED
  BY <1>12, <1>13, <1>14, <1>15, <1>16, <1>17, <1>18 DEF ServersInv, PipeInv

\* The loop runs the oldest answer: it goes to the asker, who is still there
\* or has left.  A UDP client that sent something is always there.
LEMMA AnswerStep ==
  ASSUME ServersInv, tasks[1] # <<>>,
         tasks' = [tasks EXCEPT ![1] = Tail(@)],
         SendTo(Head(tasks[1]).who, Head(tasks[1]).msg),
         UNCHANGED <<dep, inbox, asked, place, backlog, jobs, running, read, handed>>
  PROVE  ServersInv'
<1> DEFINE r == Head(tasks[1])
           c == r.who
           m == r.msg
<1>1. /\ DOMAIN tasks = Bases /\ tasks[1] \in Seq(Replies) /\ place \in [Clients -> Places]
      /\ answers \in [Clients -> Seq(Nat)] /\ back \in [Clients -> Seq(Nat)]
      /\ OnceInv /\ OrderInv /\ WayInv /\ HandedInv /\ TypeOK /\ dep \in Deployments
  BY DEF ServersInv, TypeOK, PipeInv
<1>2. 1 \in Bases
  BY <1>1, DeploymentFacts
<1>3. /\ tasks'[1] = Tail(tasks[1]) /\ DOMAIN tasks' = Bases
      /\ \A b \in Bases \ {1} : tasks'[b] = tasks[b]
  BY <1>1, <1>2
<1>4. /\ tasks'[1] \in Seq(Replies) /\ r \in Replies /\ Returned = Returned' \cup {r}
      /\ Distinct(tasks'[1]) /\ r \notin Returned'
      /\ Ordered(tasks[1]) => Ordered(tasks'[1]) /\ AllEarlier({r}, Returned')
  <2>1. Distinct(tasks[1])
    BY <1>1 DEF OnceInv
  <2>2. /\ Tail(tasks[1]) \in Seq(Replies) /\ r \in Replies
        /\ Ran(tasks[1]) = Ran(Tail(tasks[1])) \cup {r}
        /\ Distinct(Tail(tasks[1])) /\ r \notin Ran(Tail(tasks[1]))
        /\ Ordered(tasks[1]) => Ordered(Tail(tasks[1])) /\ AllEarlier({r}, Ran(Tail(tasks[1])))
    BY <1>1, <2>1, TailFacts
  <2> HIDE DEF r
  <2>3. Returned = Ran(tasks[1]) /\ Returned' = Ran(Tail(tasks[1]))
    BY <1>3 DEF Returned
  <2> QED
    BY <1>3, <2>2, <2>3
<1>5. /\ answers' = IF place[c] = "open" THEN [answers EXCEPT ![c] = Append(@, m)] ELSE answers
      /\ back' = IF dep.udp /\ end[c] # "deleted" THEN [back EXCEPT ![c] = Append(@, m)] ELSE back
  BY DEF SendTo
<1> HIDE DEF r
<1>6. c \in Clients /\ m \in Nat /\ r = Reply(c, m)
  BY <1>4 DEF Replies, Reply
<1>7. r \notin Answered /\ r \notin Queued /\ r \notin Running /\ <<c, m>> \in read
  BY <1>1, <1>4 DEF OnceInv, WayInv
<1>8. m \notin Ran(answers[c])
  BY <1>1, <1>6, <1>7, PlaceFacts
<1> HIDE DEF c, m
<1>9. /\ answers' \in [Clients -> Seq(Nat)] /\ Answered' \subseteq Answered \cup {r}
      /\ \A d \in Clients : Distinct(answers'[d])
      /\ \A d \in Clients : Ran(answers[d]) \subseteq Ran(answers'[d])
      /\ place[c] = "open" => m \in Ran(answers'[c])
      /\ (\A d \in Clients : Rising(answers[d])) /\ AllEarlier(Answered, {r})
           => \A d \in Clients : Rising(answers'[d])
  <2>1. CASE place[c] = "open"
    <3>1. answers' = [answers EXCEPT ![c] = Append(@, m)]
      BY <1>5, <2>1
    <3>2. \A d \in Clients : Distinct(answers[d])
      BY <1>1 DEF OnceInv
    <3>3. /\ answers' \in [Clients -> Seq(Nat)] /\ Answered' = Answered \cup {Reply(c, m)}
          /\ Ran(answers'[c]) = Ran(answers[c]) \cup {m}
          /\ \A d \in Clients : Ran(answers[d]) \subseteq Ran(answers'[d])
          /\ (\A d \in Clients : Distinct(answers[d])) /\ Reply(c, m) \notin Answered
               => \A d \in Clients : Distinct(answers'[d])
          /\ (\A d \in Clients : Rising(answers[d])) /\ AllEarlier(Answered, {Reply(c, m)})
               => \A d \in Clients : Rising(answers'[d])
      BY <1>1, <1>6, <3>1, AnswerFacts
    <3>4. Reply(c, m) = r
      BY <1>6
    <3> QED
      BY <1>7, <3>2, <3>3, <3>4
  <2>2. CASE place[c] # "open"
    <3>1. answers' = answers
      BY <1>5, <2>2
    <3>2. Answered' = Answered
      BY <3>1 DEF Answered, Ran
    <3> QED
      BY <1>1, <2>2, <3>1, <3>2 DEF OnceInv
  <2> QED
    BY <2>1, <2>2
<1>10. Queued' = Queued /\ Running' = Running /\ Workers' = Workers /\ Bases' = Bases
  BY DEF Queued, Running, Workers, Bases, Ran
<1>11. UnreadInv' /\ UdpInv'
  BY UnreadStays DEF ServersInv, UdpInv
<1>12. WayInv'
  BY <1>1, <1>4, <1>9, <1>10 DEF WayInv
<1>13. OnceInv'
  <2>1. \A u, v \in Workers : running'[u] = running'[v] /\ running'[u] # NoJob => u = v
    BY <1>1 DEF OnceInv
  <2>2. /\ Queued \cap Running = {} /\ Queued \cap Returned' = {} /\ Queued \cap Answered' = {}
        /\ Running \cap Returned' = {} /\ Running \cap Answered' = {} /\ Returned' \cap Answered' = {}
    BY <1>1, <1>4, <1>7, <1>9 DEF OnceInv
  <2>3. Distinct(jobs')
    BY <1>1 DEF OnceInv
  <2> QED
    BY <1>4, <1>9, <1>10, <2>1, <2>2, <2>3 DEF OnceInv
<1>14. PlainInv'
  <2>1. dep.workers # 0
    BY DEF ServersInv, PipeInv, PlainInv
  <2> QED
    BY <2>1 DEF PlainInv
<1>15. HandedInv' /\ back' \in [Clients -> Seq(Nat)]
  <2>1. CASE back' = back
    BY <1>1, <1>9, <2>1, HandedStays
  <2>2. CASE back' # back
    <3>1. dep.udp /\ back' = [back EXCEPT ![c] = Append(@, m)]
      BY <1>5, <2>2
    <3>2. place[c] = "open"
      BY <1>6, <1>7, <3>1 DEF ServersInv, UdpInv
    <3>3. m \in Ran(answers'[c])
      BY <1>9, <3>2
    <3>4. m \notin Ran(back[c]) /\ m \notin Ran(handed[c]) /\ Distinct(back[c])
      BY <1>1, <1>6, <1>8 DEF HandedInv
    <3>5. /\ Append(back[c], m) \in Seq(Nat) /\ Distinct(Append(back[c], m))
          /\ Ran(Append(back[c], m)) = Ran(back[c]) \cup {m}
      <4>1. back[c] \in Seq(Nat) /\ m \in Nat
        BY <1>1, <1>6
      <4>2. Appends(Nat, back[c], m)
        BY <4>1, AppendFacts
      <4> QED
        BY <3>4, <4>2 DEF Appends
    <3>6. /\ back'[c] = Append(back[c], m) /\ \A d \in Clients \ {c} : back'[d] = back[d]
          /\ back' \in [Clients -> Seq(Nat)]
      BY <1>1, <1>6, <3>1, <3>5
    <3>7. SUFFICES ASSUME NEW d \in Clients
                   PROVE  /\ Distinct(back'[d]) /\ Distinct(handed'[d])
                          /\ Ran(back'[d]) \cap Ran(handed'[d]) = {}
                          /\ Ran(back'[d]) \cup Ran(handed'[d]) \subseteq Ran(answers'[d])
      BY <3>6, Zenon DEF HandedInv, Distinct, Ran
    <3>8. /\ Distinct(back[d]) /\ Distinct(handed[d])
          /\ Ran(back[d]) \cap Ran(handed[d]) = {}
          /\ Ran(back[d]) \cup Ran(handed[d]) \subseteq Ran(answers'[d])
      BY <1>1, <1>9 DEF HandedInv
    <3>9. CASE d = c
      BY <3>3, <3>4, <3>5, <3>6, <3>8, <3>9
    <3>10. CASE d # c
      BY <3>6, <3>8, <3>10
    <3> QED
      BY <3>9, <3>10
  <2> QED
    BY <2>1, <2>2
<1>16. OrderInv'
  <2>1. SUFFICES ASSUME OneAtATime
                 PROVE  /\ \A d \in Clients : Rising(answers'[d])
                        /\ Ordered(jobs') /\ Ordered(tasks'[1])
                        /\ AllEarlier(Running, Queued) /\ AllEarlier(Returned', Queued)
                        /\ AllEarlier(Answered', Queued)
                        /\ AllEarlier(Returned', Running) /\ AllEarlier(Answered', Running)
                        /\ AllEarlier(Answered', Returned')
    BY <1>10, Zenon DEF OrderInv, Rising, Ordered, AllEarlier, OneAtATime
  <2>2. /\ AllEarlier(Returned, Running) /\ AllEarlier(Answered, Running) /\ AllEarlier(Running, Queued)
        /\ AllEarlier(Returned, Queued) /\ AllEarlier(Answered, Queued) /\ AllEarlier(Answered, Returned)
        /\ Ordered(tasks[1]) /\ Ordered(jobs') /\ \A d \in Clients : Rising(answers[d])
    BY <1>1, <2>1 DEF OrderInv
  <2>3. AllEarlier(Answered, {r})
    BY <1>4, <2>2 DEF AllEarlier
  <2>4. (\A d \in Clients : Rising(answers'[d])) /\ Ordered(tasks'[1]) /\ AllEarlier({r}, Returned')
    BY <1>4, <1>9, <2>2, <2>3
  <2> QED
    BY <1>4, <1>9, <2>2, <2>4 DEF AllEarlier
<1>17. TypeOK'
  BY <1>1, <1>3, <1>4, <1>9, <1>10, <1>15 DEF TypeOK
<1> QED
  BY <1>11, <1>12, <1>13, <1>14, <1>15, <1>16, <1>17 DEF ServersInv, PipeInv

-----------------------------------------------------------------------------
(* The UDP client's end.                                                    *)

\* Answers in flight to one client are handed over or lost.
LEMMA ClientStep ==
  ASSUME ServersInv, NEW c \in Clients, NEW q \in Seq(Nat), NEW h \in Seq(Nat),
         UNCHANGED <<dep, inbox, asked, place, backlog, tasks, jobs, running, read, answers>>,
         back' = [back EXCEPT ![c] = q], handed' = [handed EXCEPT ![c] = h],
         Distinct(q), Distinct(h), Ran(q) \cap Ran(h) = {},
         Ran(q) \cup Ran(h) \subseteq Ran(back[c]) \cup Ran(handed[c])
  PROVE  ServersInv'
<1>1. /\ back \in [Clients -> Seq(Nat)] /\ handed \in [Clients -> Seq(Nat)] /\ TypeOK
      /\ WayInv /\ OnceInv /\ PlainInv /\ HandedInv /\ OrderInv
  BY DEF ServersInv, TypeOK, PipeInv
<1>2. /\ back'[c] = q /\ handed'[c] = h
      /\ \A d \in Clients \ {c} : back'[d] = back[d] /\ handed'[d] = handed[d]
      /\ back' \in [Clients -> Seq(Nat)] /\ handed' \in [Clients -> Seq(Nat)]
  BY <1>1
<1>3. /\ Queued' = Queued /\ Running' = Running /\ Returned' = Returned /\ Answered' = Answered
      /\ Bases' = Bases /\ Workers' = Workers
  BY PlacesStay DEF Bases, Workers
<1>4. UnreadInv' /\ UdpInv'
  BY UnreadStays DEF ServersInv, UdpInv
<1>5. WayInv' /\ PlainInv'
  BY <1>1, <1>3 DEF WayInv, PlainInv
<1>6. OnceInv'
  BY <1>1, <1>3 DEF OnceInv, Distinct
<1>7. OrderInv'
  BY <1>1, <1>3 DEF OrderInv, OneAtATime, Rising, Ordered
<1>8. HandedInv'
  <2>1. SUFFICES ASSUME NEW d \in Clients
                 PROVE  /\ Distinct(back'[d]) /\ Distinct(handed'[d])
                        /\ Ran(back'[d]) \cap Ran(handed'[d]) = {}
                        /\ Ran(back'[d]) \cup Ran(handed'[d]) \subseteq Ran(answers'[d])
    BY Zenon DEF HandedInv, Distinct, Ran
  <2>2. /\ Distinct(back[d]) /\ Distinct(handed[d])
        /\ Ran(back[d]) \cap Ran(handed[d]) = {}
        /\ Ran(back[d]) \cup Ran(handed[d]) \subseteq Ran(answers[d])
    BY <1>1 DEF HandedInv
  <2>3. CASE d = c
    BY <1>2, <2>2, <2>3
  <2>4. CASE d # c
    BY <1>2, <2>2, <2>4
  <2> QED
    BY <2>3, <2>4
<1>9. TypeOK'
  BY <1>1, <1>2, <1>3 DEF TypeOK
<1> QED
  BY <1>4, <1>5, <1>6, <1>7, <1>8, <1>9 DEF ServersInv, PipeInv

-----------------------------------------------------------------------------
(* The specification.                                                       *)

\* The servers start with nothing sent, queued or answered.
LEMMA ServersInit ==
  ASSUME Init
  PROVE  ServersInv
<1>1. /\ dep \in Deployments /\ backlog = <<>> /\ place = [c \in Clients |-> FirstPlace(c)]
      /\ tasks = [b \in Bases |-> <<>>]
      /\ inbox = [c \in Clients |-> <<>>] /\ asked = [c \in Clients |-> 0]
      /\ jobs = <<>> /\ running = [w \in Workers |-> NoJob] /\ read = {}
      /\ answers = [c \in Clients |-> <<>>]
      /\ back = [c \in Clients |-> <<>>] /\ handed = [c \in Clients |-> <<>>]
  BY DEF Init
<1>2. 1 \in Bases /\ tasks[1] = <<>>
  BY <1>1, DeploymentFacts
<1>3. Ran(<<>>) = {} /\ Distinct(<<>>) /\ Ordered(<<>>) /\ Rising(<<>>)
  BY DEF Ran, Distinct, Ordered, Rising
<1>4. \A c \in Clients : answers[c] = <<>> /\ inbox[c] = <<>> /\ back[c] = <<>> /\ handed[c] = <<>>
  BY <1>1
<1>5. Queued = {} /\ Running = {} /\ Returned = {} /\ Answered = {}
  <2>1. Queued = {} /\ Returned = {}
    BY <1>1, <1>2, <1>3 DEF Queued, Returned
  <2>2. Running = {}
    BY <1>1 DEF Running
  <2>3. Answered = {}
    BY <1>3, <1>4 DEF Answered, Replies
  <2> QED
    BY <2>1, <2>2, <2>3
<1>6. TypeOK
  <2>1. \A S : <<>> \in Seq(S)
    OBVIOUS
  <2>2. place \in [Clients -> Places]
    BY <1>1 DEF FirstPlace, Places
  <2>3. \A b \in Bases \ {1} : tasks[b] \in Seq(Adds)
    BY <1>1, <2>1
  <2> QED
    BY <1>1, <1>2, <1>5, <2>1, <2>2, <2>3 DEF TypeOK
<1>7. UdpInv
  BY <1>1, <1>4 DEF UdpInv, FirstPlace
<1>8. UnreadInv
  BY <1>1, <1>3, <1>4 DEF UnreadInv
<1>9. WayInv /\ PlainInv
  BY <1>1, <1>2, <1>5 DEF WayInv, PlainInv
<1>10. OnceInv
  BY <1>1, <1>2, <1>3, <1>4, <1>5 DEF OnceInv
<1>11. HandedInv
  BY <1>3, <1>4 DEF HandedInv
<1>12. OrderInv
  BY <1>1, <1>2, <1>3, <1>4, <1>5 DEF OrderInv, AllEarlier
<1> QED
  BY <1>6, <1>7, <1>8, <1>9, <1>10, <1>11, <1>12 DEF ServersInv, PipeInv

\* No step of a client, a loop or a pool thread breaks the invariant.
LEMMA ServersStep ==
  ASSUME ServersInv, [Next]_vars
  PROVE  ServersInv'
<1> USE DEF conns, loops, pool, peers
<1>1. /\ dep \in Deployments /\ backlog \in Seq(Clients) /\ place \in [Clients -> Places]
      /\ DOMAIN tasks = Bases /\ tasks[1] \in Seq(Replies)
      /\ \A b \in Bases \ {1} : tasks[b] \in Seq(Adds)
      /\ inbox \in [Clients -> Seq(Nat)] /\ asked \in [Clients -> Nat]
      /\ back \in [Clients -> Seq(Nat)] /\ handed \in [Clients -> Seq(Nat)]
  BY DEF ServersInv, TypeOK
<1>2. /\ 1 \in Bases
      /\ dep.udp => Bases = {1} /\ dep.workers # 0 /\ backlog = <<>>
  BY <1>1, DeploymentFacts DEF ServersInv, UdpInv
<1>3. /\ "open" \in Places /\ "backlog" \in Places /\ "queued" \in Places
      /\ "leaked" \in Places /\ "closed" \in Places
  BY DEF Places
<1>4. /\ UnreadInv
      /\ \A d \in Clients : inbox[d] \in Seq(Nat) /\ asked[d] \in Nat /\ Ran(inbox[d]) \subseteq Nat
  BY <1>1 DEF ServersInv, Ran
<1>5. \A d \in Clients : dep.udp /\ place[d] # "open" => d \notin dep.clients /\ inbox[d] = <<>>
  BY DEF ServersInv, UdpInv
<1>6. ASSUME NEW c \in Clients, Connect(c) PROVE ServersInv'
  <2>1. /\ c \in dep.clients /\ place[c] = "none" /\ place' = [place EXCEPT ![c] = "backlog"]
        /\ backlog' = Append(backlog, c)
        /\ UNCHANGED <<dep, inbox, asked, tasks, jobs, running, read, answers, back, handed>>
    BY <1>6 DEF Connect
  <2>2. ~dep.udp
    BY <1>5, <2>1
  <2>3. backlog' \in Seq(Clients) /\ place' \in [Clients -> Places]
    BY <1>1, <1>3, <2>1
  <2> QED
    BY <1>1, <2>1, <2>2, <2>3, PlacingStep
<1>7. ASSUME NEW c \in Clients, Ask(c) PROVE ServersInv'
  <2> DEFINE n == asked[c] + 1
             q == Append(inbox[c], n)
  <2>1. /\ place[c] = "open" /\ asked' = [asked EXCEPT ![c] = n] /\ inbox' = [inbox EXCEPT ![c] = q]
        /\ UNCHANGED <<dep, backlog, place, tasks, jobs, running, read, answers, back, handed>>
    BY <1>7 DEF Ask
  <2>2. n \in Nat /\ \A y \in Nat : y <= asked[c] => y < n /\ y <= n
    BY <1>4
  <2>3. /\ Distinct(inbox[c]) /\ \A y \in Ran(inbox[c]) : y <= asked[c] /\ <<c, y>> \notin read
        /\ \A y \in Nat : <<c, y>> \in read => y <= asked[c]
        /\ OneAtATime => /\ Rising(inbox[c])
                         /\ \A y \in Nat, x \in Ran(inbox[c]) : <<c, y>> \in read => y < x
    BY <1>4 DEF UnreadInv
  <2>4. \A y \in Ran(inbox[c]) : y < n
    BY <1>4, <2>2, <2>3
  <2>5. n \notin Ran(inbox[c]) /\ <<c, n>> \notin read /\ ~(n < n)
    BY <2>2, <2>3, <2>4
  <2>6. asked' \in [Clients -> Nat] /\ asked'[c] = n /\ \A d \in Clients : asked[d] <= asked'[d]
    BY <1>1, <2>1, <2>2
  <2> HIDE DEF n
  <2>7. /\ q \in Seq(Nat) /\ Ran(q) = Ran(inbox[c]) \cup {n} /\ Distinct(q)
        /\ OneAtATime => Rising(q)
    <3>1. Appends(Nat, inbox[c], n)
      BY <1>4, <2>2, AppendFacts
    <3> QED
      BY <2>3, <2>4, <2>5, <3>1 DEF Appends
  <2> HIDE DEF q
  <2>8. \A y \in Ran(q) : y <= asked'[c] /\ <<c, y>> \notin read
    <3>1. n <= asked'[c] /\ <<c, n>> \notin read
      BY <2>2, <2>5, <2>6
    <3>2. \A y \in Ran(inbox[c]) : y <= asked'[c] /\ <<c, y>> \notin read
      BY <1>4, <2>2, <2>3, <2>6
    <3> QED
      BY <2>7, <3>1, <3>2
  <2>9. OneAtATime => \A y \in Nat, x \in Ran(q) : <<c, y>> \in read => y < x
    BY <2>2, <2>3, <2>7
  <2> QED
    BY <1>1, <2>1, <2>6, <2>7, <2>8, <2>9, SocketStep
<1>8. ASSUME NEW c \in Clients, NEW q \in Seq(Nat),
             place' \in [Clients -> Places], dep.udp => place' = place,
             inbox' = [inbox EXCEPT ![c] = q], Ran(q) \subseteq Ran(inbox[c]), Distinct(q),
             OneAtATime => Rising(q), inbox[c] = <<>> => q = <<>>,
             UNCHANGED <<dep, backlog, asked, tasks, jobs, running, read, answers, back, handed>>
      PROVE  ServersInv'
  <2>1. /\ \A y \in Ran(q) : y <= asked[c] /\ <<c, y>> \notin read
        /\ OneAtATime => \A y \in Nat, x \in Ran(q) : <<c, y>> \in read => y < x
    BY <1>4, <1>8 DEF UnreadInv
  <2>2. asked' \in [Clients -> Nat] /\ \A d \in Clients : asked[d] <= asked'[d]
    BY <1>1, <1>4, <1>8
  <2>3. dep.udp => place' = place /\ (place[c] # "open" => q = <<>>)
    BY <1>5, <1>8
  <2>4. asked'[c] = asked[c]
    BY <1>8
  <2> QED
    BY <1>8, <2>1, <2>2, <2>3, <2>4, SocketStep
<1>9. ASSUME NEW c \in Clients, Lose(c) PROVE ServersInv'
  <2>1. /\ inbox[c] # <<>> /\ inbox' = [inbox EXCEPT ![c] = Tail(inbox[c])]
        /\ UNCHANGED <<dep, backlog, place, asked, tasks, jobs, running, read, answers, back, handed>>
    BY <1>9 DEF Lose
  <2>2. Distinct(inbox[c]) /\ (OneAtATime => Rising(inbox[c])) /\ inbox[c] \in Seq(Nat)
    BY <1>4 DEF UnreadInv
  <2>3. /\ Tail(inbox[c]) \in Seq(Nat) /\ Ran(Tail(inbox[c])) \subseteq Ran(inbox[c])
        /\ Distinct(Tail(inbox[c])) /\ (OneAtATime => Rising(Tail(inbox[c])))
    BY <2>1, <2>2, TailFacts
  <2> QED
    BY <1>1, <1>8, <2>1, <2>3
<1>10. ASSUME NEW c \in Clients, Reorder(c) PROVE ServersInv'
  <2> DEFINE q == <<inbox[c][2], inbox[c][1]>> \o SubSeq(inbox[c], 3, Len(inbox[c]))
  <2>1. /\ dep.udp /\ Len(inbox[c]) > 1 /\ inbox' = [inbox EXCEPT ![c] = q]
        /\ UNCHANGED <<dep, backlog, place, asked, tasks, jobs, running, read, answers, back, handed>>
    BY <1>10 DEF Reorder
  <2>2. Distinct(inbox[c]) /\ inbox[c] \in Seq(Nat) /\ inbox[c] # <<>> /\ ~OneAtATime
    BY <1>4, <2>1 DEF UnreadInv, OneAtATime
  <2>3. q \in Seq(Nat) /\ Ran(q) \subseteq Ran(inbox[c]) /\ Distinct(q)
    BY <2>1, <2>2, SwapFacts
  <2> HIDE DEF q
  <2> QED
    BY <1>1, <1>8, <2>1, <2>2, <2>3
<1>11. ASSUME NEW c \in Clients, Close(c) PROVE ServersInv'
  <2>1. /\ ~dep.udp /\ place' = [place EXCEPT ![c] = "closed"] /\ inbox' = [inbox EXCEPT ![c] = <<>>]
        /\ UNCHANGED <<dep, backlog, asked, tasks, jobs, running, read, answers, back, handed>>
    BY <1>11 DEF Close
  <2>2. <<>> \in Seq(Nat) /\ Ran(<<>>) = {} /\ Distinct(<<>>) /\ Rising(<<>>)
    BY DEF Ran, Distinct, Rising
  <2>3. place' \in [Clients -> Places]
    BY <1>1, <1>3, <2>1
  <2> QED
    BY <1>8, <2>1, <2>2, <2>3
<1>12. ASSUME NEW c \in Clients, Receive(c) PROVE ServersInv'
  <2>1. /\ inbox[c] # <<>> /\ inbox' = [inbox EXCEPT ![c] = Tail(@)]
        /\ read' = read \cup {<<c, Head(inbox[c])>>}
        /\ UNCHANGED <<dep, backlog, place, asked, tasks, running, back, handed>>
    BY <1>12 DEF Receive
  <2>2. CASE dep.workers = 0
    BY <1>12, <2>1, <2>2, PlainStep DEF Receive
  <2>3. CASE dep.workers # 0
    BY <1>12, <2>1, <2>3, PoolStep DEF Receive
  <2> QED
    BY <2>2, <2>3
<1>13. ASSUME NEW c \in Clients, ReceiveFrom(c) PROVE ServersInv'
  <2>1. /\ dep.udp /\ inbox[c] # <<>> /\ inbox' = [inbox EXCEPT ![c] = Tail(@)]
        /\ read' = read \cup {<<c, Head(inbox[c])>>} /\ AddTask(Reply(c, Head(inbox[c])))
        /\ UNCHANGED <<dep, backlog, place, asked, tasks, running, answers, back, handed>>
    BY <1>13 DEF ReceiveFrom
  <2> QED
    BY <1>2, <2>1, PoolStep
<1>14. ASSUME NEW c \in Clients, ClientRead(c) PROVE ServersInv'
  <2>1. PICK i \in DOMAIN back[c] :
          /\ handed' = [handed EXCEPT ![c] = Append(@, back[c][i])]
          /\ back' = [back EXCEPT ![c] = SubSeq(@, 1, i - 1) \o SubSeq(@, i + 1, Len(@))]
    BY <1>14 DEF ClientRead
  <2>2. UNCHANGED <<dep, inbox, asked, place, backlog, tasks, jobs, running, read, answers>>
    BY <1>14 DEF ClientRead
  <2> DEFINE q == SubSeq(back[c], 1, i - 1) \o SubSeq(back[c], i + 1, Len(back[c]))
             x == back[c][i]
             h == Append(handed[c], x)
  <2>3. /\ back[c] \in Seq(Nat) /\ handed[c] \in Seq(Nat) /\ i \in 1..Len(back[c]) /\ x \in Nat
    BY <1>1
  <2>4. Distinct(back[c]) /\ Distinct(handed[c]) /\ Ran(back[c]) \cap Ran(handed[c]) = {}
    BY DEF ServersInv, PipeInv, HandedInv
  <2>5. /\ q \in Seq(Nat) /\ Ran(q) \subseteq Ran(back[c]) /\ x \notin Ran(q) /\ Distinct(q)
        /\ x \in Ran(back[c])
    BY <2>3, <2>4, RemoveFacts
  <2>6. back' = [back EXCEPT ![c] = q] /\ handed' = [handed EXCEPT ![c] = h]
    BY <2>1
  <2> HIDE DEF q, x
  <2>7. h \in Seq(Nat) /\ Ran(h) = Ran(handed[c]) \cup {x} /\ Distinct(h)
    <3>1. x \in Nat /\ x \notin Ran(handed[c])
      BY <2>3, <2>4, <2>5
    <3>2. Appends(Nat, handed[c], x)
      BY <2>3, <3>1, AppendFacts
    <3> QED
      BY <2>4, <3>1, <3>2 DEF Appends
  <2> HIDE DEF h
  <2>8. Ran(q) \cap Ran(h) = {} /\ Ran(q) \cup Ran(h) \subseteq Ran(back[c]) \cup Ran(handed[c])
    BY <2>4, <2>5, <2>7
  <2> QED
    BY <2>2, <2>5, <2>6, <2>7, <2>8, ClientStep
<1>15. ASSUME NEW c \in Clients, ClientDelete(c) PROVE ServersInv'
  <2>1. /\ back' = [back EXCEPT ![c] = <<>>] /\ handed' = [handed EXCEPT ![c] = handed[c]]
        /\ UNCHANGED <<dep, inbox, asked, place, backlog, tasks, jobs, running, read, answers>>
    BY <1>1, <1>15 DEF ClientDelete
  <2>2. <<>> \in Seq(Nat) /\ Ran(<<>>) = {} /\ Distinct(<<>>)
    BY DEF Ran, Distinct
  <2>3. handed[c] \in Seq(Nat) /\ Distinct(handed[c])
    BY <1>1 DEF ServersInv, PipeInv, HandedInv
  <2> QED
    BY <2>1, <2>2, <2>3, ClientStep
<1>16. ASSUME Accept PROVE ServersInv'
  <2> DEFINE c == Head(backlog)
             b == AllocBase(id_)
  <2>1. /\ backlog # <<>> /\ backlog' = Tail(backlog)
        /\ UNCHANGED <<dep, inbox, asked, jobs, running, read, answers, back, handed>>
        /\ \/ b = 1 /\ place' = [place EXCEPT ![c] = "open"] /\ tasks' = tasks
           \/ /\ b # 1 /\ place' = [place EXCEPT ![c] = "queued"]
              /\ tasks' = [tasks EXCEPT ![b] = Append(@, Add(c))]
    BY <1>16 DEF Accept, Attach
  <2>2. c \in Clients /\ backlog' \in Seq(Clients) /\ ~dep.udp
    BY <1>1, <1>2, <2>1
  <2> HIDE DEF c, b
  <2>3. place' \in [Clients -> Places]
    BY <1>1, <1>3, <2>1
  <2>4. Add(c) \in Adds
    BY <2>2 DEF Add, Adds
  <2>5. tasks'[1] = tasks[1] /\ DOMAIN tasks' = Bases /\ \A a \in Bases \ {1} : tasks'[a] \in Seq(Adds)
    <3>1. CASE b = 1
      BY <1>1, <2>1, <3>1
    <3>2. CASE b # 1
      <4>1. \A a \in Bases : tasks'[a] = IF a = b THEN Append(tasks[b], Add(c)) ELSE tasks[a]
        BY <1>1, <2>1, <3>2
      <4>2. b \in Bases => Append(tasks[b], Add(c)) \in Seq(Adds)
        BY <1>1, <2>4, <3>2
      <4>3. tasks'[1] = tasks[1]
        BY <1>2, <3>2, <4>1
      <4>4. \A a \in Bases \ {1} : tasks'[a] \in Seq(Adds)
        BY <1>1, <4>1, <4>2
      <4>5. DOMAIN tasks' = Bases
        BY <1>1, <2>1, <3>2
      <4> QED
        BY <4>3, <4>4, <4>5
    <3> QED
      BY <3>1, <3>2
  <2> QED
    BY <2>1, <2>2, <2>3, <2>5, PlacingStep
<1>17. ASSUME AcceptFails PROVE ServersInv'
  <2>1. /\ backlog # <<>> /\ backlog' = Tail(backlog) /\ place' = [place EXCEPT ![Head(backlog)] = "leaked"]
        /\ UNCHANGED <<dep, inbox, asked, tasks, jobs, running, read, answers, back, handed>>
    BY <1>17 DEF AcceptFails
  <2>2. backlog' \in Seq(Clients) /\ ~dep.udp /\ place' \in [Clients -> Places]
    BY <1>1, <1>2, <1>3, <2>1
  <2> QED
    BY <1>1, <2>1, <2>2, PlacingStep
<1>18. ASSUME NEW b \in Bases, RunTask(b) PROVE ServersInv'
  <2> DEFINE t == Head(tasks[b])
  <2>1. /\ tasks[b] # <<>> /\ tasks' = [tasks EXCEPT ![b] = Tail(@)]
        /\ UNCHANGED <<dep, inbox, asked, backlog, jobs, running, read, handed>>
        /\ \/ t.kind = "add" /\ place' = [place EXCEPT ![t.who] = "open"] /\ UNCHANGED <<answers, back>>
           \/ t.kind # "add" /\ SendTo(t.who, t.msg) /\ place' = place
    BY <1>18 DEF RunTask, Attach
  <2>2. CASE b = 1
    <3>1. t \in Replies
      BY <1>1, <2>1, <2>2
    <3>2. t.kind # "add"
      BY <3>1 DEF Replies
    <3> QED
      BY <2>1, <2>2, <3>2, AnswerStep
  <2>3. CASE b # 1
    <3>1. t \in Adds /\ Tail(tasks[b]) \in Seq(Adds)
      BY <1>1, <2>1, <2>3
    <3>2. t.kind = "add" /\ t.who \in Clients
      BY <3>1 DEF Adds
    <3>3. place' = [place EXCEPT ![t.who] = "open"] /\ UNCHANGED <<answers, back>>
      BY <2>1, <3>2
    <3>4. place' \in [Clients -> Places] /\ ~dep.udp
      BY <1>1, <1>2, <1>3, <2>3, <3>2, <3>3
    <3>5. tasks'[1] = tasks[1] /\ DOMAIN tasks' = Bases /\ \A a \in Bases \ {1} : tasks'[a] \in Seq(Adds)
      BY <1>1, <1>2, <2>1, <2>3, <3>1
    <3> QED
      BY <1>1, <2>1, <3>3, <3>4, <3>5, PlacingStep
  <2> QED
    BY <2>2, <2>3
<1>19. ASSUME UNCHANGED <<dep, inbox, asked, place, backlog, tasks, jobs, running, read, answers, back, handed>>
       PROVE  ServersInv'
  BY <1>1, <1>19, PlacingStep
<1>20. ASSUME NEW c \in Clients, ClientClose(c) PROVE ServersInv'
  BY <1>19, <1>20 DEF ClientClose
<1>21. ASSUME NEW b \in Bases, Stop(b) \/ ExitBase(b) PROVE ServersInv'
  BY <1>19, <1>21 DEF Stop, ExitBase
<1>22. ASSUME ExitHSHA \/ Joined \/ UNCHANGED vars PROVE ServersInv'
  BY <1>19, <1>22 DEF ExitHSHA, Joined, vars
<1> QED
  BY <1>6, <1>7, <1>9, <1>10, <1>11, <1>12, <1>13, <1>14, <1>15, <1>16, <1>17, <1>18,
     <1>20, <1>21, <1>22, BeginStep, FinishStep, Zenon
     DEF Next, Serve, Client, Loop, Work

\* In every state a message of a client is unread or in one of the places on
\* its way, and where one thread works the places are in order.  (HSHA::onMsg
\* and its task, HSHAU::onMsg, TcpServer's message callback.)
THEOREM ServersInvariant == Spec => []ServersInv
<1>1. Init => ServersInv
  BY ServersInit
<1>2. ServersInv /\ [Next]_vars => ServersInv'
  BY ServersStep
<1> QED
  BY <1>1, <1>2, PTL DEF Spec

\* For any number of clients, loops, pool threads and messages, and over a
\* network that loses and reorders datagrams, an answer goes to the client
\* that asked, at most once, and in order where one thread computes them.
\* (The callbacks capture con or peer with the input: conn.cc, udp.cc.)
THEOREM AnswersStayOnce == Spec => []AnswersOnce
<1>1. ServersInv => AnswersOnce
  <2>1. SUFFICES ASSUME ServersInv, NEW c \in Clients
                 PROVE  /\ \A i \in DOMAIN answers[c] : <<c, answers[c][i]>> \in read
                        /\ \A i, j \in DOMAIN answers[c] : i # j => answers[c][i] # answers[c][j]
                        /\ \A i \in DOMAIN handed[c] :
                             \E j \in DOMAIN answers[c] : answers[c][j] = handed[c][i]
                        /\ \A i, j \in DOMAIN handed[c] : i # j => handed[c][i] # handed[c][j]
                        /\ OneAtATime =>
                             \A i, j \in DOMAIN answers[c] : i < j => answers[c][i] < answers[c][j]
    BY DEF AnswersOnce, OneAtATime
  <2>2. /\ answers[c] \in Seq(Nat) /\ handed[c] \in Seq(Nat) /\ TypeOK
        /\ WayInv /\ OnceInv /\ HandedInv /\ OrderInv
    BY <2>1 DEF ServersInv, TypeOK, PipeInv
  <2>3. /\ DOMAIN answers[c] = 1..Len(answers[c]) /\ DOMAIN handed[c] = 1..Len(handed[c])
        /\ Len(answers[c]) \in Nat /\ Len(handed[c]) \in Nat
    BY <2>2
  <2>4. ASSUME NEW i \in DOMAIN answers[c] PROVE <<c, answers[c][i]>> \in read
    <3>1. answers[c][i] \in Nat /\ answers[c][i] \in Ran(answers[c])
      BY <2>2, <2>3 DEF Ran
    <3>2. Reply(c, answers[c][i]) \in Answered
      BY <2>2, <3>1, PlaceFacts
    <3> QED
      BY <2>2, <3>1, <3>2, ReplyFacts DEF WayInv
  <2>5. \A s : Len(s) \in Nat /\ Distinct(s) => \A i, j \in 1..Len(s) : i # j => s[i] # s[j]
    BY DEF Distinct
  <2>6. Distinct(answers[c]) /\ Distinct(handed[c]) /\ Ran(handed[c]) \subseteq Ran(answers[c])
    BY <2>2 DEF OnceInv, HandedInv
  <2>7. \A i \in DOMAIN handed[c] : \E j \in DOMAIN answers[c] : answers[c][j] = handed[c][i]
    BY <2>3, <2>6 DEF Ran
  <2>8. OneAtATime => Rising(answers[c])
    BY <2>2 DEF OrderInv
  <2> QED
    BY <2>3, <2>4, <2>5, <2>6, <2>7, <2>8 DEF Rising
<1> QED
  BY <1>1, ServersInvariant, PTL

-----------------------------------------------------------------------------
(* The connections and their loops.                                         *)

\* Whom loop b is to add, and whom it has.
Waiting(b) == {c \in Clients : Add(c) \in Ran(tasks[b])}
On(b) == {c \in Clients : <<c, b>> \in Ran(dealt)}

\* What has not been accepted yet is so once, and is nowhere else.
BacklogInv == Distinct(backlog) /\ \A c \in Clients : c \in Ran(backlog) <=> place[c] = "backlog"

\* A connection waits for one loop, once, or for none.
WaitingInv ==
  /\ \A b \in Bases \ {1} : Distinct(tasks[b])
  /\ \A a, b \in Bases : Waiting(a) \cap Waiting(b) # {} => a = b
  /\ ~dep.udp => \A c \in Clients : place[c] = "queued" <=> \E b \in Bases : c \in Waiting(b)

\* A connection is given to one loop, once.
DealtOK == dealt \in Seq(Clients \X Bases)
OnInv ==
  /\ DealtOK
  /\ \A i, j \in 1..Len(dealt) : i < j => dealt[i][1] # dealt[j][1]
  /\ ~dep.udp => \A c \in Clients : place[c] \in {"open", "closed"} <=> \E b \in Bases : c \in On(b)

\* Of n loops, how many have their turn between loop t and loop b.
After(t, b, n) == IF b >= t THEN b - t ELSE b - t + n

\* The loop whose turn it is, and how many are before loop b.
Due == AllocBase(id_)
Wait(b) == After(Due, b, dep.bases)

\* A loop that waits longer for its turn may be ahead by one.
BalanceInv ==
  /\ id_ \in -HalfInt..(HalfInt - 1) /\ jumps \in Nat
  /\ \A b \in Bases : IsFiniteSet(Share(b))
  /\ \A a, b \in Bases :
       Load(a) - Load(b) <= jumps + IF Wait(a) > Wait(b) THEN 1 ELSE 0

DealInv == BacklogInv /\ WaitingInv /\ OnInv /\ BalanceInv

\* Division by a positive number.
LEMMA DivisionFacts ==
  ASSUME NEW u \in Int, NEW n \in Nat, n > 0
  PROVE  u \div n \in Int /\ u % n \in 0..(n - 1) /\ u = n * (u \div n) + (u % n)
<1>1. u % n \in 0..(n - 1)
  OBVIOUS
<1>2. u \div n \in Int
  OBVIOUS
<1>3. u = n * (u \div n) + (u % n)
  OBVIOUS
<1> QED
  BY <1>1, <1>2, <1>3

\* A quotient and a remainder determine each other.
LEMMA RemainderUnique ==
  ASSUME NEW n \in Nat, n > 0, NEW p \in Int, NEW q \in Int,
         NEW r \in 0..(n - 1), NEW s \in 0..(n - 1), n * p + r = n * q + s
  PROVE  r = s
<1>1. \A d \in Int : d >= 1 => n * d >= n
  <2>1. SUFFICES ASSUME NEW d \in Int, d >= 1 PROVE n * d >= n
    OBVIOUS
  <2>2. PICK e \in Nat : d = e + 1
    <3>1. d - 1 \in Nat /\ d = (d - 1) + 1
      BY <2>1
    <3> QED
      BY <3>1
  <2>3. n * d = n * e + n /\ n * e >= 0
    BY <2>2
  <2> QED
    BY <2>3
<1>2. n * (p - q) = s - r /\ n * (q - p) = r - s
  OBVIOUS
<1>3. ~(p - q >= 1)
  BY <1>1, <1>2
<1>4. ~(q - p >= 1)
  BY <1>1, <1>2
<1>5. p = q
  BY <1>3, <1>4
<1> QED
  BY <1>5

\* The remainder of the next number, and of one a whole number of rounds away.
LEMMA RemainderNext ==
  ASSUME NEW u \in Int, NEW n \in Nat, n > 0
  PROVE  /\ (u + 1) % n = IF u % n = n - 1 THEN 0 ELSE (u % n) + 1
         /\ \A w \in Int : w % n = 0 => (u + w) % n = u % n
<1>1. PICK q \in Int, r \in 0..(n - 1) : u = n * q + r /\ r = u % n
  BY DivisionFacts
<1>2. PICK p \in Int, s \in 0..(n - 1) : u + 1 = n * p + s /\ s = (u + 1) % n
  <2>1. u + 1 \in Int
    OBVIOUS
  <2> QED
    BY <2>1, DivisionFacts
<1>3. ASSUME r = n - 1 PROVE s = 0
  <2>1. n * (q + 1) = n * q + n
    BY <1>1
  <2>2. n * p + s = n * (q + 1) + 0 /\ 0 \in 0..(n - 1) /\ q + 1 \in Int
    BY <1>1, <1>2, <1>3, <2>1
  <2> QED
    BY <1>2, <2>2, RemainderUnique
<1>4. ASSUME r # n - 1 PROVE s = r + 1
  <2>1. n * p + s = n * q + (r + 1) /\ r + 1 \in 0..(n - 1)
    BY <1>1, <1>2, <1>4
  <2> QED
    BY <1>1, <1>2, <2>1, RemainderUnique
<1>5. ASSUME NEW w \in Int, w % n = 0 PROVE (u + w) % n = u % n
  <2>1. PICK k \in Int : w = n * k + 0
    BY <1>5, DivisionFacts
  <2>2. PICK t \in Int, v \in 0..(n - 1) : u + w = n * t + v /\ v = (u + w) % n
    <3>1. u + w \in Int
      OBVIOUS
    <3> QED
      BY <3>1, DivisionFacts
  <2>3. n * (q + k) = n * q + n * k /\ q + k \in Int
    BY <1>1, <2>1
  <2>4. n * t + v = n * (q + k) + r
    BY <1>1, <2>1, <2>2, <2>3
  <2>5. v = r
    BY <1>1, <2>2, <2>3, <2>4, RemainderUnique
  <2> QED
    BY <1>1, <2>2, <2>5
<1>6. (u + 1) % n = IF u % n = n - 1 THEN 0 ELSE (u % n) + 1
  <2>1. r = u % n /\ s = (u + 1) % n
    BY <1>1, <1>2
  <2>2. CASE r = n - 1
    BY <1>3, <2>1, <2>2, Zenon
  <2>3. CASE r # n - 1
    BY <1>4, <2>1, <2>3, Zenon
  <2> QED
    BY <2>2, <2>3
<1> QED
  BY <1>5, <1>6
\* Unless the counter jumps, the loop after the last is next, and the first
\* after all.  (int c = id_++; bases_[c % bases_.size()].)
LEMMA TurnMoves ==
  ASSUME dep \in Deployments, NEW i \in -HalfInt..(HalfInt - 1)
  PROVE  /\ AllocBase(i) \in Bases /\ NextId(i) \in -HalfInt..(HalfInt - 1)
         /\ ~Jump(i) =>
              AllocBase(NextId(i)) = IF AllocBase(i) = dep.bases THEN 1 ELSE AllocBase(i) + 1
<1> DEFINE n == dep.bases
           u(k) == IF k < 0 THEN SizeMod + k ELSE k
<1>1. n \in Nat /\ n > 0 /\ HalfInt \in Nat /\ SizeMod \in Nat /\ HalfInt > 0 /\ 2 * HalfInt < SizeMod
  BY ServersAssumption DEF DeploymentOK
<1>2. /\ \A k : AllocBase(k) = (u(k) % n) + 1
      /\ Bases = 1..n
  BY DEF AllocBase, Bases
<1>3. NextId(i) \in -HalfInt..(HalfInt - 1)
  BY <1>1 DEF NextId
<1>4. \A k \in -HalfInt..(HalfInt - 1) : u(k) \in Int
  BY <1>1
<1> HIDE DEF n
<1>5. \A k \in -HalfInt..(HalfInt - 1) : u(k) % n \in 0..(n - 1)
  BY <1>1, <1>4, DivisionFacts
<1>6. AllocBase(i) \in Bases
  BY <1>1, <1>2, <1>5
<1>7. ASSUME ~Jump(i)
      PROVE  u(NextId(i)) % n = IF u(i) % n = n - 1 THEN 0 ELSE (u(i) % n) + 1
  <2>1. CASE i # HalfInt - 1 /\ i # -1
    <3>1. u(NextId(i)) = u(i) + 1 /\ u(i) \in Int
      BY <1>1, <2>1 DEF NextId
    <3> DEFINE w == u(i)
    <3> HIDE DEF w
    <3>2. (w + 1) % n = IF w % n = n - 1 THEN 0 ELSE (w % n) + 1
      <4>1. w \in Int /\ n \in Nat /\ n > 0
        BY <1>1, <3>1 DEF w
      <4> QED
        BY <4>1, RemainderNext
    <3> QED
      BY <3>1, <3>2, Zenon DEF w
  <2>2. CASE i = HalfInt - 1
    <3>1. (SizeMod - 2 * HalfInt) % n = 0 /\ SizeMod - 2 * HalfInt \in Int
      BY <1>1, <1>7, <2>2 DEF Jump, n
    <3>2. NextId(i) = -HalfInt /\ u(i) = HalfInt - 1 /\ u(i) \in Int
      BY <1>1, <2>2 DEF NextId
    <3>3. u(NextId(i)) = HalfInt + (SizeMod - 2 * HalfInt) /\ u(i) + 1 = HalfInt
      BY <1>1, <3>2
    <3>4. u(NextId(i)) % n = (u(i) + 1) % n
      BY <1>1, <3>1, <3>3, RemainderNext
    <3> QED
      BY <1>1, <3>2, <3>4, RemainderNext
  <2>3. CASE i = -1
    <3>1. SizeMod % n = 0
      BY <1>7, <2>3 DEF Jump, n
    <3>2. NextId(i) = 0 /\ u(i) = SizeMod - 1 /\ u(i) \in Int
      BY <1>1, <2>3 DEF NextId
    <3>3. u(NextId(i)) = 0 /\ u(i) + 1 = 0 + SizeMod
      BY <1>1, <3>2
    <3>4. (u(i) + 1) % n = 0 % n
      BY <1>1, <3>1, <3>3, RemainderNext
    <3> QED
      BY <1>1, <3>2, <3>3, <3>4, RemainderNext
  <2> QED
    BY <2>1, <2>2, <2>3
<1>8. ASSUME ~Jump(i)
      PROVE  AllocBase(NextId(i)) = IF AllocBase(i) = n THEN 1 ELSE AllocBase(i) + 1
  <2>1. u(i) % n \in 0..(n - 1) /\ u(i) % n \in Int
    BY <1>5
  <2> HIDE DEF u
  <2> QED
    BY <1>1, <1>2, <1>7, <1>8, <2>1
<1> QED
  BY <1>3, <1>6, <1>8 DEF n

\* A loop's share.
ShareOK ==
  /\ \A b \in Bases : Share(b) = Waiting(b) \cup On(b)
  /\ Waiting(1) = {}
  /\ \A b \in Bases \ {1} : \A i \in 1..Len(tasks[b]) :
       tasks[b][i].who \in Clients /\ tasks[b][i] = Add(tasks[b][i].who)

\* A loop's share is whom it is to add and whom it has; no one waits for the
\* listening loop.  (handleAccept adds its own connections at once.)
LEMMA ShareFacts == TypeOK /\ DealtOK => ShareOK
<1> SUFFICES ASSUME TypeOK, DealtOK PROVE ShareOK
  OBVIOUS
<1>1. 1 \in Bases /\ tasks[1] \in Seq(Replies) /\ \A b \in Bases \ {1} : tasks[b] \in Seq(Adds)
  BY DeploymentFacts DEF TypeOK
<1>2. \A b \in Bases : DOMAIN tasks[b] = 1..Len(tasks[b])
  BY <1>1
<1>3. DOMAIN dealt = 1..Len(dealt)
  BY DEF DealtOK
<1>4. \A b \in Bases : Share(b) = Waiting(b) \cup On(b)
  BY <1>2, <1>3 DEF Share, WaitsAt, IsOn, Waiting, On, Ran
<1>5. \A c : Add(c) \notin Replies
  BY DEF Add, Replies
<1>6. Waiting(1) = {}
  BY <1>1, <1>5 DEF Waiting, Ran
<1>7. \A t \in Adds : t.who \in Clients /\ t = Add(t.who)
  BY DEF Adds, Add
<1>8. \A b \in Bases \ {1} : \A i \in 1..Len(tasks[b]) : tasks[b][i] \in Adds
  BY <1>1
<1> QED
  BY <1>4, <1>6, <1>7, <1>8 DEF ShareOK

\* The same after a step.
LEMMA ShareFactsNext == TypeOK' /\ DealtOK' => ShareOK'
<1>1. TypeOK /\ DealtOK => ShareOK
  BY ShareFacts
<1> QED
  BY <1>1, PTL

\* Loop a with p sockets may be beside loop b with q after j jumps, at the turn
\* of loop t.
Beside(p, q, j, t, a, b, n) == p - q <= j + IF After(t, a, n) > After(t, b, n) THEN 1 ELSE 0

\* The loop whose turn it is gets one more; the turn passes on, or it jumps.
LEMMA TurnTaken ==
  ASSUME NEW n \in Nat, NEW a \in 1..n, NEW b \in 1..n, NEW t \in 1..n, NEW s \in 1..n,
         NEW p \in Nat, NEW q \in Nat, NEW j \in Nat, NEW k \in Nat, Beside(p, q, j, t, a, b, n),
         (k = j /\ s = IF t = n THEN 1 ELSE t + 1) \/ k = j + 1
  PROVE  Beside(IF a = t THEN p + 1 ELSE p, IF b = t THEN q + 1 ELSE q, k, s, a, b, n)
<1> SUFFICES (IF a = t THEN p + 1 ELSE p) - (IF b = t THEN q + 1 ELSE q)
               <= k + IF After(s, a, n) > After(s, b, n) THEN 1 ELSE 0
  BY DEF Beside
<1>0. p - q <= j + IF After(t, a, n) > After(t, b, n) THEN 1 ELSE 0
  BY DEF Beside
<1>1. \A y \in {a, b} : After(t, y, n) \in 0..(n - 1) /\ (After(t, y, n) = 0 <=> y = t)
  BY DEF After
<1>2. p - q <= j + 1 /\ (a = t => p - q <= j)
  BY <1>1, <1>0
<1>3. CASE k = j + 1
  BY <1>2, <1>3
<1>4. CASE k = j /\ s = IF t = n THEN 1 ELSE t + 1
  <2>1. \A y \in {a, b} : After(s, y, n) = IF y = t THEN n - 1 ELSE After(t, y, n) - 1
    BY <1>4 DEF After
  <2>3. CASE a = t /\ b = t
    BY <1>2, <1>4, <2>3
  <2>4. CASE a = t /\ b # t
    BY <1>1, <1>2, <1>4, <2>1, <2>4
  <2>5. CASE a # t /\ b = t
    BY <1>2, <1>4, <2>5
  <2>6. CASE a # t /\ b # t
    BY <1>1, <1>4, <1>0, <2>1, <2>6
  <2> QED
    BY <2>3, <2>4, <2>5, <2>6
<1> QED
  BY <1>3, <1>4

\* No connection yet: the listening one is on the first loop, and the second
\* loop, if there is one, is next.
LEMMA DealInit == Init => DealInv
<1> SUFFICES ASSUME Init PROVE DealInv
  OBVIOUS
<1> DEFINE n == dep.bases
           t == Due
<1>1. /\ dep \in Deployments /\ id_ = 1 /\ jumps = 0 /\ backlog = <<>> /\ dealt = <<>>
      /\ tasks = [b \in Bases |-> <<>>] /\ \A c \in Clients : place[c] = FirstPlace(c)
  BY DEF Init
<1>2. n \in Nat /\ n > 0 /\ Bases = 1..n /\ 1 \in -HalfInt..(HalfInt - 1)
  BY <1>1, ServersAssumption DEF DeploymentOK, Bases
<1>3. Ran(<<>>) = {} /\ Distinct(<<>>)
  BY DEF Ran, Distinct
<1>4. \A b \in Bases : Waiting(b) = {} /\ On(b) = {} /\ Share(b) = {}
  BY <1>1, <1>3 DEF Waiting, On, Share, WaitsAt, IsOn
<1>5. \A c \in Clients : ~dep.udp => place[c] = "none"
  BY <1>1 DEF FirstPlace
<1>6. \A c \in Clients : place[c] # "backlog"
  BY <1>1 DEF FirstPlace
<1>7. BacklogInv
  BY <1>1, <1>3, <1>6 DEF BacklogInv
<1>8. WaitingInv
  <2>1. \A b \in Bases : Distinct(tasks[b])
    BY <1>1, <1>3
  <2> QED
    BY <1>4, <1>5, <2>1 DEF WaitingInv
<1>9. OnInv
  <2>1. dealt \in Seq(Clients \X Bases) /\ Len(dealt) = 0
    BY <1>1
  <2>2. \A i, j \in 1..Len(dealt) : i < j => dealt[i][1] # dealt[j][1]
    BY <2>1
  <2>3. ~dep.udp => \A c \in Clients : place[c] \in {"open", "closed"} <=> \E b \in Bases : c \in On(b)
    BY <1>4, <1>5
  <2> QED
    BY <2>1, <2>2, <2>3 DEF OnInv, DealtOK
<1>10. \A b \in Bases : IsFiniteSet(Share(b)) /\ Load(b) = IF b = 1 THEN 1 ELSE 0
  BY <1>4, FS_EmptySet DEF Load
<1>11. t \in 1..n /\ (n > 1 => t = 2)
  <2>1. t \in 1..n
    BY <1>1, <1>2, TurnMoves DEF Due
  <2>2. n > 1 => 1 % n = 1
    BY <1>2
  <2>3. t = (1 % n) + 1
    BY <1>1 DEF AllocBase, Due
  <2> QED
    BY <2>1, <2>2, <2>3
<1>12. ASSUME NEW a \in Bases, NEW b \in Bases
       PROVE  Load(a) - Load(b) <= jumps + IF Wait(a) > Wait(b) THEN 1 ELSE 0
  <2>1. \A y \in 1..n : Wait(y) = IF y >= t THEN y - t ELSE y - t + n
    BY DEF Wait, After
  <2> HIDE DEF t, n
  <2>2. CASE n = 1
    BY <1>1, <1>2, <1>10, <1>12, <2>1, <2>2, <1>11
  <2>3. CASE n > 1
    BY <1>1, <1>2, <1>10, <1>12, <2>1, <2>3, <1>11
  <2> QED
    BY <1>2, <2>2, <2>3
<1>13. BalanceInv
  BY <1>1, <1>2, <1>10, <1>12 DEF BalanceInv
<1> QED
  BY <1>7, <1>8, <1>9, <1>13 DEF DealInv

\* Steps that leave the shares and the turn alone.
LEMMA SameShares ==
  ASSUME BalanceInv, UNCHANGED <<dep, id_, jumps>>, Bases' = Bases,
         \A b \in Bases : Share(b)' = Share(b)
  PROVE  BalanceInv'
<1>1. \A b \in Bases : Load(b)' = Load(b)
  BY DEF Load
<1>2. Due' = Due
  BY DEF Due, AllocBase
<1>3. \A b : Wait(b)' = Wait(b)
  BY <1>2 DEF Wait
<1>4. /\ id_' \in -HalfInt..(HalfInt - 1) /\ jumps' \in Nat
      /\ \A b \in Bases' : IsFiniteSet(Share(b)')
  BY DEF BalanceInv
<1>5. ASSUME NEW a \in Bases', NEW b \in Bases'
      PROVE  Load(a)' - Load(b)' <= jumps' + IF Wait(a)' > Wait(b)' THEN 1 ELSE 0
  <2>1. Load(a) - Load(b) <= jumps + IF Wait(a) > Wait(b) THEN 1 ELSE 0
    BY DEF BalanceInv
  <2> QED
    BY <1>1, <1>3, <2>1
<1> QED
  BY <1>4, <1>5 DEF BalanceInv

\* A connection that no loop has is added to one.
LEMMA NewlyOn ==
  ASSUME OnInv, DealtOK', NEW c \in Clients, NEW b \in Bases, dealt' = Append(dealt, <<c, b>>),
         \A a \in Bases : c \notin On(a),
         \A d \in Clients : place'[d] \in {"open", "closed"} <=> \E a \in Bases' : d \in On(a)'
  PROVE  OnInv'
<1>1. dealt \in Seq(Clients \X Bases)
  BY DEF OnInv, DealtOK
<1>2. /\ Len(dealt) \in Nat /\ Len(dealt') = Len(dealt) + 1 /\ dealt'[Len(dealt) + 1] = <<c, b>>
      /\ \A i \in 1..Len(dealt) : dealt'[i] = dealt[i]
  BY <1>1
<1>3. ASSUME NEW i \in 1..Len(dealt) PROVE dealt[i][1] # c
  <2>1. PICK a \in Bases : dealt[i] = <<dealt[i][1], a>>
    BY <1>1
  <2> QED
    BY <2>1 DEF On, Ran
<1>4. ASSUME NEW i \in 1..Len(dealt'), NEW j \in 1..Len(dealt'), i < j
      PROVE  dealt'[i][1] # dealt'[j][1]
  <2>1. i \in 1..Len(dealt) /\ (j \in 1..Len(dealt) \/ j = Len(dealt) + 1)
    BY <1>2, <1>4
  <2>2. CASE j \in 1..Len(dealt)
    BY <1>2, <1>4, <2>1, <2>2 DEF OnInv
  <2>3. CASE j = Len(dealt) + 1
    BY <1>2, <1>3, <2>1, <2>3
  <2> QED
    BY <2>1, <2>2, <2>3
<1> QED
  BY <1>4 DEF OnInv

\* Steps that neither accept a connection nor add one to its loop.
LEMMA DealFrame ==
  ASSUME TypeOK, TypeOK', DealInv, BacklogInv', UNCHANGED <<dep, id_, jumps, dealt>>,
         \A b \in Bases \ {1} : tasks'[b] = tasks[b],
         ~dep.udp => \A c \in Clients :
           /\ place'[c] = "queued" <=> place[c] = "queued"
           /\ place'[c] \in {"open", "closed"} <=> place[c] \in {"open", "closed"}
  PROVE  DealInv'
<1>1. Bases' = Bases /\ DealtOK /\ DealtOK'
  BY DEF Bases, DealInv, OnInv, DealtOK
<1>2. /\ Waiting(1) = {} /\ Waiting(1)' = {}
      /\ \A b \in Bases : Share(b) = Waiting(b) \cup On(b) /\ Share(b)' = Waiting(b)' \cup On(b)'
  <2>1. ShareOK /\ ShareOK'
    BY <1>1, ShareFacts, ShareFactsNext
  <2> QED
    BY <1>1, <2>1 DEF ShareOK
<1>3. \A b \in Bases : On(b)' = On(b)
  BY DEF On, Ran
<1>4. \A b \in Bases : Waiting(b)' = Waiting(b)
  <2>1. \A b \in Bases \ {1} : Waiting(b)' = Waiting(b)
    BY DEF Waiting, Ran
  <2> QED
    BY <1>2, <2>1
<1>5. \A b \in Bases : Share(b)' = Share(b)
  BY <1>2, <1>3, <1>4
<1>6. WaitingInv'
  <2>1. \A b \in Bases' \ {1} : Distinct(tasks'[b])
    BY <1>1 DEF DealInv, WaitingInv, Distinct
  <2>2. \A a, b \in Bases' : Waiting(a)' \cap Waiting(b)' # {} => a = b
    BY <1>1, <1>4 DEF DealInv, WaitingInv
  <2>3. ~dep'.udp => \A c \in Clients : place'[c] = "queued" <=> \E b \in Bases' : c \in Waiting(b)'
    BY <1>1, <1>4 DEF DealInv, WaitingInv
  <2> QED
    BY <2>1, <2>2, <2>3, Zenon DEF WaitingInv, Distinct
<1>7. OnInv'
  <2>1. \A i, j \in 1..Len(dealt') : i < j => dealt'[i][1] # dealt'[j][1]
    BY DEF DealInv, OnInv
  <2>2. ~dep'.udp =>
          \A c \in Clients : place'[c] \in {"open", "closed"} <=> \E b \in Bases' : c \in On(b)'
    BY <1>1, <1>3 DEF DealInv, OnInv
  <2> QED
    BY <1>1, <2>1, <2>2 DEF OnInv
<1>8. BalanceInv'
  BY <1>1, <1>5, SameShares DEF DealInv
<1> QED
  BY <1>6, <1>7, <1>8 DEF DealInv

\* A connection joins the share of the loop whose turn it is.
LEMMA TurnStep ==
  ASSUME TypeOK, BalanceInv, NEW c \in Clients, NEW b \in Bases, b = Due, dep' = dep,
         c \notin Share(b), Share(b)' = Share(b) \cup {c},
         \A a \in Bases \ {b} : Share(a)' = Share(a),
         id_' = NextId(id_), jumps' = (IF Jump(id_) THEN jumps + 1 ELSE jumps)
  PROVE  BalanceInv'
<1> DEFINE n == dep.bases
           t == Due
           s == AllocBase(NextId(id_))
<1>1. dep \in Deployments /\ n \in Nat /\ n > 0 /\ Bases = 1..n /\ Bases' = Bases
  BY ServersAssumption DEF TypeOK, DeploymentOK, Bases
<1>2. /\ t \in 1..n /\ s \in 1..n /\ id_' \in -HalfInt..(HalfInt - 1)
      /\ ~Jump(id_) => s = IF t = n THEN 1 ELSE t + 1
  <2>1. id_ \in -HalfInt..(HalfInt - 1)
    BY DEF BalanceInv
  <2>2. NextId(id_) \in -HalfInt..(HalfInt - 1)
    BY <1>1, <2>1, TurnMoves
  <2>3. s \in Bases
    BY <1>1, <2>2, TurnMoves
  <2> QED
    BY <1>1, <2>1, <2>2, <2>3, TurnMoves DEF Due
<1>3. /\ jumps \in Nat /\ jumps' \in Nat
      /\ (jumps' = jumps /\ s = IF t = n THEN 1 ELSE t + 1) \/ jumps' = jumps + 1
  <2>1. jumps \in Nat
    BY DEF BalanceInv
  <2>2. CASE Jump(id_)
    BY <2>1, <2>2
  <2>3. CASE ~Jump(id_)
    BY <1>2, <2>1, <2>3
  <2> QED
    BY <2>2, <2>3
<1>4. Due' = s
  BY DEF Due, AllocBase
<1>5. \A a \in Bases : IsFiniteSet(Share(a)) /\ Cardinality(Share(a)) \in Nat
  BY FS_CardinalityType DEF BalanceInv
<1>6. /\ IsFiniteSet(Share(b)') /\ Cardinality(Share(b)') = Cardinality(Share(b)) + 1
      /\ \A a \in Bases : IsFiniteSet(Share(a)')
  <2>1. IsFiniteSet(Share(b)') /\ Cardinality(Share(b)') = Cardinality(Share(b)) + 1
    BY <1>5, FS_AddElement
  <2> QED
    BY <1>5, <2>1
<1>7. \A a \in 1..n : Load(a) \in Nat /\ Load(a)' = IF a = t THEN Load(a) + 1 ELSE Load(a)
  <2>1. SUFFICES ASSUME NEW a \in 1..n
                 PROVE  Load(a) \in Nat /\ Load(a)' = IF a = t THEN Load(a) + 1 ELSE Load(a)
    OBVIOUS
  <2>2. Load(a) = Cardinality(Share(a)) + (IF a = 1 THEN 1 ELSE 0)
    BY DEF Load
  <2>3. Load(a)' = Cardinality(Share(a)') + (IF a = 1 THEN 1 ELSE 0)
    BY DEF Load
  <2>4. Cardinality(Share(a)') = IF a = t THEN Cardinality(Share(a)) + 1 ELSE Cardinality(Share(a))
    BY <1>1, <1>6
  <2> QED
    BY <1>1, <1>5, <2>2, <2>3, <2>4
<1>8. \A a, d \in 1..n :
        Load(a) - Load(d) <= jumps + IF After(t, a, n) > After(t, d, n) THEN 1 ELSE 0
  BY <1>1 DEF BalanceInv, Wait
<1> HIDE DEF n, s, t
<1>9. ASSUME NEW a \in 1..n, NEW d \in 1..n
      PROVE  Load(a)' - Load(d)' <= jumps' + IF After(s, a, n) > After(s, d, n) THEN 1 ELSE 0
  <2>1. PICK p \in Nat, q \in Nat : p = Load(a) /\ q = Load(d)
    BY <1>7
  <2>2. PICK j \in Nat, k \in Nat : j = jumps /\ k = jumps'
    BY <1>3
  <2>3. Beside(p, q, j, t, a, d, n)
    BY <1>8, <2>1, <2>2 DEF Beside
  <2>4. Beside(IF a = t THEN p + 1 ELSE p, IF d = t THEN q + 1 ELSE q, k, s, a, d, n)
    <3>1. (k = j /\ s = IF t = n THEN 1 ELSE t + 1) \/ k = j + 1
      BY <1>3, <2>2
    <3>2. n \in Nat /\ t \in 1..n /\ s \in 1..n
      BY <1>1, <1>2
    <3> QED
      BY <2>3, <3>1, <3>2, TurnTaken
  <2> QED
    BY <1>7, <2>1, <2>2, <2>4 DEF Beside
<1>10. \A a, d \in Bases' : Load(a)' - Load(d)' <= jumps' + IF Wait(a)' > Wait(d)' THEN 1 ELSE 0
  BY <1>1, <1>4, <1>9 DEF Wait, n
<1> QED
  BY <1>1, <1>2, <1>3, <1>6, <1>10 DEF BalanceInv

\* A connection is accepted: it is the listening loop's own and is added at
\* once, or it waits in its loop's tasks.  (handleAccept.)
LEMMA DealAccept ==
  ASSUME ServersInv, TypeOK', DealInv, Accept
  PROVE  DealInv'
<1> DEFINE c == Head(backlog)
<1>1. /\ TypeOK /\ dep' = dep /\ Bases' = Bases /\ ~dep.udp /\ backlog # <<>>
      /\ backlog \in Seq(Clients) /\ backlog' = Tail(backlog) /\ place \in [Clients -> Places]
      /\ id_' = NextId(id_) /\ jumps' = (IF Jump(id_) THEN jumps + 1 ELSE jumps)
  BY DEF ServersInv, TypeOK, UdpInv, Accept, Bases
<1>2. /\ c \in Clients /\ Ran(backlog) = Ran(backlog') \cup {c}
      /\ Distinct(backlog') /\ c \notin Ran(backlog')
  BY <1>1, TailFacts DEF DealInv, BacklogInv
<1>3. Due \in Bases /\ 1 \in Bases /\ DOMAIN tasks = Bases
  BY <1>1, TurnMoves, DeploymentFacts DEF TypeOK, DealInv, BalanceInv, Due
<1>4. place[c] = "backlog" /\ \A a \in Bases : c \notin Waiting(a) /\ c \notin On(a)
  BY <1>1, <1>2 DEF DealInv, BacklogInv, WaitingInv, OnInv
<1>3a. PICK b \in Bases : b = Due
  BY <1>3
<1>5. \/ /\ b = 1 /\ tasks' = tasks /\ dealt' = Append(dealt, <<c, 1>>)
         /\ place' = [place EXCEPT ![c] = "open"]
      \/ /\ b # 1 /\ tasks' = [tasks EXCEPT ![b] = Append(@, Add(c))] /\ dealt' = dealt
         /\ place' = [place EXCEPT ![c] = "queued"]
  BY <1>3a DEF Accept, Attach, Due
<1>6. DealtOK /\ (b = 1 => <<c, b>> \in Clients \X Bases) /\ ShareOK
  BY <1>1, <1>2, <1>3, ShareFacts DEF DealInv, OnInv
<1> HIDE DEF c
<1>7. BacklogInv'
  <2>1. \A d \in Clients : d \in Ran(backlog') <=> place'[d] = "backlog"
    BY <1>1, <1>2, <1>5 DEF DealInv, BacklogInv
  <2> QED
    BY <1>2, <2>1, Zenon DEF BacklogInv, Distinct, Ran
<1>8. CASE b = 1
  <2>1. /\ tasks' = tasks /\ dealt' = Append(dealt, <<c, 1>>)
        /\ \A d \in Clients : place'[d] = IF d = c THEN "open" ELSE place[d]
    BY <1>1, <1>5, <1>8
  <2>2. /\ DealtOK' /\ Ran(dealt') = Ran(dealt) \cup {<<c, 1>>}
    <3>1. Appends(Clients \X Bases, dealt, <<c, 1>>)
      BY <1>6, <1>8, AppendFacts DEF DealtOK
    <3> QED
      BY <1>1, <2>1, <3>1 DEF DealtOK, Appends
  <2>3. \A a \in Bases : Waiting(a)' = Waiting(a)
    BY <2>1 DEF Waiting, Ran
  <2>4. \A a \in Bases : On(a)' = IF a = 1 THEN On(a) \cup {c} ELSE On(a)
    BY <1>2, <2>2 DEF On
  <2>5. \A a \in Bases : Share(a) = Waiting(a) \cup On(a) /\ Share(a)' = Waiting(a)' \cup On(a)'
    BY <1>1, <1>6, <2>2, ShareFactsNext DEF ShareOK
  <2>6. WaitingInv'
    <3>1. \A a \in Bases' \ {1} : Distinct(tasks'[a])
      BY <1>1, <2>1 DEF DealInv, WaitingInv
    <3>2. \A a, d \in Bases' : Waiting(a)' \cap Waiting(d)' # {} => a = d
      BY <1>1, <2>3 DEF DealInv, WaitingInv
    <3>3. \A d \in Clients : place'[d] = "queued" <=> \E a \in Bases' : d \in Waiting(a)'
      BY <1>1, <1>4, <2>1, <2>3 DEF DealInv, WaitingInv
    <3> QED
      BY <3>1, <3>2, <3>3, Zenon DEF WaitingInv, Distinct
  <2>7. OnInv'
    <3>1. \A d \in Clients : place'[d] \in {"open", "closed"} <=> \E a \in Bases' : d \in On(a)'
      <4>1. \A d \in Clients : (\E a \in Bases' : d \in On(a)') <=> d = c \/ \E a \in Bases : d \in On(a)
        BY <1>1, <1>3, <2>4
      <4>2. \A d \in Clients : place[d] \in {"open", "closed"} <=> \E a \in Bases : d \in On(a)
        BY <1>1 DEF DealInv, OnInv
      <4> QED
        BY <2>1, <4>1, <4>2
    <3> QED
      BY <1>1, <1>2, <1>4, <1>8, <2>1, <2>2, <3>1, NewlyOn, <1>6 DEF DealInv, OnInv
  <2>8. BalanceInv'
    <3>1. c \notin Share(1) /\ Share(1)' = Share(1) \cup {c}
      BY <1>3, <1>4, <2>3, <2>4, <2>5
    <3>2. \A a \in Bases \ {1} : Share(a)' = Share(a)
      BY <2>3, <2>4, <2>5
    <3>3. BalanceInv /\ 1 = Due
      BY <1>8, <1>3a DEF DealInv
    <3> QED
      BY <1>1, <1>2, <1>3, <3>1, <3>2, <3>3, TurnStep
  <2> QED
    BY <1>7, <2>6, <2>7, <2>8 DEF DealInv
<1>9. CASE b # 1
  <2>1. /\ dealt' = dealt /\ tasks'[b] = Append(tasks[b], Add(c))
        /\ \A a \in Bases \ {b} : tasks'[a] = tasks[a]
        /\ \A d \in Clients : place'[d] = IF d = c THEN "queued" ELSE place[d]
    BY <1>1, <1>3, <1>5, <1>9
  <2>2. tasks[b] \in Seq(Adds) /\ Add(c) \in Adds
    BY <1>1, <1>2, <1>3, <1>9 DEF TypeOK, Add, Adds
  <2>3. Distinct(tasks[b]) /\ Add(c) \notin Ran(tasks[b])
    BY <1>2, <1>3, <1>4, <1>9 DEF DealInv, WaitingInv, Waiting
  <2>4. Ran(tasks'[b]) = Ran(tasks[b]) \cup {Add(c)} /\ Distinct(tasks'[b])
    <3>1. PICK q \in Seq(Adds), x \in Adds : q = tasks[b] /\ x = Add(c)
      BY <2>2
    <3>2. Distinct(q) /\ x \notin Ran(q)
      BY <2>3, <3>1
    <3>3. Ran(Append(q, x)) = Ran(q) \cup {x} /\ Distinct(Append(q, x))
      <4>1. Appends(Adds, q, x)
        BY AppendFacts
      <4> QED
        BY <3>2, <4>1 DEF Appends
    <3> QED
      BY <2>1, <3>1, <3>3
  <2>5. \A d : Add(d) = Add(c) => d = c
    BY DEF Add
  <2>6. \A a \in Bases : Waiting(a)' = IF a = b THEN Waiting(a) \cup {c} ELSE Waiting(a)
    <3>1. Waiting(b)' = Waiting(b) \cup {c}
      <4>1. \A d : Add(d) \in Ran(tasks'[b]) <=> Add(d) \in Ran(tasks[b]) \/ d = c
        BY <2>4, <2>5
      <4>2. Waiting(b)' = {d \in Clients : Add(d) \in Ran(tasks'[b])}
        BY DEF Waiting
      <4> QED
        BY <1>2, <4>1, <4>2 DEF Waiting
    <3>2. \A a \in Bases \ {b} : Waiting(a)' = Waiting(a)
      BY <2>1 DEF Waiting, Ran
    <3> QED
      BY <3>1, <3>2
  <2>7. \A a \in Bases : On(a)' = On(a)
    BY <2>1 DEF On, Ran
  <2>8. /\ DealtOK'
        /\ \A a \in Bases : Share(a) = Waiting(a) \cup On(a) /\ Share(a)' = Waiting(a)' \cup On(a)'
    <3>1. DealtOK'
      BY <1>1, <1>6, <2>1 DEF DealtOK
    <3> QED
      BY <1>1, <1>6, <3>1, ShareFactsNext DEF ShareOK
  <2>9. WaitingInv'
    <3>1. \A a \in Bases' \ {1} : Distinct(tasks'[a])
      BY <1>1, <2>1, <2>4 DEF DealInv, WaitingInv
    <3>2. \A a, d \in Bases' : Waiting(a)' \cap Waiting(d)' # {} => a = d
      BY <1>1, <1>4, <2>6 DEF DealInv, WaitingInv
    <3>3. \A d \in Clients : place'[d] = "queued" <=> \E a \in Bases' : d \in Waiting(a)'
      BY <1>1, <1>3, <2>1, <2>6 DEF DealInv, WaitingInv
    <3> QED
      BY <3>1, <3>2, <3>3, Zenon DEF WaitingInv, Distinct
  <2>10. OnInv'
    <3>1. \A d \in Clients : place'[d] \in {"open", "closed"} <=> \E a \in Bases' : d \in On(a)'
      BY <1>1, <1>4, <2>1, <2>7 DEF DealInv, OnInv
    <3>2. \A i, j \in 1..Len(dealt') : i < j => dealt'[i][1] # dealt'[j][1]
      BY <2>1 DEF DealInv, OnInv
    <3> QED
      BY <2>8, <3>1, <3>2 DEF OnInv
  <2>11. BalanceInv'
    <3>1. c \notin Share(b) /\ Share(b)' = Share(b) \cup {c}
      BY <1>3, <1>4, <2>6, <2>7, <2>8
    <3>2. \A a \in Bases \ {b} : Share(a)' = Share(a)
      BY <2>6, <2>7, <2>8
    <3>3. BalanceInv /\ b = Due
      BY <1>3a DEF DealInv
    <3> QED
      BY <1>1, <1>2, <1>3, <3>1, <3>2, <3>3, TurnStep
  <2> QED
    BY <1>7, <2>9, <2>10, <2>11 DEF DealInv
<1> QED
  BY <1>8, <1>9

\* The loop adds the connection that has waited longest.  (The task that
\* handleAccept gives to safeCall.)
LEMMA DealAdd ==
  ASSUME TypeOK, TypeOK', DealInv, NEW b \in Bases \ {1}, RunTask(b)
  PROVE  DealInv'
<1> DEFINE c == Head(tasks[b]).who
<1>1. /\ dep' = dep /\ Bases' = Bases /\ 1 \in Bases /\ DealtOK /\ ShareOK
      /\ tasks[b] # <<>> /\ tasks[b] \in Seq(Adds) /\ DOMAIN tasks = Bases /\ place \in [Clients -> Places]
  BY ShareFacts, DeploymentFacts DEF RunTask, Bases, DealInv, OnInv, TypeOK
<1>2. /\ Head(tasks[b]) = Add(c) /\ c \in Clients /\ Head(tasks[b]).kind = "add"
      /\ Ran(tasks[b]) = Ran(Tail(tasks[b])) \cup {Add(c)} /\ Add(c) \notin Ran(Tail(tasks[b]))
      /\ Distinct(Tail(tasks[b]))
  <2>1. Head(tasks[b]) \in Adds
    BY <1>1
  <2>2. Distinct(tasks[b])
    BY DEF DealInv, WaitingInv
  <2>3. Head(tasks[b]) = Add(c) /\ c \in Clients /\ Head(tasks[b]).kind = "add"
    BY <2>1 DEF Adds, Add
  <2>4. PICK q \in Seq(Adds) : q = tasks[b]
    BY <1>1
  <2>5. /\ Ran(q) = Ran(Tail(q)) \cup {Head(q)}
        /\ Distinct(q) => Distinct(Tail(q)) /\ Head(q) \notin Ran(Tail(q))
    BY <1>1, <2>4, TailFacts
  <2> HIDE DEF c
  <2> QED
    BY <2>2, <2>3, <2>4, <2>5
<1> HIDE DEF c
<1>3. /\ UNCHANGED <<id_, jumps, backlog>> /\ dealt' = Append(dealt, <<c, b>>)
      /\ tasks'[b] = Tail(tasks[b]) /\ \A a \in Bases \ {b} : tasks'[a] = tasks[a]
      /\ \A d \in Clients : place'[d] = IF d = c THEN "open" ELSE place[d]
  BY <1>1, <1>2 DEF RunTask, Attach, Add
<1>4. DealtOK' /\ Ran(dealt') = Ran(dealt) \cup {<<c, b>>}
  <2>1. PICK q \in Seq(Clients \X Bases), x \in Clients \X Bases : q = dealt /\ x = <<c, b>>
    BY <1>1, <1>2 DEF DealtOK
  <2>2. Append(q, x) \in Seq(Clients \X Bases) /\ Ran(Append(q, x)) = Ran(q) \cup {x}
    <3>1. Appends(Clients \X Bases, q, x)
      BY AppendFacts
    <3> QED
      BY <3>1 DEF Appends
  <2> QED
    BY <1>1, <1>3, <2>1, <2>2 DEF DealtOK
<1>5. \A a \in Bases : Share(a) = Waiting(a) \cup On(a) /\ Share(a)' = Waiting(a)' \cup On(a)'
  BY <1>1, <1>4, ShareFactsNext DEF ShareOK
<1>6. c \in Waiting(b) /\ \A a \in Bases \ {b} : c \notin Waiting(a)
  <2>1. c \in Waiting(b)
    BY <1>2 DEF Waiting
  <2> QED
    BY <2>1 DEF DealInv, WaitingInv
<1>7. \A a \in Bases : Waiting(a)' = IF a = b THEN Waiting(a) \ {c} ELSE Waiting(a)
  <2>1. \A d : Add(d) = Add(c) => d = c
    BY DEF Add
  <2>2. Waiting(b)' = Waiting(b) \ {c}
    BY <1>2, <1>3, <2>1 DEF Waiting
  <2>3. \A a \in Bases \ {b} : Waiting(a)' = Waiting(a)
    BY <1>3 DEF Waiting, Ran
  <2> QED
    BY <2>2, <2>3
<1>8. \A a \in Bases : On(a)' = IF a = b THEN On(a) \cup {c} ELSE On(a)
  BY <1>2, <1>4 DEF On
<1>9. \A a \in Bases : Share(a)' = Share(a)
  BY <1>5, <1>6, <1>7, <1>8
<1>10. ~dep.udp
  BY <1>1, DeploymentFacts DEF TypeOK
<1>11. place[c] = "queued" /\ \A a \in Bases : c \notin On(a)
  BY <1>2, <1>6, <1>10 DEF DealInv, WaitingInv, OnInv
<1>12. BacklogInv'
  <2>1. \A d \in Clients : d \in Ran(backlog') <=> place'[d] = "backlog"
    BY <1>3, <1>11 DEF DealInv, BacklogInv, Ran
  <2>2. Distinct(backlog')
    BY <1>3 DEF DealInv, BacklogInv, Distinct
  <2> QED
    BY <2>1, <2>2, Zenon DEF BacklogInv, Distinct, Ran
<1>13. WaitingInv'
  <2>1. \A a \in Bases' \ {1} : Distinct(tasks'[a])
    BY <1>1, <1>2, <1>3 DEF DealInv, WaitingInv
  <2>2. \A a, d \in Bases' : Waiting(a)' \cap Waiting(d)' # {} => a = d
    BY <1>1, <1>7 DEF DealInv, WaitingInv
  <2>3. \A d \in Clients : place'[d] = "queued" <=> \E a \in Bases' : d \in Waiting(a)'
    BY <1>1, <1>3, <1>6, <1>7, <1>10 DEF DealInv, WaitingInv
  <2> QED
    BY <2>1, <2>2, <2>3, Zenon DEF WaitingInv, Distinct
<1>14. OnInv'
  <2>1. \A d \in Clients : place'[d] \in {"open", "closed"} <=> \E a \in Bases' : d \in On(a)'
    <3>1. \A d \in Clients : (\E a \in Bases' : d \in On(a)') <=> d = c \/ \E a \in Bases : d \in On(a)
      BY <1>1, <1>8
    <3>2. \A d \in Clients : place[d] \in {"open", "closed"} <=> \E a \in Bases : d \in On(a)
      BY <1>10 DEF DealInv, OnInv
    <3> QED
      BY <1>3, <3>1, <3>2
  <2> QED
    BY <1>1, <1>2, <1>3, <1>4, <1>11, <2>1, NewlyOn DEF DealInv, OnInv
<1>15. BalanceInv'
  BY <1>1, <1>3, <1>9, SameShares DEF DealInv
<1> QED
  BY <1>12, <1>13, <1>14, <1>15 DEF DealInv

\* DealInv holds after every step.
LEMMA DealStep == ServersInv /\ ServersInv' /\ DealInv /\ [Next]_vars => DealInv'
<1> SUFFICES ASSUME ServersInv, ServersInv', DealInv, [Next]_vars PROVE DealInv'
  OBVIOUS
<1>1. /\ TypeOK /\ TypeOK' /\ BacklogInv
      /\ backlog \in Seq(Clients) /\ place \in [Clients -> Places]
  BY DEF ServersInv, TypeOK, DealInv
<1>2. /\ 1 \in Bases
      /\ dep.udp => Bases = {1} /\ backlog = <<>>
      /\ dep.udp => \A c \in Clients : c \in dep.clients => place[c] = "open"
  BY <1>1, DeploymentFacts DEF ServersInv, TypeOK, UdpInv
<1>3. ASSUME UNCHANGED <<dep, id_, jumps, dealt, backlog, place>>,
             \A b \in Bases \ {1} : tasks'[b] = tasks[b]
      PROVE  DealInv'
  <2>1. BacklogInv'
    <3>1. \A c \in Clients : c \in Ran(backlog') <=> place'[c] = "backlog"
      BY <1>1, <1>3 DEF BacklogInv, Ran
    <3>2. Distinct(backlog')
      BY <1>1, <1>3 DEF BacklogInv, Distinct
    <3> QED
      BY <3>1, <3>2, Zenon DEF BacklogInv, Distinct, Ran
  <2> QED
    BY <1>1, <1>3, <2>1, DealFrame
<1>4. ASSUME NEW c \in Clients, Connect(c) PROVE DealInv'
  <2>1. /\ place[c] = "none" /\ place' = [place EXCEPT ![c] = "backlog"]
        /\ backlog' = Append(backlog, c) /\ UNCHANGED <<dep, id_, jumps, dealt, tasks>>
    BY <1>4 DEF Connect, loops
  <2>2. c \notin Ran(backlog) /\ Distinct(backlog)
    BY <1>1, <2>1 DEF BacklogInv
  <2>3. Ran(backlog') = Ran(backlog) \cup {c} /\ Distinct(backlog')
    <3>1. Appends(Clients, backlog, c)
      BY <1>1, AppendFacts
    <3> QED
      BY <2>1, <2>2, <3>1 DEF Appends
  <2>4. \A d \in Clients : place'[d] = IF d = c THEN "backlog" ELSE place[d]
    BY <1>1, <2>1
  <2>5. BacklogInv'
    <3>1. \A d \in Clients : d \in Ran(backlog') <=> place'[d] = "backlog"
      BY <1>1, <2>3, <2>4 DEF BacklogInv
    <3> QED
      BY <2>3, <3>1, Zenon DEF BacklogInv, Distinct, Ran
  <2> QED
    BY <1>1, <2>1, <2>4, <2>5, DealFrame
<1>5. ASSUME AcceptFails PROVE DealInv'
  <2> DEFINE c == Head(backlog)
  <2>1. /\ backlog # <<>> /\ place' = [place EXCEPT ![c] = "leaked"]
        /\ backlog' = Tail(backlog) /\ UNCHANGED <<dep, id_, jumps, dealt, tasks>>
    BY <1>5 DEF AcceptFails, loops
  <2>2. Distinct(backlog)
    BY <1>1 DEF BacklogInv
  <2>3. /\ c \in Clients /\ Ran(backlog) = Ran(backlog') \cup {c}
        /\ Distinct(backlog') /\ c \notin Ran(backlog')
    BY <1>1, <2>1, <2>2, TailFacts
  <2> HIDE DEF c
  <2>4. \A d \in Clients : place'[d] = IF d = c THEN "leaked" ELSE place[d]
    BY <1>1, <2>1
  <2>5. BacklogInv'
    <3>1. \A d \in Clients : d \in Ran(backlog') <=> place'[d] = "backlog"
      BY <1>1, <2>3, <2>4 DEF BacklogInv
    <3> QED
      BY <2>3, <3>1, Zenon DEF BacklogInv, Distinct, Ran
  <2>6. place[c] = "backlog"
    BY <1>1, <2>3 DEF BacklogInv
  <2> QED
    BY <1>1, <2>1, <2>4, <2>5, <2>6, DealFrame
<1>6. ASSUME NEW c \in Clients, Close(c) PROVE DealInv'
  <2>1. /\ place[c] = "open" /\ place' = [place EXCEPT ![c] = "closed"]
        /\ UNCHANGED <<dep, id_, jumps, dealt, tasks, backlog>>
    BY <1>6 DEF Close, loops
  <2>2. \A d \in Clients : place'[d] = IF d = c THEN "closed" ELSE place[d]
    BY <1>1, <2>1
  <2>3. BacklogInv'
    <3>1. \A d \in Clients : d \in Ran(backlog') <=> place'[d] = "backlog"
      BY <1>1, <2>1, <2>2 DEF BacklogInv, Ran
    <3>2. Distinct(backlog')
      BY <1>1, <2>1 DEF BacklogInv, Distinct
    <3> QED
      BY <3>1, <3>2, Zenon DEF BacklogInv, Distinct, Ran
  <2> QED
    BY <1>1, <2>1, <2>2, <2>3, DealFrame
<1>7. ASSUME NEW b \in Bases, RunTask(b) PROVE DealInv'
  <2>1. CASE b = 1
    <3>1. /\ tasks[1] # <<>> /\ tasks[1] \in Seq(Replies) /\ DOMAIN tasks = Bases
          /\ tasks' = [tasks EXCEPT ![1] = Tail(@)] /\ UNCHANGED <<dep, id_, jumps, backlog>>
      BY <1>1, <1>7, <2>1 DEF RunTask, TypeOK
    <3>2. Head(tasks[1]).kind # "add"
      <4>1. Head(tasks[1]) \in Replies
        BY <3>1
      <4> QED
        BY <4>1 DEF Replies
    <3>3. UNCHANGED <<place, dealt>>
      BY <1>7, <2>1, <3>2 DEF RunTask
    <3> QED
      BY <1>3, <3>1, <3>3
  <2>2. CASE b # 1
    BY <1>1, <1>7, <2>2, DealAdd
  <2> QED
    BY <2>1, <2>2
<1>8. ASSUME NEW c \in Clients, Ask(c) \/ Lose(c) \/ Reorder(c) PROVE DealInv'
  BY <1>3, <1>8 DEF Ask, Lose, Reorder, loops
<1>9. ASSUME NEW c \in Clients, Receive(c) \/ ReceiveFrom(c) \/ Client(c) PROVE DealInv'
  BY <1>3, <1>9 DEF Receive, ReceiveFrom, Client, ClientRead, ClientClose, ClientDelete, loops, conns
<1>10. ASSUME NEW w \in Workers, Work(w) PROVE DealInv'
  <2>1. CASE Begin(w)
    BY <1>3, <2>1 DEF Begin, loops, conns
  <2>2. CASE Finish(w)
    <3>1. tasks' = [tasks EXCEPT ![1] = Append(@, running[w])] /\ DOMAIN tasks = Bases
      BY <1>1, <2>2 DEF Finish, TypeOK
    <3> QED
      BY <1>3, <2>2, <3>1 DEF Finish, conns
  <2> QED
    BY <1>10, <2>1, <2>2 DEF Work
<1>11. ASSUME NEW b \in Bases, Stop(b) \/ ExitBase(b) PROVE DealInv'
  BY <1>3, <1>11 DEF Stop, ExitBase, conns
<1>12. ASSUME ExitHSHA \/ Joined PROVE DealInv'
  BY <1>3, <1>12 DEF ExitHSHA, Joined, conns
<1>13. ASSUME UNCHANGED vars PROVE DealInv'
  BY <1>3, <1>13 DEF vars, conns, loops
<1>14. ASSUME Accept PROVE DealInv'
  BY <1>1, <1>14, DealAccept
<1> QED
  BY <1>4, <1>5, <1>6, <1>7, <1>8, <1>9, <1>10, <1>11, <1>12, <1>13, <1>14, Zenon
     DEF Next, Serve, Loop

\* An accepted connection is in one place.
LEMMA OneCopy ==
  ASSUME TypeOK, DealInv, ~dep.udp, NEW c \in Clients
  PROVE  IF place[c] \in {"queued", "open", "closed"}
         THEN \E p \in Copies(c) : Copies(c) = {p}
         ELSE Copies(c) = {}
<1>1. /\ DealtOK /\ ShareOK /\ 1 \in Bases
      /\ DOMAIN dealt = 1..Len(dealt) /\ Len(dealt) \in Nat
      /\ \A b \in Bases : DOMAIN tasks[b] = 1..Len(tasks[b]) /\ Len(tasks[b]) \in Nat
  <2>1. DealtOK /\ ShareOK /\ 1 \in Bases
    BY ShareFacts, DeploymentFacts DEF DealInv, OnInv, TypeOK
  <2>2. DOMAIN dealt = 1..Len(dealt) /\ Len(dealt) \in Nat
    BY <2>1 DEF DealtOK
  <2>3. \A b \in Bases : tasks[b] \in Seq(Replies) \/ tasks[b] \in Seq(Adds)
    BY DEF TypeOK
  <2>4. \A b \in Bases : DOMAIN tasks[b] = 1..Len(tasks[b]) /\ Len(tasks[b]) \in Nat
    BY <2>3
  <2> QED
    BY <2>1, <2>2, <2>4
<1>2. \A b \in Bases : /\ c \in Waiting(b) <=> WaitsAt(c, b) # {}
                       /\ c \in On(b) <=> IsOn(c, b) # {}
  BY <1>1 DEF Waiting, On, WaitsAt, IsOn, Ran
<1>3. \A b \in Bases : \A i, j \in WaitsAt(c, b) : i = j
  <2>1. SUFFICES ASSUME NEW b \in Bases, NEW i \in WaitsAt(c, b), NEW j \in WaitsAt(c, b)
                 PROVE  i = j
    OBVIOUS
  <2>2. b # 1 /\ i \in 1..Len(tasks[b]) /\ j \in 1..Len(tasks[b]) /\ tasks[b][i] = tasks[b][j]
    BY <1>1, <1>2 DEF WaitsAt, ShareOK
  <2>3. Distinct(tasks[b]) /\ ~(i < j) /\ ~(j < i)
    BY <2>2 DEF DealInv, WaitingInv, Distinct
  <2> QED
    BY <1>1, <2>2, <2>3
<1>4. \A a, b \in Bases : \A i \in IsOn(c, a), j \in IsOn(c, b) : i = j /\ a = b
  <2>1. SUFFICES ASSUME NEW a \in Bases, NEW b \in Bases, NEW i \in IsOn(c, a), NEW j \in IsOn(c, b)
                 PROVE  i = j /\ a = b
    OBVIOUS
  <2>2. /\ i \in 1..Len(dealt) /\ j \in 1..Len(dealt)
        /\ dealt[i] = <<c, a>> /\ dealt[j] = <<c, b>> /\ dealt[i][1] = dealt[j][1]
    BY <1>1 DEF IsOn
  <2>3. ~(i < j) /\ ~(j < i)
    BY <2>2 DEF DealInv, OnInv
  <2>4. i = j
    BY <1>1, <2>2, <2>3
  <2> QED
    BY <2>2, <2>4
<1>5. \A a, b \in Bases : WaitsAt(c, a) # {} /\ WaitsAt(c, b) # {} => a = b
  BY <1>2 DEF DealInv, WaitingInv
<1>6. /\ place[c] = "queued" <=> \E b \in Bases : WaitsAt(c, b) # {}
      /\ place[c] \in {"open", "closed"} <=> \E b \in Bases : IsOn(c, b) # {}
  BY <1>2 DEF DealInv, WaitingInv, OnInv
<1>7. \A p : p \in Copies(c) <=>
        \E b \in Bases : \/ \E i \in WaitsAt(c, b) : p = <<"waits", b, i>>
                         \/ \E i \in IsOn(c, b) : p = <<"on", b, i>>
  BY DEF Copies
<1>8. CASE place[c] = "queued"
  <2>1. PICK b \in Bases : WaitsAt(c, b) # {}
    BY <1>6, <1>8
  <2>2. PICK i \in WaitsAt(c, b) : TRUE
    BY <2>1
  <2>3. \A p : p \in Copies(c) <=> p = <<"waits", b, i>>
    BY <1>3, <1>5, <1>6, <1>7, <1>8, <2>1, <2>2
  <2>4. Copies(c) = {<<"waits", b, i>>} /\ <<"waits", b, i>> \in Copies(c)
    BY <2>3, Zenon
  <2>5. place[c] \in {"queued", "open", "closed"}
    BY <1>8
  <2> QED
    BY <2>4, <2>5, Zenon
<1>9. CASE place[c] \in {"open", "closed"}
  <2>1. PICK b \in Bases : IsOn(c, b) # {}
    BY <1>6, <1>9
  <2>2. PICK i \in IsOn(c, b) : TRUE
    BY <2>1
  <2>3. \A p : p \in Copies(c) <=> p = <<"on", b, i>>
    BY <1>4, <1>6, <1>7, <1>9, <2>1, <2>2
  <2>4. Copies(c) = {<<"on", b, i>>} /\ <<"on", b, i>> \in Copies(c)
    BY <2>3, Zenon
  <2>5. place[c] \in {"queued", "open", "closed"}
    BY <1>9
  <2> QED
    BY <2>4, <2>5, Zenon
<1>10. CASE place[c] \notin {"queued", "open", "closed"}
  BY <1>6, <1>7, <1>10
<1> QED
  BY <1>8, <1>9, <1>10

\* For any number of connections, loops and counters: an accepted connection
\* is on one loop or waits for one, and no loop gets ahead of another by more
\* than one connection, and one more for each time the wrapped counter broke
\* the turn.  (handleAccept and MultiBase::allocBase.)
THEOREM DealtAlwaysInTurn == Spec => []DealtInTurn
<1>1. Init => ServersInv /\ DealInv
  BY ServersInit, DealInit
<1>2. ServersInv /\ DealInv /\ [Next]_vars => (ServersInv /\ DealInv)'
  BY ServersStep, DealStep
<1>3. ServersInv /\ DealInv => DealtInTurn
  <2>1. SUFFICES ASSUME ServersInv, DealInv PROVE DealtInTurn
    OBVIOUS
  <2>2. \A c \in Clients : ~dep.udp =>
          IF place[c] \in {"queued", "open", "closed"}
          THEN \E p \in Copies(c) : Copies(c) = {p}
          ELSE Copies(c) = {}
    BY <2>1, OneCopy DEF ServersInv
  <2>3. ASSUME NEW a \in Bases, NEW b \in Bases PROVE Load(a) - Load(b) <= 1 + jumps
    <3>1. /\ jumps \in Nat
          /\ Load(a) - Load(b) <= jumps + IF Wait(a) > Wait(b) THEN 1 ELSE 0
      BY <2>1 DEF DealInv, BalanceInv
    <3>2. Load(a) \in Nat /\ Load(b) \in Nat
      BY <2>1, FS_CardinalityType DEF DealInv, BalanceInv, Load
    <3> QED
      BY <3>1, <3>2
  <2> QED
    BY <2>2, <2>3 DEF DealtInTurn
<1> QED
  BY <1>1, <1>2, <1>3, PTL DEF Spec
=============================================================================
