-------------------------------- MODULE Servers --------------------------------
(***************************************************************************)
(* TcpServer and MultiBase (conn.cc, event_base.h), the half synchronous,   *)
(* half asynchronous servers HSHA (conn.cc) and HSHAU over UdpServer        *)
(* (udp.cc): accepted connections are dealt to the loops in turn, messages  *)
(* are read on a loop, worked on by a pool thread, and answered by a task   *)
(* that is given back to the loop.                                          *)
(*                                                                          *)
(* Of the loops only the task queue and the exit flag are kept, of the pool *)
(* what module TaskService promises: modules EventLoop and ThreadPool show  *)
(* how they are made.  A deployment says which server is running.           *)
(***************************************************************************)
EXTENDS Integers, Sequences, FiniteSets

CONSTANTS
  Clients,     \* the peers
  Deployments, \* [bases, workers, udp, clients, msgs]: see DeploymentOK
  HalfInt,     \* half the range of MultiBase's int counter (2^31)
  SizeMod      \* the range of size_t (2^64)

\* bases: loops of the MultiBase, 1 for an EventBase; workers: threads of the
\* pool, 0 for a plain TcpServer; clients: who connects; msgs: bound on the
\* messages of each.
DeploymentOK(d) ==
  /\ d.bases \in Nat \ {0} /\ d.workers \in Nat /\ d.msgs \in Nat /\ d.udp \in BOOLEAN
  /\ d.clients \subseteq Clients
  /\ d.udp => d.bases = 1 /\ d.workers > 0

ASSUME ServersAssumption ==
  /\ \A d \in Deployments : DeploymentOK(d)
  /\ {HalfInt, SizeMod} \subseteq Nat /\ 1 < HalfInt /\ 2 * HalfInt < SizeMod

VARIABLES
  dep,      \* the deployment
  id_,      \* MultiBase's counter
  backlog,  \* connections the listening socket has not accepted
  place,    \* where each connection is: see Places
  tasks,    \* each loop's tasks_
  exit_,    \* each loop's exit_
  stopped,  \* loops whose loop() has returned
  inbox,    \* messages of each client that the server has not read
  asked,    \* messages each client has sent
  jobs,     \* the pool's queue
  running,  \* the job of each pool thread, or NoJob
  closed,   \* the pool has been told to exit
  last,     \* pool threads that have begun a job since then
  joining,  \* loop 1 is inside hsha->exit(), waiting for the pool
  dealt,    \* history: accepted connections, in order, with their loops
  jumps,    \* history: times the turn of the loops was broken: see Jump
  read,     \* history: messages the server has read, in order
  answers,  \* history: answers written to each client
  end,      \* a UDP client's UdpConn: "open", "closing", "deleted"
  back,     \* datagrams in flight to each client
  handed    \* history: answers each UDP client's callback was given

conns == <<backlog, place, inbox, asked>>
pool == <<jobs, running, closed, last>>
loops == <<tasks, exit_, stopped, joining>>
peers == <<end, back, handed>>
vars == <<dep, id_, jumps, conns, loops, pool, dealt, read, answers, peers>>

Bases == 1..dep.bases
Workers == 1..dep.workers
Places == {"none", "backlog", "leaked", "queued", "open", "closed"}

NoJob == <<>>
Add(c) == [kind |-> "add", who |-> c, msg |-> 0]
Reply(c, m) == [kind |-> "reply", who |-> c, msg |-> m]

\* A UDP server is bound to its socket, and reads from whoever sends.
FirstPlace(c) == IF dep.udp /\ c \in dep.clients THEN "open" ELSE "none"

\* The constructor of the server has taken the listening loop from bases_.
Init ==
  /\ dep \in Deployments
  /\ id_ = 1 /\ jumps = 0
  /\ backlog = <<>>
  /\ place = [c \in Clients |-> FirstPlace(c)]
  /\ tasks = [b \in Bases |-> <<>>]
  /\ exit_ = [b \in Bases |-> FALSE] /\ stopped = {}
  /\ inbox = [c \in Clients |-> <<>>] /\ asked = [c \in Clients |-> 0]
  /\ jobs = <<>> /\ running = [w \in Workers |-> NoJob]
  /\ closed = FALSE /\ last = {} /\ joining = FALSE
  /\ dealt = <<>> /\ read = {} /\ answers = [c \in Clients |-> <<>>]
  /\ end = [c \in Clients |-> "open"]
  /\ back = [c \in Clients |-> <<>>] /\ handed = [c \in Clients |-> <<>>]

\* Loop b is running and not blocked in a callback.
Turns(b) == b \notin stopped /\ ~(b = 1 /\ joining)

-------------------------------------------------------------------------------
(* Accepting.                                                               *)

Connect(c) ==
  /\ c \in dep.clients /\ place[c] = "none"
  /\ place' = [place EXCEPT ![c] = "backlog"]
  /\ backlog' = Append(backlog, c)
  /\ UNCHANGED <<dep, id_, jumps, inbox, asked, loops, pool, dealt, read, answers, peers>>

\* int c = id_++, which wraps.
NextId(i) == IF i = HalfInt - 1 THEN -HalfInt ELSE i + 1

\* bases_[c % bases_.size()]: the int is converted to the unsigned size_t.
AllocBase(i) == ((IF i < 0 THEN SizeMod + i ELSE i) % dep.bases) + 1

\* What the conversion skips when the counter wraps, and again when it comes
\* back to 0, is no whole number of rounds: the loop after the last is not next.
Jump(i) ==
  \/ i = HalfInt - 1 /\ (SizeMod - 2 * HalfInt) % dep.bases # 0
  \/ i = -1 /\ SizeMod % dep.bases # 0

Attach(c, b) ==
  /\ place' = [place EXCEPT ![c] = "open"]
  /\ dealt' = Append(dealt, <<c, b>>)

\* A mutant: the connection of the listening loop itself is queued and added.
MutAccept ==
  /\ Turns(1) /\ backlog # <<>>
  /\ LET c == Head(backlog)
         b == AllocBase(id_)
     IN  /\ Attach(c, b)
         /\ tasks' = [tasks EXCEPT ![b] = Append(@, Add(c))]
  /\ id_' = NextId(id_) /\ jumps' = (IF Jump(id_) THEN jumps + 1 ELSE jumps)
  /\ backlog' = Tail(backlog)
  /\ UNCHANGED <<dep, inbox, asked, exit_, stopped, joining, pool, read, answers, peers>>

\* One turn of handleAccept's loop: at once if it is the listening loop's own
\* connection, else by safeCall.
Accept ==
  /\ Turns(1) /\ backlog # <<>>
  /\ LET c == Head(backlog)
         b == AllocBase(id_)
     IN  IF b = 1
         THEN Attach(c, b) /\ UNCHANGED tasks
         ELSE /\ place' = [place EXCEPT ![c] = "queued"]
              /\ tasks' = [tasks EXCEPT ![b] = Append(@, Add(c))]
              /\ UNCHANGED dealt
  /\ id_' = NextId(id_) /\ jumps' = (IF Jump(id_) THEN jumps + 1 ELSE jumps)
  /\ backlog' = Tail(backlog)
  /\ UNCHANGED <<dep, inbox, asked, exit_, stopped, joining, pool, read, answers, peers>>

\* getpeername or getsockname fails: the loop goes on, the socket stays open.
AcceptFails ==
  /\ Turns(1) /\ backlog # <<>>
  /\ place' = [place EXCEPT ![Head(backlog)] = "leaked"]
  /\ backlog' = Tail(backlog)
  /\ UNCHANGED <<dep, id_, jumps, inbox, asked, loops, pool, dealt, read, answers, peers>>

-------------------------------------------------------------------------------
(* Messages.                                                                *)

\* The loop that reads from c.
LoopOf(c) == IF \E i \in DOMAIN dealt : dealt[i][1] = c
             THEN dealt[CHOOSE i \in DOMAIN dealt : dealt[i][1] = c][2] ELSE 1

\* The client sends: over UDP UdpConn::send, which does nothing after close().
Ask(c) ==
  /\ place[c] = "open" /\ asked[c] < dep.msgs /\ end[c] = "open"
  /\ asked' = [asked EXCEPT ![c] = @ + 1]
  /\ inbox' = [inbox EXCEPT ![c] = Append(@, asked[c] + 1)]
  /\ UNCHANGED <<dep, id_, jumps, backlog, place, loops, pool, dealt, read, answers, peers>>

\* A datagram is lost, or overtaken by the next one.
Lose(c) ==
  /\ dep.udp /\ inbox[c] # <<>>
  /\ inbox' = [inbox EXCEPT ![c] = Tail(@)]
  /\ UNCHANGED <<dep, id_, jumps, backlog, place, asked, loops, pool, dealt, read, answers, peers>>

Reorder(c) ==
  /\ dep.udp /\ Len(inbox[c]) > 1
  /\ inbox' = [inbox EXCEPT ![c] = <<@[2], @[1]>> \o SubSeq(@, 3, Len(@))]
  /\ UNCHANGED <<dep, id_, jumps, backlog, place, asked, loops, pool, dealt, read, answers, peers>>

\* addTask refuses the job once the pool exits.
AddTask(job) == jobs' = IF closed THEN jobs ELSE Append(jobs, job)

\* The message callback: HSHA gives the message to the pool; a plain server
\* answers on the spot.
Receive(c) ==
  /\ ~dep.udp /\ place[c] = "open" /\ inbox[c] # <<>> /\ Turns(LoopOf(c))
  /\ inbox' = [inbox EXCEPT ![c] = Tail(@)]
  /\ read' = read \cup {<<c, Head(inbox[c])>>}
  /\ IF dep.workers = 0
     THEN /\ answers' = [answers EXCEPT ![c] = Append(@, Head(inbox[c]))]
          /\ UNCHANGED jobs
     ELSE AddTask(Reply(c, Head(inbox[c]))) /\ UNCHANGED answers
  /\ UNCHANGED <<dep, id_, jumps, backlog, place, asked, loops, running, closed, last, dealt, peers>>

\* UdpServer's read handler: one datagram.
ReceiveFrom(c) ==
  /\ dep.udp /\ inbox[c] # <<>> /\ Turns(1)
  /\ inbox' = [inbox EXCEPT ![c] = Tail(@)]
  /\ read' = read \cup {<<c, Head(inbox[c])>>}
  /\ AddTask(Reply(c, Head(inbox[c])))
  /\ UNCHANGED <<dep, id_, jumps, backlog, place, asked, loops, running, closed, last, dealt,
                 answers, peers>>

\* A pool thread takes the oldest job; after exit() at most one more each.
Begin(w) ==
  /\ jobs # <<>> /\ running[w] = NoJob /\ w \notin last
  /\ running' = [running EXCEPT ![w] = Head(jobs)]
  /\ jobs' = Tail(jobs)
  /\ last' = IF closed THEN last \cup {w} ELSE last
  /\ UNCHANGED <<dep, id_, jumps, conns, loops, closed, dealt, read, answers, peers>>

\* A mutant: the loop's queue is bounded and safeCall's task is dropped when full.
MutFinish(w) ==
  /\ running[w] # NoJob
  /\ tasks' = IF tasks[1] = <<>> THEN [tasks EXCEPT ![1] = <<running[w]>>] ELSE tasks
  /\ running' = [running EXCEPT ![w] = NoJob]
  /\ UNCHANGED <<dep, id_, jumps, conns, exit_, stopped, joining, jobs, closed, last, dealt,
                 read, answers, peers>>

\* The callback has an answer; safeCall on the server's loop.
Finish(w) ==
  /\ running[w] # NoJob
  /\ tasks' = [tasks EXCEPT ![1] = Append(@, running[w])]
  /\ running' = [running EXCEPT ![w] = NoJob]
  /\ UNCHANGED <<dep, id_, jumps, conns, exit_, stopped, joining, jobs, closed, last, dealt,
                 read, answers, peers>>

\* A mutant: the answer goes to whoever is connected, asker or not.
MutRunTask(b) ==
  /\ Turns(b) /\ tasks[b] # <<>>
  /\ tasks' = [tasks EXCEPT ![b] = Tail(@)]
  /\ LET t == Head(tasks[b])
     IN  IF t.kind = "add"
         THEN Attach(t.who, b) /\ UNCHANGED answers
         ELSE /\ \E c \in Clients : answers' = [answers EXCEPT ![c] = Append(@, t.msg)]
              /\ UNCHANGED <<place, dealt>>
  /\ UNCHANGED <<dep, id_, jumps, backlog, inbox, asked, exit_, stopped, joining, pool, read, peers>>

\* sendMsg, which does nothing for a connection that is gone, or sendTo.
SendTo(c, m) ==
  /\ answers' = IF place[c] = "open" THEN [answers EXCEPT ![c] = Append(@, m)] ELSE answers
  /\ back' = IF dep.udp /\ end[c] # "deleted" THEN [back EXCEPT ![c] = Append(@, m)] ELSE back

\* The loop runs its oldest task: add a connection, or answer.
RunTask(b) ==
  /\ Turns(b) /\ tasks[b] # <<>>
  /\ tasks' = [tasks EXCEPT ![b] = Tail(@)]
  /\ LET t == Head(tasks[b])
     IN  IF t.kind = "add"
         THEN Attach(t.who, b) /\ UNCHANGED <<answers, back>>
         ELSE SendTo(t.who, t.msg) /\ UNCHANGED <<place, dealt>>
  /\ UNCHANGED <<dep, id_, jumps, backlog, inbox, asked, exit_, stopped, joining, pool, read, end, handed>>

\* The peer closes; its loop cleans the connection up.  UdpServer has none.
Close(c) ==
  /\ ~dep.udp /\ place[c] = "open" /\ Turns(LoopOf(c))
  /\ place' = [place EXCEPT ![c] = "closed"]
  /\ inbox' = [inbox EXCEPT ![c] = <<>>]
  /\ UNCHANGED <<dep, id_, jumps, backlog, asked, loops, pool, dealt, read, answers, peers>>

-------------------------------------------------------------------------------
(* The UDP client's end: UdpConn.                                           *)

\* The channel's handler gives the datagram to the callback.  After close() it
\* reads nothing, and close() again does nothing.
ClientRead(c) ==
  /\ dep.udp /\ back[c] # <<>> /\ end[c] = "open"
  /\ \E i \in DOMAIN back[c] :
       /\ handed' = [handed EXCEPT ![c] = Append(@, back[c][i])]
       /\ back' = [back EXCEPT ![c] = SubSeq(@, 1, i - 1) \o SubSeq(@, i + 1, Len(@))]
  /\ UNCHANGED <<dep, id_, jumps, conns, loops, pool, dealt, read, answers, end>>

\* close(): channel_ is null at once, the channel itself is deleted by a task.
ClientClose(c) ==
  /\ dep.udp /\ end[c] = "open"
  /\ end' = [end EXCEPT ![c] = "closing"]
  /\ UNCHANGED <<dep, id_, jumps, conns, loops, pool, dealt, read, answers, back, handed>>

\* Its destructor closes the socket, and calls the handler once more.
ClientDelete(c) ==
  /\ end[c] = "closing"
  /\ end' = [end EXCEPT ![c] = "deleted"]
  /\ back' = [back EXCEPT ![c] = <<>>]
  /\ UNCHANGED <<dep, id_, jumps, conns, loops, pool, dealt, read, answers, handed>>

-------------------------------------------------------------------------------
(* Exit, as the examples do it.                                             *)

\* MultiBase::exit(), from the signal handler: one loop after the other.
ExitBase(b) ==
  /\ dep.workers = 0
  /\ ~exit_[b] /\ \A a \in 1..b - 1 : exit_[a]
  /\ exit_' = [exit_ EXCEPT ![b] = TRUE]
  /\ UNCHANGED <<dep, id_, jumps, conns, tasks, stopped, joining, pool, dealt, read, answers, peers>>

\* base.exit(); hsha->exit(): on the loop thread, which then waits for the pool.
ExitHSHA ==
  /\ dep.workers > 0 /\ ~exit_[1]
  /\ exit_' = [exit_ EXCEPT ![1] = TRUE]
  /\ closed' = TRUE /\ joining' = TRUE
  /\ UNCHANGED <<dep, id_, jumps, conns, tasks, stopped, jobs, running, last, dealt, read, answers, peers>>

\* join() returns once no pool thread has a job left.
Joined ==
  /\ joining
  /\ \A w \in Workers : running[w] = NoJob
  /\ joining' = FALSE
  /\ last' = Workers
  /\ UNCHANGED <<dep, id_, jumps, conns, tasks, exit_, stopped, jobs, running, closed, dealt,
                 read, answers, peers>>

\* loop() returns; what is in tasks_ is not run any more.
Stop(b) ==
  /\ exit_[b] /\ Turns(b)
  /\ stopped' = stopped \cup {b}
  /\ UNCHANGED <<dep, id_, jumps, conns, tasks, exit_, joining, pool, dealt, read, answers, peers>>

-------------------------------------------------------------------------------
Serve(c) == Receive(c) \/ ReceiveFrom(c) \/ Close(c)
Client(c) == ClientRead(c) \/ ClientClose(c) \/ ClientDelete(c)
Loop(b) == RunTask(b) \/ Stop(b)
Work(w) == Begin(w) \/ Finish(w)

Next ==
  \/ \E c \in Clients : Connect(c) \/ Ask(c) \/ Lose(c) \/ Reorder(c) \/ Serve(c) \/ Client(c)
  \/ Accept \/ AcceptFails
  \/ \E b \in Bases : Loop(b) \/ ExitBase(b)
  \/ \E w \in Workers : Work(w)
  \/ ExitHSHA \/ Joined

Spec == Init /\ [][Next]_vars

\* Every loop turns for each of its sources of work, every pool thread runs and
\* its callback returns.
FairSpec ==
  /\ Spec
  /\ WF_vars(Accept)
  /\ \A c \in Clients : WF_vars(Receive(c) \/ ReceiveFrom(c))
  /\ \A b \in UNION {1..d.bases : d \in Deployments} : WF_vars(b \in Bases /\ RunTask(b))
  /\ \A w \in UNION {1..d.workers : d \in Deployments} : WF_vars(w \in Workers /\ Work(w))

-------------------------------------------------------------------------------
(* Properties.                                                              *)

\* Where a connection is on its way to loop b: in its queue, or on it.
WaitsAt(c, b) == {i \in DOMAIN tasks[b] : tasks[b][i] = Add(c)}
IsOn(c, b) == {i \in DOMAIN dealt : dealt[i] = <<c, b>>}
Copies(c) == UNION {{<<"waits", b, i>> : i \in WaitsAt(c, b)} \cup {<<"on", b, i>> : i \in IsOn(c, b)}
                    : b \in Bases}

\* The sockets loop b has to serve: the first has the listening one.
Share(b) == {c \in Clients : WaitsAt(c, b) \cup IsOn(c, b) # {}}
Load(b) == Cardinality(Share(b)) + IF b = 1 THEN 1 ELSE 0

\* A connection the server has accepted is on exactly one loop or waits in
\* exactly one loop's queue, and the loops get them in turn: with the listening
\* socket counted, no loop is ahead of another by more than one connection,
\* and one more for each time the wrapped counter broke the turn.
\* (handleAccept, allocBase.)
DealtInTurn ==
  /\ \A c \in Clients : ~dep.udp =>
       IF place[c] \in {"queued", "open", "closed"}
       THEN \E p \in Copies(c) : Copies(c) = {p}
       ELSE Copies(c) = {}
  /\ \A a, b \in Bases : Load(a) - Load(b) <= 1 + jumps

\* Each client gets answers to messages of its own that the server has read,
\* to each at most once, over UDP as well; and with a single pool thread, or
\* none, in the order in which it asked.  (HSHA::onMsg, HSHAU::onMsg.)
AnswersOnce ==
  \A c \in Clients :
    /\ \A i \in DOMAIN answers[c] : <<c, answers[c][i]>> \in read
    /\ \A i, j \in DOMAIN answers[c] : i # j => answers[c][i] # answers[c][j]
    /\ \A i \in DOMAIN handed[c] : \E j \in DOMAIN answers[c] : answers[c][j] = handed[c][i]
    /\ \A i, j \in DOMAIN handed[c] : i # j => handed[c][i] # handed[c][j]
    /\ ~dep.udp /\ dep.workers < 2 =>
         \A i, j \in DOMAIN answers[c] : i < j => answers[c][i] < answers[c][j]

\* A message that was read is answered, unless its connection closes or the
\* server exits first.
AnswerComes ==
  \A p \in UNION {d.clients \X (1..d.msgs) : d \in Deployments} :
    LET c == p[1]
    IN  p \in read
          ~> (\E i \in DOMAIN answers[c] : answers[c][i] = p[2]) \/ place[c] = "closed" \/ exit_[1]
===============================================================================
