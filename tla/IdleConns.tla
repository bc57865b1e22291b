------------------------------ MODULE IdleConns ------------------------------
(***************************************************************************)
(* Idle connections: registerIdle, updateIdle, unregisterIdle and callIdles *)
(* (event_base.cc) with their callers in TcpConn (conn.cc).  For each       *)
(* number of idle seconds the loop keeps a list of connections, the one     *)
(* heard of longest ago first; once a second callIdles walks a copy of each *)
(* list from the front and stops at the first that is not idle.             *)
(*                                                                          *)
(* One loop thread: the steps of a walk are told apart because user code    *)
(* runs between them.  Time is in seconds, as in the code.                  *)
(***************************************************************************)
EXTENDS Integers, Sequences

CONSTANTS
  Conns,       \* the connections
  Idles,       \* the numbers of idle seconds that are registered
  Reconnecting,\* connections with a reconnect interval
  MaxNow       \* bound: the clock

ASSUME IdleAssumption ==
  /\ Idles \subseteq Nat \ {0} /\ Reconnecting \subseteq Conns /\ MaxNow \in Nat

VARIABLES
  now,       \* the clock
  due,       \* when the repeating timer of callIdles is due; 0: not armed
  lists,     \* idleConns_: for each number of seconds a list of IdleNodes
  ids,       \* idleIds_ of each connection: the lists it is registered in
  state,     \* "new", "open", "down" (will reconnect), "closed"
  closing,   \* connections with a task of close() queued
  walk,      \* the walk of callIdles that is under way, or NoWalk
  called,    \* history: the callbacks of this walk, <<connection, seconds>>
  heard      \* history: when each connection was last read, or registered, for each
             \* number of seconds

conns == <<lists, ids, state, closing, heard>>
vars == <<now, due, walk, called, conns>>

\* at: callIdles' now; todo: the lists still to walk; idle, copy: the list
\* that is being walked and what is left of its copy.
NoWalk == [at |-> 0, todo |-> {}, idle |-> 0, copy |-> <<>>]
Node(c, t) == [con |-> c, updated |-> t]

Init ==
  /\ now = 1 /\ due = 0
  /\ lists = [i \in Idles |-> <<>>]
  /\ ids = [c \in Conns |-> {}]
  /\ state = [c \in Conns |-> "new"]
  /\ closing = {}
  /\ walk = NoWalk /\ called = {}
  /\ heard = [c \in Conns |-> [i \in Idles |-> 0]]

Tick ==
  /\ now < MaxNow
  /\ now' = now + 1
  /\ UNCHANGED <<due, walk, called, conns>>

\* The loop is not inside callIdles.
Free == walk = NoWalk

-----------------------------------------------------------------------------
(* The connections.                                                         *)

\* unregisterIdle: the node of a connection is erased.
Without(c, lst) ==
  LET iter == CHOOSE k \in DOMAIN lst : lst[k].con = c
  IN  IF \E k \in DOMAIN lst : lst[k].con = c
      THEN [k \in 1..(Len(lst) - 1) |-> lst[IF k < iter THEN k ELSE k + 1]]
      ELSE lst

Connected(c) ==
  /\ Free /\ state[c] \in {"new", "down"}
  /\ state' = [state EXCEPT ![c] = "open"]
  /\ UNCHANGED <<now, due, walk, called, lists, ids, closing, heard>>

\* registerIdle: a node at the end of the list.
RegisterIdle(lst, c) == Append(lst, Node(c, now))

\* addIdleCB: the first registration arms the timer.
AddIdleCB(c, i) ==
  /\ Free /\ state[c] = "open" /\ i \notin ids[c]
  /\ due' = IF due = 0 THEN now + 1 ELSE due
  /\ lists' = [lists EXCEPT ![i] = RegisterIdle(@, c)]
  /\ ids' = [ids EXCEPT ![c] = @ \cup {i}]
  /\ heard' = [heard EXCEPT ![c][i] = now]
  /\ UNCHANGED <<now, walk, called, state, closing>>

\* A mutant: updateIdle leaves the node where it is in the list.
MutUpdateIdle(lst, c) ==
  [k \in DOMAIN lst |-> IF lst[k].con = c THEN Node(c, now) ELSE lst[k]]

\* updateIdle: the node gets the current second and moves to the end.
UpdateIdle(lst, c) ==
  IF \E k \in DOMAIN lst : lst[k].con = c THEN Append(Without(c, lst), Node(c, now)) ELSE lst

\* A mutant: only the shortest of the connection's idle times is updated.
MutHandleRead(c) ==
  /\ Free /\ state[c] = "open" /\ ids[c] # {}
  /\ LET i == CHOOSE i \in ids[c] : \A j \in ids[c] : i <= j
     IN  lists' = [lists EXCEPT ![i] = UpdateIdle(@, c)]
  /\ heard' = [heard EXCEPT ![c] = [i \in Idles |-> now]]
  /\ UNCHANGED <<now, due, walk, called, ids, state, closing>>

\* handleRead reached EAGAIN: every registration of the connection is updated.
HandleRead(c) ==
  /\ Free /\ state[c] = "open" /\ ids[c] # {}
  /\ lists' = [i \in Idles |-> IF i \in ids[c] THEN UpdateIdle(lists[i], c) ELSE lists[i]]
  /\ heard' = [heard EXCEPT ![c] = [i \in Idles |-> now]]
  /\ UNCHANGED <<now, due, walk, called, ids, state, closing>>

\* cleanup: the connection is unregistered, unless it will reconnect.
Cleanup(c) ==
  IF c \in Reconnecting
  THEN state' = [state EXCEPT ![c] = "down"] /\ UNCHANGED <<lists, ids>>
  ELSE /\ state' = [state EXCEPT ![c] = "closed"]
       /\ lists' = [i \in Idles |-> Without(c, lists[i])]
       /\ ids' = [ids EXCEPT ![c] = {}]

\* The peer ended the connection, or the task of close() runs.
Ends(c) ==
  /\ Free /\ state[c] = "open"
  /\ Cleanup(c)
  /\ closing' = closing \ {c}
  /\ UNCHANGED <<now, due, walk, called, heard>>

\* The task of close() finds the connection gone: channel_ is null.
CloseTooLate(c) ==
  /\ Free /\ c \in closing /\ state[c] # "open"
  /\ closing' = closing \ {c}
  /\ UNCHANGED <<now, due, walk, called, lists, ids, state, heard>>

-----------------------------------------------------------------------------
(* callIdles.                                                               *)

\* The repeating timer is due.
CallIdles ==
  /\ Free /\ due > 0 /\ due <= now
  /\ due' = due + 1
  /\ walk' = [NoWalk EXCEPT !.at = now, !.todo = Idles]
  /\ called' = {}
  /\ UNCHANGED <<now, conns>>

\* The next list in the order of its seconds is copied.
NextList ==
  /\ ~Free /\ walk.idle = 0 /\ walk.todo # {}
  /\ LET i == CHOOSE i \in walk.todo : \A j \in walk.todo : i <= j
     IN  walk' = [walk EXCEPT !.todo = @ \ {i}, !.idle = i, !.copy = lists[i]]
  /\ UNCHANGED <<now, due, called, conns>>

Idle(node) == node.updated + walk.idle <= walk.at

\* The front of the copy is idle: it is marked and moved to the end, of the
\* copy.  Its callback does nothing, or close()s the connection, as the
\* documentation shows, or ends a connection at once with closeNow.
CallBack ==
  /\ ~Free /\ walk.copy # <<>> /\ Idle(Head(walk.copy))
  /\ LET c == Head(walk.copy).con
     IN  /\ walk' = [walk EXCEPT !.copy = Append(Tail(@), Node(c, walk.at))]
         /\ called' = called \cup {<<c, walk.idle>>}
         /\ \/ UNCHANGED <<lists, ids, state, closing>>
            \/ /\ state[c] = "open" /\ closing' = closing \cup {c}
               /\ UNCHANGED <<lists, ids, state>>
            \/ \E d \in Conns : state[d] = "open" /\ Cleanup(d) /\ UNCHANGED closing
  /\ UNCHANGED <<now, due, heard>>

ListDone == walk.idle # 0 /\ (walk.copy # <<>> => ~Idle(Head(walk.copy)))

LeaveList ==
  /\ ~Free /\ ListDone
  /\ walk' = IF walk.todo = {} THEN NoWalk ELSE [walk EXCEPT !.idle = 0, !.copy = <<>>]
  /\ UNCHANGED <<now, due, called, conns>>

Next ==
  \/ Tick
  \/ \E c \in Conns : Connected(c) \/ HandleRead(c) \/ Ends(c) \/ CloseTooLate(c)
                      \/ \E i \in Idles : AddIdleCB(c, i)
  \/ CallIdles \/ NextList \/ CallBack \/ LeaveList

Spec == Init /\ [][Next]_vars

-----------------------------------------------------------------------------
(* Properties.                                                              *)

\* When the walk leaves a list it has called back every connection that has
\* been idle for that long: stopping at the first fresh node misses none.
\* (callIdles relies on updateIdle keeping each list in the order of its
\* times, also while callbacks close connections.)
IdleAreCalled ==
  ListDone => \A c \in Conns :
    walk.idle \in ids[c] /\ heard[c][walk.idle] + walk.idle <= walk.at
      => <<c, walk.idle>> \in called

\* A connection something was read from within that many seconds is not
\* called back, whatever other times it is registered for.
OnlyIdleAreCalled ==
  ~Free => \A p \in called : heard[p[1]][p[2]] + p[2] <= walk.at
=============================================================================
