------------------------------- MODULE TcpConn -------------------------------
(***************************************************************************)
(* handy/conn.cc (and reconnect, in event_base.cc): the life of one TcpConn *)
(* on its loop thread, from connect or attach to cleanup or reconnection.   *)
(*                                                                          *)
(* What is hard here is re-entrance.  User callbacks run inside handleRead, *)
(* handleWrite and cleanup, may send and close, and a failed send or a      *)
(* closed channel runs cleanup again under the frames that are still        *)
(* active.  The model therefore has an explicit call stack: "stack" holds   *)
(* what is left to do of every active call, the innermost last.             *)
(*                                                                          *)
(* The socket is what the kernel would answer: a connection state, whether  *)
(* unread data waits, whether the send buffer is full.  Each send carries   *)
(* one unit, its number; input is only "some" or none.  What user code does *)
(* in each callback is a set of operations given by the configuration.      *)
(***************************************************************************)
EXTENDS Integers, Sequences

CONSTANTS
  ReadOps,      \* what user code does in readcb_,
  WritableOps,  \* in writablecb_,
  StateOps,     \* in statecb_,
  TaskOps,      \* and on the loop thread outside the callbacks
  SendStates,   \* the states in which user code sends
  Reconnects,   \* whether setReconnectInterval was given an interval >= 0
  Timeout,      \* connect was given a timeout
  MaxSends,     \* bound: sends by user code
  MaxAttempts,  \* bound: calls of connect
  MaxStack      \* bound: depth of the stack below which user code acts

Ops == {"consume", "send", "sendBuffer", "sendMsg", "closeNow", "close"}
States == {"Handshaking", "Connected", "Closed", "Failed"}

ASSUME ConnAssumption ==
  /\ ReadOps \cup WritableOps \cup StateOps \cup TaskOps \subseteq Ops
  /\ SendStates \subseteq States
  /\ Reconnects \subseteq BOOLEAN /\ Timeout \in BOOLEAN
  /\ {MaxSends, MaxAttempts, MaxStack} \subseteq Nat /\ MaxAttempts > 0

VARIABLES
  state_,     \* state_
  channel_,   \* "null"; "open"; "closed": a Channel whose fd_ is -1
  wen,        \* the channel listens for write events
  input_,     \* input_ holds data (0 or 1)
  output_,    \* the units in output_
  cbs,        \* readcb_, writablecb_ and statecb_ are set
  timer,      \* the connect-timeout timer is armed
  reconnects, \* reconnectInterval_ >= 0
  recon,      \* "no"; "timed": in reconnectConns_ and its timer armed;
              \* "orphan": in reconnectConns_, no timer
  exit_,      \* the base's exit_
  ended,      \* loop() is past its clean-up
  closeTask,  \* close()'s task waits in tasks_
  sock,       \* the kernel's connection
  rx,         \* unread data in the socket (0 or 1)
  txFull,     \* the socket's send buffer is full
  stack,      \* active calls, innermost last
  sends,      \* sends so far: the number of the last unit
  attempts,   \* connects so far
  wire,       \* history: the units written to the current socket
  notes,      \* history: Closed/Failed notifications since the last connect
  bad         \* "no", or how the process ended: "null", "fatal"

kernel == <<sock, rx, txFull>>
flags == <<state_, input_, cbs, timer, reconnects, recon>>
conn == <<flags, channel_, wen, output_>>
base == <<exit_, ended, closeTask>>
hist == <<sends, attempts, wire, notes>>
vars == <<conn, base, kernel, stack, hist, bad>>

\* hr       handleRead                  loop     its while loop
\* hw       handleWrite                 hw2      after writablecb_
\* cleanup  cleanup                     cl2      after readcb_
\* cl3      after statecb_              rc       reconnect
\* read, writable, state                user code
UserFrames == {"read", "writable", "state"}
Frames == {"hr", "loop", "hw", "hw2", "cleanup", "cl2", "cl3", "rc"} \cup UserFrames

Depth == Len(stack)
Top(f) == bad = "no" /\ Depth > 0 /\ stack[Depth] = f
Below == SubSeq(stack, 1, Depth - 1)
\* The innermost call returns; goes on as f; goes on as f after calling g.
Return == stack' = Below
GoOn(f) == stack' = Append(Below, f)
Call(f, g) == stack' = Append(Append(Below, f), g)
\* Called from user code, which stays active.
Enter(g) == stack' = Append(stack, g)

Live == channel_ # "null"

Units == 1..MaxSends

\* Types of the connection's fields.
TypeOK ==
  /\ state_ \in States
  /\ channel_ \in {"null", "open", "closed"}
  /\ {wen, cbs, timer, reconnects, exit_, ended, closeTask, txFull} \subseteq BOOLEAN
  /\ input_ \in 0..1 /\ rx \in 0..1
  /\ output_ \in Seq(Units) /\ wire \in Seq(Units)
  /\ recon \in {"no", "timed", "orphan"}
  /\ sock \in {"connecting", "refused", "up", "eof", "reset"}
  /\ stack \in Seq(Frames)
  /\ sends \in 0..MaxSends /\ attempts \in 1..MaxAttempts /\ notes \in Nat
  /\ bad \in {"no", "null", "fatal"}

\* createConnection: connect(), then attach(): listens for both events.
Init ==
  /\ state_ = "Handshaking"
  /\ channel_ = "open"
  /\ wen = TRUE
  /\ input_ = 0 /\ output_ = <<>>
  /\ cbs = TRUE
  /\ timer = Timeout
  /\ reconnects \in Reconnects
  /\ recon = "no"
  /\ exit_ = FALSE /\ ended = FALSE /\ closeTask = FALSE
  /\ sock = "connecting" /\ rx = 0 /\ txFull = FALSE
  /\ stack = <<>>
  /\ sends = 0 /\ attempts = 1 /\ wire = <<>> /\ notes = 0
  /\ bad = "no"

-----------------------------------------------------------------------------
(* handleHandshake, handleRead, handleWrite                                 *)

\* poll() answers exactly POLLOUT: connected, room to send, not reset.
Writable == channel_ = "open" /\ sock \in {"up", "eof"} /\ ~txFull

\* handleHandshake succeeds: write events off, statecb_; then handleRead
\* enters its loop and handleWrite returns.
Handshake(f) ==
  /\ Top(f) /\ f \in {"hr", "hw"}
  /\ state_ = "Handshaking"
  /\ Writable
  /\ state_' = "Connected"
  /\ wen' = FALSE
  /\ LET rest == IF f = "hr" THEN Append(Below, "loop") ELSE Below
     IN  stack' = IF cbs THEN Append(rest, "state") ELSE rest
  /\ UNCHANGED <<channel_, input_, output_, cbs, timer, reconnects, recon, base, kernel, hist,
                 bad>>

\* It fails: cleanup, and the caller returns.
HandshakeFail(f) ==
  /\ Top(f) /\ f \in {"hr", "hw"}
  /\ state_ = "Handshaking"
  /\ ~Writable
  /\ GoOn("cleanup")
  /\ UNCHANGED <<conn, base, kernel, hist, bad>>

HandleRead ==
  /\ Top("hr")
  /\ state_ # "Handshaking"
  /\ GoOn("loop")
  /\ UNCHANGED <<conn, base, kernel, hist, bad>>

\* while (state_ == Connected)
ReadLoopEnd ==
  /\ Top("loop")
  /\ state_ # "Connected"
  /\ Return
  /\ UNCHANGED <<conn, base, kernel, hist, bad>>

\* rd > 0
ReadData ==
  /\ Top("loop")
  /\ state_ = "Connected" /\ channel_ = "open"
  /\ rx = 1
  /\ rx' = 0
  /\ input_' = 1
  /\ UNCHANGED <<state_, channel_, wen, output_, cbs, timer, reconnects, recon, base, sock,
                 txFull, stack, hist, bad>>

\* EAGAIN: readcb_ when there is input, and the loop is left.
ReadAgain ==
  /\ Top("loop")
  /\ state_ = "Connected" /\ channel_ = "open"
  /\ rx = 0 /\ sock = "up"
  /\ IF cbs /\ input_ = 1 THEN GoOn("read") ELSE Return
  /\ UNCHANGED <<conn, base, kernel, hist, bad>>

\* end of file, an error, or fd_ is -1: cleanup, and the loop is left.
ReadEndForgotten ==
  /\ Top("loop")
  /\ state_ = "Connected" /\ Live
  /\ channel_ = "open" /\ rx = 0 /\ sock \in {"eof", "reset"}
  /\ GoOn("cleanup")
  /\ UNCHANGED <<conn, base, kernel, hist, bad>>
ReadEnd ==
  /\ Top("loop")
  /\ state_ = "Connected" /\ Live
  /\ channel_ = "closed" \/ (rx = 0 /\ sock \in {"eof", "reset"})
  /\ GoOn("cleanup")
  /\ UNCHANGED <<conn, base, kernel, hist, bad>>

\* isend's -1: the peer is known to be gone.
Broken(buf) == buf # <<>> /\ channel_ = "open" /\ sock \in {"reset", "refused"}

\* How many units of buf isend writes: the socket takes what fits; a socket
\* that is not connected answers EAGAIN, fd -1 answers EBADF.
Writes(buf) ==
  IF channel_ = "open" /\ sock \in {"up", "eof"} /\ ~txFull
    THEN {k \in 0..Len(buf) : buf = <<>> \/ k > 0}
    ELSE {0}
Rest(buf, k) == SubSeq(buf, k + 1, Len(buf))

\* isend(buf) wrote k units, which may have filled the send buffer; after
\* EAGAIN write events are on.
isend(buf, k) ==
  LET again == k < Len(buf) /\ channel_ = "open" IN
  /\ ~Broken(buf)
  /\ k \in Writes(buf)
  /\ wire' = wire \o SubSeq(buf, 1, k)
  /\ txFull' \in IF k = 0 THEN {txFull} ELSE {again, TRUE}
  /\ wen' = (wen \/ again)

\* handleWrite when connected (its last branch, for other states, is never
\* reached: no event comes for a closed channel): write output_, then writablecb_ if it is empty.
HandleWrite ==
  /\ Top("hw")
  /\ state_ = "Connected"
  /\ \E k \in 0..MaxSends :
       /\ isend(output_, k)
       /\ output_' = Rest(output_, k)
       /\ IF output_' = <<>> /\ cbs THEN Call("hw2", "writable") ELSE GoOn("hw2")
  /\ UNCHANGED <<flags, channel_, base, sock, rx, sends, attempts, notes, bad>>

HandleWriteBroken ==
  /\ Top("hw")
  /\ state_ = "Connected"
  /\ Broken(output_)
  /\ GoOn("cleanup")
  /\ UNCHANGED <<conn, base, kernel, hist, bad>>

\* output_.empty() && channel_->writeEnabled(): write events off.
AfterWritableAlways ==
  /\ Top("hw2")
  /\ wen' = FALSE
  /\ Return
  /\ UNCHANGED <<flags, channel_, output_, base, kernel, hist, bad>>
AfterWritable ==
  /\ Top("hw2")
  /\ wen' = (wen /\ output_ # <<>>)
  /\ bad' = IF output_ = <<>> /\ ~Live THEN "null" ELSE bad
  /\ Return
  /\ UNCHANGED <<flags, channel_, output_, base, kernel, hist>>

-----------------------------------------------------------------------------
(* cleanup and reconnect                                                    *)

\* Unread input first: readcb_, before the state changes.
Cleanup ==
  /\ Top("cleanup")
  /\ IF cbs /\ input_ = 1 THEN Call("cl2", "read") ELSE GoOn("cl2")
  /\ UNCHANGED <<conn, base, kernel, hist, bad>>

\* The new state, cancel(timeoutId_), statecb_.
CleanupKeepingTimer ==
  /\ Top("cl2")
  /\ state_' = IF state_ = "Handshaking" THEN "Failed" ELSE "Closed"
  /\ IF cbs THEN Call("cl3", "state") /\ notes' = notes + 1
     ELSE GoOn("cl3") /\ UNCHANGED notes
  /\ UNCHANGED <<channel_, wen, input_, output_, cbs, timer, reconnects, recon, base,
                 kernel, sends, attempts, wire, bad>>
CleanupStateForgotten ==
  /\ Top("cl2")
  /\ timer' = FALSE
  /\ IF cbs THEN Call("cl3", "state") /\ notes' = notes + 1
     ELSE GoOn("cl3") /\ UNCHANGED notes
  /\ UNCHANGED <<state_, channel_, wen, input_, output_, cbs, reconnects, recon, base, kernel,
                 sends, attempts, wire, bad>>
CleanupState ==
  /\ Top("cl2")
  /\ state_' = IF state_ = "Handshaking" THEN "Failed" ELSE "Closed"
  /\ timer' = FALSE
  /\ IF cbs THEN Call("cl3", "state") /\ notes' = notes + 1
     ELSE GoOn("cl3") /\ UNCHANGED notes
  /\ UNCHANGED <<channel_, wen, input_, output_, cbs, reconnects, recon, base, kernel,
                 sends, attempts, wire, bad>>

\* No reconnection: the callbacks are dropped, the channel is closed; the
\* handleRead of that close finds the state Closed or Failed and returns.
CleanupEnd ==
  /\ Top("cl3")
  /\ ~reconnects \/ exit_
  /\ cbs' = FALSE
  /\ channel_' = "null"
  /\ wen' = FALSE
  /\ Return
  /\ UNCHANGED <<state_, input_, output_, timer, reconnects, recon, base, kernel, hist, bad>>

CleanupReconnect ==
  /\ Top("cl3")
  /\ reconnects /\ ~exit_
  /\ GoOn("rc")
  /\ UNCHANGED <<conn, base, kernel, hist, bad>>

\* reconnect(): into reconnectConns_, runAfter (which does nothing once exit_
\* is set, by another thread since cleanup tested it), channel_->close().
ReconnectLaterForgotten ==
  /\ Top("rc")
  /\ IF ~Live
       THEN bad' = "null" /\ UNCHANGED <<stack, channel_, wen, recon>>
       ELSE /\ recon' = IF exit_ THEN "no" ELSE "timed"
            /\ channel_' = "null"
            /\ wen' = FALSE
            /\ Return
            /\ UNCHANGED bad
  /\ UNCHANGED <<state_, input_, output_, cbs, timer, reconnects, base, kernel, hist>>
ReconnectLater ==
  /\ Top("rc")
  /\ IF ~Live
       THEN bad' = "null" /\ UNCHANGED <<stack, channel_, wen, recon>>
       ELSE /\ recon' = IF exit_ THEN "orphan" ELSE "timed"
            /\ channel_' = "null"
            /\ wen' = FALSE
            /\ Return
            /\ UNCHANGED bad
  /\ UNCHANGED <<state_, input_, output_, cbs, timer, reconnects, base, kernel, hist>>

-----------------------------------------------------------------------------
(* User code, in a callback or a task                                       *)

OpsAt(f) ==
  CASE f = "read" -> ReadOps
    [] f = "writable" -> WritableOps
    [] f = "state" -> StateOps
Idle == stack = <<>> /\ bad = "no"
InUser(op) ==
  /\ Depth <= MaxStack
  /\ \/ \E f \in UserFrames : Top(f) /\ op \in OpsAt(f)
     \/ Idle /\ ~ended /\ cbs /\ op \in TaskOps
Sends(op) ==
  /\ InUser(op) /\ sends < MaxSends
  /\ Live /\ state_ \in SendStates
  /\ sends' = sends + 1

\* The user takes the input.
UserConsumeUnchecked ==
  /\ InUser("consume") /\ input_ >= 0
  /\ input_' = input_ - 1
  /\ UNCHANGED <<state_, channel_, wen, output_, cbs, timer, reconnects, recon, base, kernel,
                 stack, hist, bad>>
UserConsume ==
  /\ InUser("consume") /\ input_ = 1
  /\ input_' = 0
  /\ UNCHANGED <<state_, channel_, wen, output_, cbs, timer, reconnects, recon, base, kernel,
                 stack, hist, bad>>

\* send(const char*, size_t): behind output_, or to the socket if it is empty.
UserSendUnchecked ==
  /\ Sends("send")
  /\ IF Broken(<<sends'>>)
       THEN Enter("cleanup") /\ UNCHANGED <<output_, wen, wire, txFull>>
       ELSE /\ \E k \in 0..1 : isend(<<sends'>>, k) /\ output_' = output_ \o Rest(<<sends'>>, k)
            /\ UNCHANGED stack
  /\ UNCHANGED <<flags, channel_, base, sock, rx, attempts, notes, bad>>
UserSend ==
  /\ Sends("send")
  /\ IF output_ # <<>>
       THEN output_' = Append(output_, sends') /\ UNCHANGED <<wen, wire, txFull, stack>>
     ELSE IF Broken(<<sends'>>)
       THEN Enter("cleanup") /\ UNCHANGED <<output_, wen, wire, txFull>>
       ELSE /\ \E k \in 0..1 : isend(<<sends'>>, k) /\ output_' = Rest(<<sends'>>, k)
            /\ UNCHANGED stack
  /\ UNCHANGED <<flags, channel_, base, sock, rx, attempts, notes, bad>>

\* enableWrite ends the process when the fd is closed (updateChannel's fatalif).
EnableWriteOutcome(needed) == IF needed /\ channel_ = "closed" THEN "fatal" ELSE bad

\* send(Buffer&): absorbed while write events are on; otherwise written, and
\* what is left goes behind output_.
UserSendBuffer ==
  /\ Sends("sendBuffer")
  /\ IF wen
       THEN output_' = Append(output_, sends') /\ UNCHANGED <<wen, wire, txFull, stack, bad>>
     ELSE IF Broken(<<sends'>>)
       THEN Enter("cleanup") /\ UNCHANGED <<output_, wen, wire, txFull, bad>>
       ELSE /\ \E k \in 0..1 :
                 /\ isend(<<sends'>>, k)
                 /\ output_' = output_ \o Rest(<<sends'>>, k)
                 /\ bad' = EnableWriteOutcome(k = 0)
            /\ UNCHANGED stack
  /\ UNCHANGED <<flags, channel_, base, sock, rx, attempts, notes>>

\* sendMsg: encode into output_, then send(output_), which absorbs nothing.
UserSendMsg ==
  LET buf == Append(output_, sends') IN
  /\ Sends("sendMsg")
  /\ IF Broken(buf)
       THEN output_' = buf /\ Enter("cleanup") /\ UNCHANGED <<wen, wire, txFull, bad>>
       ELSE /\ \E k \in 0..MaxSends :
                 /\ isend(buf, k)
                 /\ output_' = Rest(buf, k)
                 /\ bad' = EnableWriteOutcome(~wen /\ k < Len(buf))
            /\ UNCHANGED stack
  /\ UNCHANGED <<flags, channel_, base, sock, rx, attempts, notes>>

\* closeNow(): Channel::close, which calls handleRead.
UserCloseNow ==
  /\ InUser("closeNow")
  /\ channel_ = "open"
  /\ channel_' = "closed"
  /\ Enter("hr")
  /\ UNCHANGED <<flags, wen, output_, base, kernel, hist, bad>>

\* close(): a task that closes the channel, for the next cycle.
UserClose ==
  /\ InUser("close") /\ Live
  /\ ~closeTask
  /\ closeTask' = TRUE
  /\ UNCHANGED <<conn, exit_, ended, kernel, stack, hist, bad>>

UserReturn ==
  /\ \E f \in UserFrames : Top(f)
  /\ Return
  /\ UNCHANGED <<conn, base, kernel, hist, bad>>

-----------------------------------------------------------------------------
(* What the loop thread calls when nothing is active                        *)

Hup == sock \in {"refused", "reset"}
Readable == rx = 1 \/ sock = "eof" \/ Hup
CanWrite == sock # "connecting" /\ (Hup \/ ~txFull)

\* The poller: handleWrite, then handleRead, for the events reported at once.
Event ==
  /\ Idle /\ ~ended /\ channel_ = "open"
  /\ \/ wen /\ CanWrite /\ Readable /\ stack' = <<"hr", "hw">>
     \/ wen /\ CanWrite /\ ~Readable /\ stack' = <<"hw">>
     \/ ~(wen /\ CanWrite) /\ Readable /\ stack' = <<"hr">>
  /\ UNCHANGED <<conn, base, kernel, hist, bad>>

CloseTask ==
  /\ Idle /\ ~ended /\ closeTask
  /\ closeTask' = FALSE
  /\ IF channel_ = "open"
       THEN channel_' = "closed" /\ stack' = <<"hr">>
       ELSE UNCHANGED <<channel_, stack>>
  /\ UNCHANGED <<flags, wen, output_, exit_, ended, kernel, hist, bad>>

\* The connect timeout: closes the channel if the handshake is not over.  The
\* lambda dereferences channel_ whatever the state.
ConnectTimeout ==
  /\ Idle /\ ~ended /\ timer
  /\ timer' = FALSE
  /\ bad' = IF Live THEN bad ELSE "null"
  /\ IF state_ = "Handshaking" /\ channel_ = "open"
       THEN channel_' = "closed" /\ stack' = <<"hr">>
       ELSE UNCHANGED <<channel_, stack>>
  /\ UNCHANGED <<state_, wen, input_, output_, cbs, reconnects, recon, base, kernel, hist>>

\* The reconnect timer: connect() and attach() again, with their fatalifs.
ReconnectNowNoTimeout ==
  /\ Idle /\ ~ended /\ recon = "timed" /\ attempts < MaxAttempts
  /\ recon' = "no"
  /\ bad' = IF state_ \in {"Closed", "Failed"} THEN bad ELSE "fatal"
  /\ state_' = "Handshaking" /\ channel_' = "open" /\ wen' = TRUE
  /\ timer' = FALSE
  /\ sock' = "connecting" /\ rx' = 0 /\ txFull' = FALSE
  /\ attempts' = attempts + 1 /\ wire' = <<>> /\ notes' = 0
  /\ UNCHANGED <<input_, output_, cbs, reconnects, sends, base, stack>>
ReconnectNow ==
  /\ Idle /\ ~ended /\ recon = "timed" /\ attempts < MaxAttempts
  /\ recon' = "no"
  /\ bad' = IF state_ \in {"Closed", "Failed"} THEN bad ELSE "fatal"
  /\ state_' = "Handshaking" /\ channel_' = "open" /\ wen' = TRUE
  /\ timer' = (Timeout /\ ~exit_)
  /\ sock' = "connecting" /\ rx' = 0 /\ txFull' = FALSE
  /\ attempts' = attempts + 1 /\ wire' = <<>> /\ notes' = 0
  /\ UNCHANGED <<input_, output_, cbs, reconnects, sends, base, stack>>

\* exit(), from any thread
Exit ==
  /\ ~exit_
  /\ exit_' = TRUE
  /\ UNCHANGED <<conn, ended, closeTask, kernel, stack, hist, bad>>

\* The end of loop(): timers cleared, a connection that waits to reconnect is
\* cleaned up; later the poller closes the channels that are left.
LoopEnd ==
  /\ Idle /\ exit_ /\ ~ended
  /\ ended' = TRUE
  /\ timer' = FALSE
  /\ recon' = "no"
  /\ IF recon # "no"
       THEN stack' = <<"cleanup">> /\ UNCHANGED channel_
       ELSE IF channel_ = "open"
       THEN stack' = <<"hr">> /\ channel_' = "closed"
       ELSE UNCHANGED <<stack, channel_>>
  /\ UNCHANGED <<state_, wen, input_, output_, cbs, reconnects, exit_, closeTask, kernel, hist,
                 bad>>

\* The network and the peer: the answer to connect, data, the end of the
\* stream, a reset, and room in the send buffer as the peer reads.
PeerAnswers ==
  /\ sock = "connecting"
  /\ sock' \in {"up", "refused"}
  /\ UNCHANGED <<rx, txFull>>
PeerSends == sock = "up" /\ rx = 0 /\ rx' = 1 /\ UNCHANGED <<sock, txFull>>
PeerCloses == sock = "up" /\ sock' = "eof" /\ UNCHANGED <<rx, txFull>>
PeerResets == sock \in {"up", "eof"} /\ sock' = "reset" /\ UNCHANGED <<rx, txFull>>
PeerReads == txFull /\ txFull' = FALSE /\ UNCHANGED <<sock, rx>>
Network ==
  /\ bad = "no" /\ channel_ = "open"
  /\ UNCHANGED <<conn, base, stack, hist, bad>>

-----------------------------------------------------------------------------

Internal ==
  \/ \E f \in {"hr", "hw"} : Handshake(f) \/ HandshakeFail(f)
  \/ HandleRead \/ ReadLoopEnd \/ ReadData \/ ReadAgain \/ ReadEnd
  \/ HandleWrite \/ HandleWriteBroken \/ AfterWritable
  \/ Cleanup \/ CleanupState \/ CleanupEnd \/ CleanupReconnect \/ ReconnectLater

User ==
  \/ UserConsume \/ UserSend \/ UserSendBuffer \/ UserSendMsg
  \/ UserCloseNow \/ UserClose

Next ==
  \/ Internal \/ User \/ UserReturn
  \/ Event \/ CloseTask \/ ConnectTimeout \/ ReconnectNow \/ Exit \/ LoopEnd
  \/ PeerAnswers /\ Network
  \/ PeerSends /\ Network
  \/ PeerCloses /\ Network
  \/ PeerResets /\ Network
  \/ PeerReads /\ Network

Spec == Init /\ [][Next]_vars

\* Code runs on, callbacks return; the loop serves each cycle what is ready
\* (events, tasks, timers), however often other work comes in between; and
\* the peer reads what it is sent.  handleRead reads until EAGAIN, so a peer
\* that always sends faster would keep it there: SF of ReadAgain rules that out.
Fairness ==
  /\ WF_vars(Internal) /\ WF_vars(UserReturn) /\ SF_vars(ReadAgain)
  /\ WF_vars(Event) /\ SF_vars(CloseTask) /\ WF_vars(ConnectTimeout)
  /\ WF_vars(ReconnectNow) /\ SF_vars(LoopEnd)
  /\ WF_vars(PeerReads /\ Network)

FairSpec == Spec /\ Fairness

-----------------------------------------------------------------------------
(* Properties                                                               *)

\* The process is not ended by the connection: no call through a null channel_
\* (handleWrite after writablecb_, reconnect, the connect-timeout lambda), no
\* fatalif of connect or updateChannel, whatever the order in which resets,
\* timeouts, close(), failed writes and exit() meet; and the assert of
\* handleRead's loop holds in every frame of every re-entrant call: a connected
\* TcpConn has a channel.
NoCrash == bad = "no" /\ (state_ = "Connected" => Live)

\* Until exit(), the user hears of the end of one connection once, however
\* many of a failed write, the end of the stream, close() and the connect
\* timeout coincide; cleanup is not entered again before it is done.
EndsOnce ==
  /\ ~exit_ => notes <= 1
  /\ \A i, j \in 1..Depth :
       stack[i] \in {"cl2", "cl3", "rc"} /\ stack[j] \in {"cl2", "cl3", "rc"} => i = j

\* On a first connection what waits in output_ is watched: write events are
\* on whenever control is back in the loop.
FirstOutputArmed ==
  Idle /\ state_ = "Connected" /\ channel_ = "open" /\ output_ # <<>> /\ attempts = 1 => wen

\* On a first connection the units reach the socket in the order of the
\* sends, however the three ways to send are mixed: wire, then output_.
WireInOrder ==
  LET stream == wire \o output_
  IN  attempts = 1 => \A i, j \in 1..Len(stream) : i < j => stream[i] < stream[j]

\* With a timeout a handshake ends: connected, or failed.
HandshakeEnds == state_ = "Handshaking" ~> (state_ # "Handshaking" \/ ended)

\* If the peer reads, output_ of a first connection is flushed, or the
\* connection ends.
OutputDrains ==
  (output_ # <<>> /\ attempts = 1) ~> (output_ = <<>> \/ state_ # "Connected" \/ ended)

\* After exit() nothing is left of the connection: its channel is closed and
\* its callbacks (which hold it) are dropped, even if exit() came while it was
\* waiting to reconnect or about to.
ExitCleansUp == exit_ ~> (ended /\ channel_ = "null" /\ ~cbs)

\* close() ends the connection it was called on.
CloseEnds == closeTask ~> (state_ \in {"Closed", "Failed"} \/ ended)

=============================================================================
