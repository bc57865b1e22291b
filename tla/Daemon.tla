------------------------------- MODULE Daemon -------------------------------
(***************************************************************************)
(* Daemon and Signal (daemon.cc): the commands start, stop and restart of a *)
(* program, and the daemons they leave running, around one pid file.        *)
(*                                                                          *)
(* Every system call on the file or on another process is a step of its     *)
(* own: daemons exit, crash and delete the file between any two steps of a  *)
(* command.  A command is issued when the one before has returned, and that *)
(* is before the process it forked has written the file.  Two commands at   *)
(* the same time are left out, and process ids are not used again: not by a *)
(* later process either whose number is the beginning of an earlier one's.  *)
(***************************************************************************)
EXTENDS Integers

CONSTANTS
  Pids,     \* the processes: those that are forked, and
  Strangers, \* those that run some other program from the beginning
  NoPid,    \* what getPidFromFile returns when there is none, -1
  Tries     \* how often daemonStop sends its signal, 300 in the code

ASSUME DaemonAssumption ==
  /\ Strangers \subseteq Pids
  /\ Pids \cap {NoPid, "none", "empty"} = {}
  /\ Tries \in Nat

VARIABLES
  file,     \* the pid file: "none", "empty" or the process it names
  proc,     \* the stage of each process
  handled,  \* processes that called Signal::signal for SIGQUIT
  quit,     \* processes with a SIGQUIT on its way
  old,      \* for a process forked by changeTo, the one that forked it
  lost,     \* processes whose open pid file has been unlinked
  cmd,      \* the command that is running, or Idle
  result,   \* how the last command ended: [how, pid]
  hasty,    \* history: a start looked before an earlier one had written its pid
  hijacked  \* history: a copy has deleted the pid file of a daemon

procs == <<proc, handled, quit, old, lost>>
history == <<hasty, hijacked>>
vars == <<file, procs, cmd, result, history>>

\* The stages of a process: forked, locked, written (daemonStart), serving,
\* exiting (its exit hook is to run), gone (it has run); waiting (changeTo's
\* child), program (it runs another program); dead.
Starting == {"forked", "locked", "written"}

\* What changeTo leaves when its execvp fails: a process in the middle of the
\* daemon's code, forked from the daemon and not by daemonStart.
Copy(p) == old[p] # NoPid

Alive(p) == p \in Pids /\ proc[p] \notin {"unused", "dead"}

\* op: the command; pc: its next step; pid: what it read; tries: signals
\* still to send; may: it has the right to signal the daemon; orphan: its
\* parent is process 1.
Idle == [op |-> "none", pc |-> "idle", pid |-> NoPid, tries |-> 0, may |-> TRUE, orphan |-> FALSE]

Init ==
  /\ file = "none"
  /\ proc = [p \in Pids |-> IF p \in Strangers THEN "program" ELSE "unused"]
  /\ handled = {} /\ quit = {} /\ lost = {}
  /\ hasty = FALSE /\ hijacked = FALSE
  /\ old = [p \in Pids |-> NoPid]
  /\ cmd = Idle
  /\ result = [how |-> "none", pid |-> NoPid]

-----------------------------------------------------------------------------
(* The commands.                                                            *)

\* daemonProcess.  A program that changeTo executes comes here as an orphan.
DaemonProcess ==
  /\ cmd.pc = "idle"
  /\ \E op \in {"start", "stop", "restart"}, may, orphan \in BOOLEAN :
       cmd' = [Idle EXCEPT !.op = op, !.pc = op, !.may = may, !.orphan = orphan]
  /\ result' = [how |-> "none", pid |-> NoPid]
  /\ UNCHANGED <<file, procs, history>>

\* The command returns -1 and daemonProcess exits with 1, or it is done.
Return(how) ==
  /\ cmd' = Idle
  /\ result' = [how |-> how, pid |-> cmd.pid]

Goto(pc, pid) == cmd' = [cmd EXCEPT !.pc = pc, !.pid = pid] /\ UNCHANGED result

getPidFromFile == IF file \in Pids THEN file ELSE NoPid

\* kill with signal 0, or with SIGQUIT, succeeds.
CanKill(p) == Alive(p) /\ cmd.may

StartRead ==
  /\ cmd.pc = "start"
  /\ Goto("started", getPidFromFile)
  /\ hasty' = (hasty \/ \E p \in Pids : proc[p] \in {"forked", "locked"})
  /\ UNCHANGED <<file, procs, hijacked>>

\* A mutant: the process that may not be signalled is taken for none.
MutStartTest ==
  /\ cmd.pc = "started"
  /\ IF CanKill(cmd.pid) \/ cmd.orphan THEN Return("error") ELSE Goto("fork", cmd.pid)
  /\ UNCHANGED <<file, procs, history>>

\* "daemon exists" (EPERM says so too), or "already daemon".
StartTest ==
  /\ cmd.pc = "started"
  /\ IF Alive(cmd.pid) \/ cmd.orphan THEN Return("error") ELSE Goto("fork", cmd.pid)
  /\ UNCHANGED <<file, procs, history>>

\* The parent exits with 0, before its child has written the pid file.
Fork ==
  /\ cmd.pc = "fork"
  /\ \/ \E p \in Pids : proc[p] = "unused" /\ proc' = [proc EXCEPT ![p] = "forked"] /\ Return("started")
     \/ UNCHANGED proc /\ Return("error")
  /\ UNCHANGED <<file, handled, quit, old, lost, history>>

StopRead ==
  /\ cmd.pc = "stop"
  /\ IF getPidFromFile = NoPid THEN Return("error") ELSE Goto("quit", getPidFromFile)
  /\ UNCHANGED <<file, procs, history>>

\* The first SIGQUIT tells whether there is such a process.
StopQuit ==
  /\ cmd.pc = "quit"
  /\ IF CanKill(cmd.pid)
     THEN /\ quit' = quit \cup {cmd.pid}
          /\ cmd' = [cmd EXCEPT !.pc = "again", !.tries = Tries]
          /\ UNCHANGED result
     ELSE Return("error") /\ UNCHANGED quit
  /\ UNCHANGED <<file, proc, handled, old, lost, history>>

\* A mutant: the file goes once the signal is sent.
MutStopAgain ==
  /\ cmd.pc = "again"
  /\ Goto("unlink", cmd.pid)
  /\ UNCHANGED <<file, procs, history>>

\* It is sent again every 10 ms, until it cannot be or for 3 seconds.
StopAgain ==
  /\ cmd.pc = "again"
  /\ \/ /\ cmd.tries > 0 /\ CanKill(cmd.pid)
        /\ quit' = quit \cup {cmd.pid}
        /\ cmd' = [cmd EXCEPT !.tries = @ - 1]
        /\ UNCHANGED result
     \/ cmd.tries > 0 /\ ~CanKill(cmd.pid) /\ Goto("unlink", cmd.pid) /\ UNCHANGED quit
     \/ cmd.tries = 0 /\ Return("error") /\ UNCHANGED quit
  /\ UNCHANGED <<file, proc, handled, old, lost, history>>

\* A process that has the file open keeps it, without a name.
Unlink == file' = "none" /\ lost' = lost \cup {p \in Pids : proc[p] = "locked"}

\* daemonStop returns 0; daemonRestart goes on with daemonStart.
StopUnlink ==
  /\ cmd.pc = "unlink"
  /\ Unlink
  /\ IF cmd.op = "restart" THEN Goto("start", cmd.pid) ELSE Return("stopped")
  /\ UNCHANGED <<proc, handled, quit, old, history>>

RestartRead ==
  /\ cmd.pc = "restart"
  /\ Goto("restarted", getPidFromFile)
  /\ UNCHANGED <<file, procs, history>>

RestartTest ==
  /\ cmd.pc = "restarted"
  /\ \/ CanKill(cmd.pid) /\ Goto("stop", cmd.pid)
     \/ Alive(cmd.pid) /\ ~cmd.may /\ Return("error")
     \/ ~Alive(cmd.pid) /\ Goto("start", cmd.pid)
  /\ UNCHANGED <<file, procs, history>>

Command ==
  \/ DaemonProcess
  \/ StartRead \/ StartTest \/ Fork
  \/ StopRead \/ StopQuit \/ StopAgain \/ StopUnlink
  \/ RestartRead \/ RestartTest

-----------------------------------------------------------------------------
(* The processes they fork.                                                 *)

Becomes(p, stage) == proc' = [proc EXCEPT ![p] = stage]

\* writePidFile truncates the file before it tries the lock.
WriteOpen(p) ==
  /\ proc[p] = "forked"
  /\ \/ /\ file' = "empty"
        /\ Becomes(p, IF \E q \in Pids \ lost : proc[q] = "locked" THEN "dead" ELSE "locked")
     \/ Becomes(p, "dead") /\ UNCHANGED file
  /\ UNCHANGED <<handled, quit, old, lost, cmd, result, history>>

\* The pid is written, or not all of it: then the file is empty, or what it
\* holds is the number of another process.
WritePid(p) ==
  /\ proc[p] = "locked"
  /\ \/ Becomes(p, "written") /\ file' = IF p \in lost THEN file ELSE p
     \/ /\ Becomes(p, "dead")
        /\ IF p \in lost THEN UNCHANGED file
           ELSE file' \in {"empty"} \cup {q \in Pids : proc[q] # "unused"}
  /\ UNCHANGED <<handled, quit, old, lost, cmd, result, history>>

\* The standard streams go to /dev/null, and the program begins; without
\* /dev/null it ends.
Detach(p) ==
  /\ proc[p] = "written"
  /\ Becomes(p, "serving") \/ Becomes(p, "dead")
  /\ UNCHANGED <<file, handled, quit, old, lost, cmd, result, history>>

\* Signal::signal(SIGQUIT, handler), with a handler that ends the program.
Signal(p) ==
  /\ proc[p] = "serving" /\ p \notin handled
  /\ handled' = handled \cup {p}
  /\ UNCHANGED <<file, proc, quit, old, lost, cmd, result, history>>

\* The signal arrives: signal_handler, or else the process dies; another
\* program does as it likes.
SignalHandler(p) ==
  /\ p \in quit /\ Alive(p)
  /\ quit' = quit \ {p}
  /\ \/ p \notin handled /\ Becomes(p, "dead")
     \/ p \in handled /\ proc[p] = "serving" /\ Becomes(p, "exiting")
     \/ p \in handled /\ proc[p] # "serving" /\ UNCHANGED proc
     \/ proc[p] = "program" /\ UNCHANGED proc
  /\ UNCHANGED <<file, handled, old, lost, cmd, result, history>>

\* The program ends by itself.
Exit(p) ==
  /\ proc[p] = "serving"
  /\ Becomes(p, "exiting")
  /\ UNCHANGED <<file, handled, quit, old, lost, cmd, result, history>>

\* The static ExitCaller deletes the file, by its name; a copy's does so too.
ExitCaller(p) ==
  /\ proc[p] = "exiting"
  /\ Unlink /\ Becomes(p, "gone")
  /\ hijacked' = (hijacked \/ (Copy(p) /\ \E q \in Pids :
       ~Copy(q) /\ proc[q] \in {"locked", "written", "serving", "exiting"}))
  /\ UNCHANGED <<handled, quit, old, cmd, result, hasty>>

\* The process ends after its exit, or at any time by a crash.
Dies(p) ==
  /\ Alive(p)
  /\ Becomes(p, "dead")
  /\ UNCHANGED <<file, handled, quit, old, lost, cmd, result, history>>

\* changeTo: the child, in which the handlers are what they were, waits for
\* its parent to exit...
ChangeTo(p) ==
  /\ proc[p] = "serving"
  /\ \E q \in Pids : /\ proc[q] = "unused"
                     /\ Becomes(q, "waiting")
                     /\ old' = [old EXCEPT ![q] = p]
                     /\ handled' = IF p \in handled THEN handled \cup {q} ELSE handled
  /\ UNCHANGED <<file, quit, lost, cmd, result, history>>

\* ...and runs the program, which handles nothing yet (with start it is
\* refused, its parent being process 1).  If that fails changeTo returns, in
\* the child, to the daemon's code.
Exec(q) ==
  /\ proc[q] = "waiting" /\ ~Alive(old[q])
  /\ \/ Becomes(q, "program") /\ handled' = handled \ {q}
     \/ Becomes(q, "serving") /\ UNCHANGED handled
  /\ UNCHANGED <<file, quit, old, lost, cmd, result, history>>

Process(p) ==
  \/ WriteOpen(p) \/ WritePid(p) \/ Detach(p)
  \/ Signal(p) \/ SignalHandler(p) \/ Exit(p) \/ ExitCaller(p) \/ Dies(p)
  \/ ChangeTo(p) \/ Exec(p)

Next == Command \/ \E p \in Pids : Process(p)

Spec == Init /\ [][Next]_vars

-----------------------------------------------------------------------------
(* Properties.                                                              *)

\* Neither of the two things has happened for which the code has no guard: a
\* start that looks at the file before the process of an earlier start has
\* written its own pid there (the parent exits first, daemon.cc:91), and a copy
\* whose exit hook deletes the file of a daemon (daemon.cc:195 and 108).
Undisturbed == ~hasty /\ ~hijacked

\* The pid file names the daemon that is running, so there is never a second
\* one and every later command finds it: whatever crashed before, whoever
\* deletes the file (an exiting daemon, stop, restart), whichever step of a
\* start failed half-way and whatever the copies do short of that deletion.
\* (The copies themselves are in no file.)
FileNamesDaemon ==
  Undisturbed => \A p \in Pids : proc[p] = "serving" /\ ~Copy(p) => file = p

\* A stop that returned 0 means that the process it found is dead, not only
\* told to exit, in any case.  If undisturbed it means what a script relies on:
\* no file is left, and no daemon either serves, is starting or is about to
\* run its exit hook.  What may be alive is past its hook, a child of changeTo
\* that waits, the program it has become, or the copy it is if that failed.
StopMeansGone ==
  result.how = "stopped" =>
    /\ result.pid \in Pids /\ proc[result.pid] = "dead"
    /\ Undisturbed =>
         /\ file = "none"
         /\ \A p \in Pids : Copy(p) \/ proc[p] \in {"unused", "gone", "program", "dead"}
=============================================================================
