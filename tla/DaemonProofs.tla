---------------------------- MODULE DaemonProofs ----------------------------
(***************************************************************************)
(* Daemon for any number of processes, of strangers and of tries: the pid   *)
(* file names the daemon that is running, and a stop that returned 0 left   *)
(* the process it found dead, and no daemon, with the two exceptions that   *)
(* Undisturbed names.                                                       *)
(*                                                                          *)
(* The argument: at most one process at a time that daemonStart forked is   *)
(* anywhere between fork and the exit hook.  A start goes on only if the    *)
(* process it read from the file is dead, and whoever else could be in      *)
(* between has either written its pid there or made the start hasty.        *)
(***************************************************************************)
EXTENDS Daemon, TLAPS

\* Between fork and the exit hook.
Owning == Starting \cup {"serving", "exiting"}
Stages == Owning \cup {"unused", "gone", "waiting", "program", "dead"}

\* The process is a daemon: it owns the pid file, or will.
Owner(p) == proc[p] \in Owning /\ ~Copy(p)

Stopping == {"quit", "again", "unlink"}
PCs == {"idle", "start", "started", "fork", "stop", "restart", "restarted"} \cup Stopping

Commands == [op : {"none", "start", "stop", "restart"}, pc : PCs, pid : Pids \cup {NoPid},
             tries : Nat, may : BOOLEAN, orphan : BOOLEAN]
Results == [how : {"none", "error", "started", "stopped"}, pid : Pids \cup {NoPid}]

TypeOK ==
  /\ file \in Pids \cup {"none", "empty"}
  /\ proc \in [Pids -> Stages]
  /\ old \in [Pids -> Pids \cup {NoPid}]
  /\ lost \subseteq Pids
  /\ cmd \in Commands
  /\ result \in Results
  /\ hasty \in BOOLEAN /\ hijacked \in BOOLEAN

\* Where a process can have come from, and what the file can name.
Past ==
  /\ \A p \in Pids : proc[p] \in Starting \cup {"unused"} => ~Copy(p)
  /\ \A p \in Pids : proc[p] = "waiting" => Copy(p)
  /\ \A p \in lost : proc[p] \notin {"unused", "forked"}
  /\ file \in Pids => proc[file] # "unused"

\* What a command has seen so far of the process it found in the file.
CommandSaw ==
  /\ cmd.pc \in {"started", "fork"} /\ cmd.pid \in Pids => proc[cmd.pid] # "unused"
  /\ cmd.pc \in Stopping => cmd.pid \in Pids /\ proc[cmd.pid] # "unused"
  /\ cmd.pc = "again" => cmd.may
  /\ cmd.pc = "unlink" => proc[cmd.pid] = "dead"
  /\ result.how = "stopped" => cmd.pc = "idle" /\ result.pid \in Pids /\ proc[result.pid] = "dead"

\* One daemon at most; until it has the file nobody alive is named there, and
\* from the moment it has written it the file is its own.
OneOwner ==
  /\ \A p, q \in Pids : Owner(p) /\ Owner(q) => p = q
  /\ \A p \in Pids : Owner(p) =>
       /\ proc[p] = "forked" /\ file \in Pids => proc[file] = "dead"
       /\ proc[p] = "locked" => file = "empty" /\ p \notin lost
       /\ proc[p] \notin {"forked", "locked"} => file = p

\* While a command runs, what it has read tells it who may be running.
CommandKnows ==
  /\ cmd.pc \in {"started", "fork"} =>
       /\ \A p \in Pids : proc[p] \notin {"forked", "locked"}
       /\ file \in Pids => file = cmd.pid
  /\ cmd.pc = "fork" => ~Alive(cmd.pid)
  /\ cmd.pc \in Stopping \cup {"started", "fork"} =>
       \A p \in Pids : Owner(p) => p = cmd.pid \/ (cmd.pc = "quit" /\ proc[cmd.pid] = "dead")

\* The last command stopped a daemon, and none has been issued since.
StoppedIsLast ==
  result.how = "stopped" => file = "none" /\ \A p \in Pids : ~Owner(p)

Calm == OneOwner /\ CommandKnows /\ StoppedIsLast

DaemonInv == TypeOK /\ Past /\ CommandSaw /\ (Undisturbed => Calm)

-----------------------------------------------------------------------------
(* What the steps of a command do to its record.                            *)

\* A command's fields have their types.
LEMMA CommandFields ==
  ASSUME NEW c \in Commands
  PROVE  /\ c.op \in {"none", "start", "stop", "restart"} /\ c.pc \in PCs
         /\ c.pid \in Pids \cup {NoPid} /\ c.tries \in Nat
  BY DEF Commands

\* daemonProcess without a command to run: no step left, no process read.
LEMMA IdleCommand == Idle \in Commands /\ Idle.pc = "idle" /\ Idle.pid = NoPid
  BY DEF Idle, Commands, PCs

\* A new command begins with its own first step.
LEMMA NewCommand ==
  ASSUME DaemonProcess
  PROVE  /\ cmd' \in Commands /\ cmd'.pc \in {"start", "stop", "restart"}
         /\ result' \in Results /\ result'.how = "none"
<1>1. PICK op \in {"start", "stop", "restart"}, may \in BOOLEAN, orphan \in BOOLEAN :
        cmd' = [Idle EXCEPT !.op = op, !.pc = op, !.may = may, !.orphan = orphan]
  BY DEF DaemonProcess
<1>2. cmd' \in Commands /\ cmd'.pc = op
  BY <1>1, IdleCommand, Zenon DEF Commands, PCs
<1>3. result' \in Results /\ result'.how = "none"
  BY DEF DaemonProcess, Results
<1> QED
  BY <1>2, <1>3

\* Going on to the next step keeps the command, its rights and its tries.
LEMMA GotoKeeps ==
  ASSUME cmd \in Commands, NEW pc \in PCs, NEW pid \in Pids \cup {NoPid}, Goto(pc, pid)
  PROVE  /\ cmd' \in Commands /\ cmd'.pc = pc /\ cmd'.pid = pid
         /\ cmd'.op = cmd.op /\ cmd'.may = cmd.may
         /\ result' = result
<1>1. cmd' = [cmd EXCEPT !.pc = pc, !.pid = pid] /\ result' = result
  BY DEF Goto
<1>2. cmd' \in Commands
  BY <1>1 DEF Commands
<1>3. cmd'.pc = pc /\ cmd'.pid = pid /\ cmd'.op = cmd.op /\ cmd'.may = cmd.may
  BY <1>1 DEF Commands
<1> QED
  BY <1>1, <1>2, <1>3

\* Returning leaves no command, and reports the process it had read.
LEMMA ReturnEnds ==
  ASSUME cmd \in Commands, NEW how \in {"error", "started", "stopped"}, Return(how)
  PROVE  /\ cmd' \in Commands /\ cmd'.pc = "idle"
         /\ result' \in Results /\ result'.how = how /\ result'.pid = cmd.pid
<1>1. cmd' \in Commands /\ cmd'.pc = "idle"
  BY IdleCommand DEF Return
<1>2. result' \in Results /\ result'.how = how /\ result'.pid = cmd.pid
  BY CommandFields DEF Return, Results
<1> QED
  BY <1>1, <1>2

\* getPidFromFile returns a process id or none.
LEMMA PidRead == getPidFromFile \in Pids \cup {NoPid}
  BY DEF getPidFromFile

-----------------------------------------------------------------------------
(* The invariant.                                                           *)

\* No file and no command to begin with, and no process but the strangers.
LEMMA DaemonInitInv == Init => DaemonInv
<1> SUFFICES ASSUME Init PROVE DaemonInv
  OBVIOUS
<1> USE DaemonAssumption
<1>1. \A p \in Pids : proc[p] \in {"unused", "program"} /\ ~Copy(p) /\ ~Owner(p)
  BY DEF Init, Copy, Owner, Owning, Starting
<1>2. TypeOK
  BY IdleCommand DEF Init, TypeOK, Results, Stages
<1>3. Past /\ CommandSaw
  BY <1>1, IdleCommand DEF Init, Past, CommandSaw, Stopping
<1>4. Calm
  BY <1>1, IdleCommand DEF Init, Calm, OneOwner, CommandKnows, StoppedIsLast, Stopping
<1> QED
  BY <1>2, <1>3, <1>4 DEF DaemonInv

\* A step of a command other than Fork and StopUnlink leaves processes and
\* file alone: only what the command knows is to be shown again.
LEMMA CommandStep ==
  ASSUME DaemonInv, UNCHANGED <<file, proc, old, lost, hijacked>>, hasty' \in BOOLEAN,
         Undisturbed' => Undisturbed,
         cmd' \in Commands, result' \in Results, result'.how # "stopped", CommandSaw',
         Undisturbed' => CommandKnows'
  PROVE  DaemonInv'
<1>1. TypeOK' /\ Past'
  BY DEF DaemonInv, TypeOK, Past, Copy
<1>2. ASSUME Undisturbed' PROVE Calm'
  BY <1>2 DEF DaemonInv, Calm, OneOwner, StoppedIsLast, Owner, Copy
<1> QED
  BY <1>1, <1>2 DEF DaemonInv

\* The same for a step that has nothing left to know: the command returned
\* without success, or goes on to read the file.
LEMMA CommandForgets ==
  ASSUME DaemonInv, UNCHANGED <<file, proc, old, lost, hijacked, hasty>>,
         cmd' \in Commands, result' \in Results, result'.how # "stopped",
         cmd'.pc \in {"idle", "start", "stop", "restart", "restarted"}
  PROVE  DaemonInv'
<1>1. CommandSaw' /\ CommandKnows'
  BY DEF CommandSaw, CommandKnows, Stopping
<1>2. (Undisturbed' => Undisturbed) /\ hasty' \in BOOLEAN
  BY DEF Undisturbed, DaemonInv, TypeOK
<1> QED
  BY <1>1, <1>2, CommandStep

\* daemonStart keeps the invariant.
LEMMA StartInv ==
  ASSUME DaemonInv, StartRead \/ StartTest \/ Fork PROVE DaemonInv'
<1> USE DaemonAssumption
<1>t. TypeOK /\ Past /\ CommandSaw /\ (Undisturbed => Calm)
  BY DEF DaemonInv
<1>c. cmd \in Commands /\ result \in Results /\ cmd.pid \in Pids \cup {NoPid} /\ hasty \in BOOLEAN
  BY <1>t, CommandFields DEF TypeOK
<1>a. cmd.pc # "idle" => result.how # "stopped"
  BY <1>t DEF CommandSaw
<1>1. CASE StartRead
  <2>1. /\ UNCHANGED <<file, proc, old, lost, hijacked>> /\ cmd.pc = "start"
        /\ Goto("started", getPidFromFile)
        /\ hasty' = (hasty \/ \E p \in Pids : proc[p] \in {"forked", "locked"})
    BY <1>1 DEF StartRead, procs
  <2>2. /\ cmd' \in Commands /\ cmd'.pc = "started" /\ cmd'.pid = getPidFromFile
        /\ result' = result
    BY <2>1, <1>c, GotoKeeps, PidRead DEF PCs
  <2>3. hasty' \in BOOLEAN /\ (Undisturbed' => Undisturbed)
    BY <2>1, <1>c DEF Undisturbed
  <2>4. Undisturbed' => \A p \in Pids : proc[p] \notin {"forked", "locked"}
    BY <2>1, <1>c DEF Undisturbed
  <2>5. /\ file \in Pids => getPidFromFile = file
        /\ getPidFromFile \in Pids => proc[getPidFromFile] # "unused"
    BY <1>t DEF getPidFromFile, Past
  <2>6. Undisturbed' => \A p \in Pids : Owner(p) => p = getPidFromFile
    BY <2>3, <2>4, <2>5, <1>t DEF Calm, OneOwner
  <2>7. Undisturbed' => CommandKnows'
    BY <2>1, <2>2, <2>4, <2>5, <2>6 DEF CommandKnows, Stopping, Owner, Copy
  <2>8. CommandSaw'
    BY <1>a, <2>1, <2>2, <2>5 DEF CommandSaw, Stopping
  <2> QED
    BY <1>a, <1>c, <2>1, <2>2, <2>3, <2>7, <2>8, CommandStep
<1>2. CASE StartTest
  <2>1. UNCHANGED <<file, proc, old, lost, hijacked, hasty>> /\ cmd.pc = "started"
    BY <1>2 DEF StartTest, procs, history
  <2>2. CASE Return("error")
    BY <2>1, <2>2, <1>c, ReturnEnds, CommandForgets
  <2>3. CASE ~Alive(cmd.pid) /\ Goto("fork", cmd.pid)
    <3>1. cmd' \in Commands /\ cmd'.pc = "fork" /\ cmd'.pid = cmd.pid /\ result' = result
      BY <2>3, <1>c, GotoKeeps DEF PCs
    <3>2. Undisturbed' => Undisturbed
      BY <2>1 DEF Undisturbed
    <3>3. Undisturbed' => CommandKnows'
      BY <2>1, <2>3, <3>1, <3>2, <1>t DEF Calm, CommandKnows, Stopping, Alive, Owner, Copy
    <3>4. CommandSaw'
      BY <1>a, <2>1, <3>1, <1>t DEF CommandSaw, Stopping
    <3> QED
      BY <1>a, <1>c, <2>1, <3>1, <3>2, <3>3, <3>4, CommandStep
  <2> QED
    BY <1>2, <2>2, <2>3 DEF StartTest
<1>3. CASE Fork
  <2>1. cmd.pc = "fork" /\ UNCHANGED <<file, old, lost, hijacked, hasty>>
    BY <1>3 DEF Fork, history
  <2>2. ASSUME Return("error"), UNCHANGED proc PROVE DaemonInv'
    BY <2>1, <2>2, <1>c, ReturnEnds, CommandForgets
  <2>3. ASSUME NEW p \in Pids, proc[p] = "unused", proc' = [proc EXCEPT ![p] = "forked"],
               Return("started")
        PROVE  DaemonInv'
    <3>1. /\ cmd' \in Commands /\ cmd'.pc = "idle"
          /\ result' \in Results /\ result'.how = "started"
      BY <2>3, <1>c, ReturnEnds
    <3>2. proc'[p] = "forked" /\ \A q \in Pids : q # p => proc'[q] = proc[q]
      BY <2>3, <1>t DEF TypeOK
    <3>3. TypeOK'
      BY <2>1, <2>3, <3>1, <1>t DEF TypeOK, Stages, Owning, Starting
    <3>4. Past'
      BY <2>1, <2>3, <3>2, <1>t DEF TypeOK, Past, Copy, Starting
    <3>5. CommandSaw' /\ CommandKnows' /\ StoppedIsLast'
      BY <3>1 DEF CommandSaw, CommandKnows, StoppedIsLast, Stopping
    <3>6. ASSUME Undisturbed' PROVE OneOwner'
      <4>1. Calm
        BY <2>1, <3>6, <1>t DEF Undisturbed
      <4>2. \A q \in Pids : ~Owner(q)
        BY <2>1, <4>1 DEF Calm, CommandKnows, Alive, Owner, Owning, Starting
      <4>3. file \in Pids => proc[file] = "dead" /\ file # p
        BY <2>1, <2>3, <4>1, <1>t DEF Calm, CommandKnows, Alive, Past
      <4>4. \A q \in Pids : Owner(q)' => q = p
        BY <2>1, <3>2, <4>2 DEF Owner, Copy
      <4> QED
        BY <2>1, <3>2, <4>3, <4>4 DEF OneOwner
    <3> QED
      BY <3>3, <3>4, <3>5, <3>6 DEF DaemonInv, Calm
  <2> QED
    BY <1>3, <2>2, <2>3 DEF Fork
<1> QED
  BY <1>1, <1>2, <1>3

\* daemonStop keeps the invariant.
LEMMA StopInv ==
  ASSUME DaemonInv, StopRead \/ StopQuit \/ StopAgain \/ StopUnlink PROVE DaemonInv'
<1> USE DaemonAssumption
<1>t. TypeOK /\ Past /\ CommandSaw /\ (Undisturbed => Calm)
  BY DEF DaemonInv
<1>c. cmd \in Commands /\ result \in Results /\ cmd.pid \in Pids \cup {NoPid} /\ hasty \in BOOLEAN
  BY <1>t, CommandFields DEF TypeOK
<1>a. cmd.pc # "idle" => result.how # "stopped"
  BY <1>t DEF CommandSaw
<1>1. CASE StopRead
  <2>1. UNCHANGED <<file, proc, old, lost, hijacked, hasty>> /\ cmd.pc = "stop"
    BY <1>1 DEF StopRead, procs, history
  <2>2. CASE Return("error")
    BY <2>1, <2>2, <1>c, ReturnEnds, CommandForgets
  <2>3. CASE getPidFromFile # NoPid /\ Goto("quit", getPidFromFile)
    <3>1. file \in Pids /\ getPidFromFile = file
      BY <2>3 DEF getPidFromFile
    <3>2. /\ cmd' \in Commands /\ cmd'.pc = "quit" /\ cmd'.pid = file
          /\ result' = result
      BY <2>3, <3>1, <1>c, GotoKeeps, PidRead DEF PCs, Stopping
    <3>3. CommandSaw'
      BY <1>a, <2>1, <3>1, <3>2, <1>t DEF CommandSaw, Past
    <3>4. Undisturbed' => Undisturbed
      BY <2>1 DEF Undisturbed
    <3>5. Undisturbed' => CommandKnows'
      BY <2>1, <3>1, <3>2, <3>4, <1>t DEF Calm, CommandKnows, OneOwner, Stopping, Owner, Copy
    <3> QED
      BY <1>a, <1>c, <2>1, <3>2, <3>3, <3>4, <3>5, CommandStep
  <2> QED
    BY <1>1, <2>2, <2>3 DEF StopRead
<1>2. CASE StopQuit
  <2>1. UNCHANGED <<file, proc, old, lost, hijacked, hasty>> /\ cmd.pc = "quit"
    BY <1>2 DEF StopQuit, history
  <2>2. CASE Return("error")
    BY <2>1, <2>2, <1>c, ReturnEnds, CommandForgets
  <2>3. CASE /\ CanKill(cmd.pid) /\ cmd' = [cmd EXCEPT !.pc = "again", !.tries = Tries]
             /\ result' = result
    <3>1. cmd' \in Commands
      BY <2>3, <1>c DEF Commands, PCs, Stopping
    <3>2. cmd'.pc = "again" /\ cmd'.pid = cmd.pid /\ cmd'.may = cmd.may
      BY <2>3, <1>c DEF Commands
    <3>3. cmd'.may
      BY <2>3, <3>2, Zenon DEF CanKill
    <3>4. proc[cmd.pid] # "dead"
      BY <2>3 DEF CanKill, Alive
    <3>5. CommandSaw'
      BY <1>a, <2>1, <2>3, <3>2, <3>3, <1>t DEF CommandSaw, Stopping
    <3>6. Undisturbed' => Undisturbed
      BY <2>1 DEF Undisturbed
    <3>7. Undisturbed' => CommandKnows'
      BY <2>1, <3>2, <3>4, <3>6, <1>t DEF Calm, CommandKnows, Stopping, Owner, Copy
    <3> QED
      BY <1>a, <1>c, <2>1, <2>3, <3>1, <3>5, <3>6, <3>7, CommandStep
  <2> QED
    BY <1>2, <2>2, <2>3 DEF StopQuit
<1>3. CASE StopAgain
  <2>1. UNCHANGED <<file, proc, old, lost, hijacked, hasty>> /\ cmd.pc = "again"
    BY <1>3 DEF StopAgain, history
  <2>u. Undisturbed' => Undisturbed
    BY <2>1 DEF Undisturbed
  <2>2. CASE Return("error")
    BY <2>1, <2>2, <1>c, ReturnEnds, CommandForgets
  <2>3. CASE /\ cmd.tries > 0 /\ cmd' = [cmd EXCEPT !.tries = @ - 1]
             /\ result' = result
    <3>1. cmd.tries - 1 \in Nat
      BY <2>3, <1>c, CommandFields
    <3>2. cmd' \in Commands
      BY <2>3, <3>1, <1>c DEF Commands
    <3>3. cmd'.pc = "again" /\ cmd'.pid = cmd.pid /\ cmd'.may = cmd.may
      BY <2>1, <2>3, <1>c DEF Commands
    <3>4. cmd'.may
      BY <2>1, <3>3, <1>t, Zenon DEF CommandSaw
    <3>5. CommandSaw'
      BY <1>a, <2>1, <2>3, <3>3, <3>4, <1>t DEF CommandSaw, Stopping
    <3>6. Undisturbed' => CommandKnows'
      BY <2>1, <2>u, <3>3, <1>t DEF Calm, CommandKnows, Stopping, Owner, Copy
    <3> QED
      BY <1>a, <1>c, <2>1, <2>u, <2>3, <3>2, <3>5, <3>6, CommandStep
  <2>4. CASE ~CanKill(cmd.pid) /\ Goto("unlink", cmd.pid)
    <3>1. /\ cmd' \in Commands /\ cmd'.pc = "unlink" /\ cmd'.pid = cmd.pid
          /\ result' = result
      BY <2>4, <1>c, GotoKeeps DEF PCs, Stopping
    <3>2. cmd.may
      BY <2>1, <1>t, Zenon DEF CommandSaw
    <3>3. ~Alive(cmd.pid)
      BY <2>4, <3>2, Zenon DEF CanKill
    <3>4. cmd.pid \in Pids /\ proc[cmd.pid] = "dead"
      BY <2>1, <3>3, <1>t DEF CommandSaw, Alive, Stopping
    <3>5. CommandSaw'
      BY <1>a, <2>1, <3>1, <3>4 DEF CommandSaw, Stopping
    <3>6. Undisturbed' => CommandKnows'
      BY <2>1, <2>u, <3>1, <1>t DEF Calm, CommandKnows, Stopping, Owner, Copy
    <3> QED
      BY <1>a, <1>c, <2>1, <2>u, <3>1, <3>5, <3>6, CommandStep
  <2> QED
    BY <1>3, <2>2, <2>3, <2>4 DEF StopAgain
<1>4. CASE StopUnlink
  <2>1. /\ cmd.pc = "unlink" /\ UNCHANGED <<proc, old, hasty, hijacked>>
        /\ file' = "none" /\ lost' = lost \cup {p \in Pids : proc[p] = "locked"}
    BY <1>4 DEF StopUnlink, Unlink, history
  <2>2. cmd.pid \in Pids /\ proc[cmd.pid] = "dead"
    BY <2>1, <1>t DEF CommandSaw, Stopping
  <2>3. Undisturbed' => \A p \in Pids : ~Owner(p)
    BY <2>1, <2>2, <1>t DEF Undisturbed, Calm, CommandKnows, Stopping, Owner, Owning, Starting
  <2>4. Past'
    BY <2>1, <1>t DEF Past, Copy
  <2>5. Undisturbed' => OneOwner' /\ StoppedIsLast'
    BY <2>1, <2>3 DEF OneOwner, StoppedIsLast, Owner, Copy
  <2>6. ASSUME cmd' \in Commands, result' \in Results, cmd'.pc \in {"start", "idle"}, CommandSaw'
        PROVE  DaemonInv'
    <3>1. TypeOK'
      BY <2>1, <2>6, <1>t DEF TypeOK
    <3>2. CommandKnows'
      BY <2>6 DEF CommandKnows, Stopping
    <3> QED
      BY <2>4, <2>5, <2>6, <3>1, <3>2 DEF DaemonInv, Calm
  <2>7. CASE Goto("start", cmd.pid)
    <3>1. cmd' \in Commands /\ cmd'.pc = "start" /\ result' = result
      BY <2>7, <1>c, GotoKeeps DEF PCs
    <3>2. CommandSaw'
      BY <1>a, <2>1, <3>1 DEF CommandSaw, Stopping
    <3> QED
      BY <1>c, <2>6, <3>1, <3>2
  <2>8. CASE Return("stopped")
    <3>1. /\ cmd' \in Commands /\ cmd'.pc = "idle"
          /\ result' \in Results /\ result'.pid = cmd.pid
      BY <2>8, <1>c, ReturnEnds
    <3>2. CommandSaw'
      BY <2>1, <2>2, <3>1 DEF CommandSaw, Stopping
    <3> QED
      BY <2>6, <3>1, <3>2
  <2> QED
    BY <1>4, <2>7, <2>8 DEF StopUnlink
<1> QED
  BY <1>1, <1>2, <1>3, <1>4

\* The commands keep the invariant.
LEMMA CommandInv == DaemonInv /\ Command => DaemonInv'
<1> SUFFICES ASSUME DaemonInv, Command PROVE DaemonInv'
  OBVIOUS
<1>c. cmd \in Commands /\ result \in Results /\ cmd.pid \in Pids \cup {NoPid}
  BY CommandFields DEF DaemonInv, TypeOK
<1>a. cmd.pc # "idle" => result.how # "stopped"
  BY DEF DaemonInv, CommandSaw
<1>1. CASE DaemonProcess
  <2>1. UNCHANGED <<file, proc, old, lost, hijacked, hasty>>
    BY <1>1 DEF DaemonProcess, procs, history
  <2> QED
    BY <1>1, <2>1, NewCommand, CommandForgets
<1>2. CASE RestartRead
  <2>1. /\ UNCHANGED <<file, proc, old, lost, hijacked, hasty>> /\ cmd.pc = "restart"
        /\ Goto("restarted", getPidFromFile)
    BY <1>2 DEF RestartRead, procs, history
  <2>2. cmd' \in Commands /\ cmd'.pc = "restarted" /\ result' = result
    BY <2>1, <1>c, GotoKeeps, PidRead DEF PCs
  <2> QED
    BY <1>a, <1>c, <2>1, <2>2, CommandForgets
<1>3. CASE RestartTest
  <2>1. UNCHANGED <<file, proc, old, lost, hijacked, hasty>> /\ cmd.pc = "restarted"
    BY <1>3 DEF RestartTest, procs, history
  <2>2. CASE Return("error")
    BY <2>1, <2>2, <1>c, ReturnEnds, CommandForgets
  <2>3. ASSUME NEW pc \in {"stop", "start"}, Goto(pc, cmd.pid) PROVE DaemonInv'
    <3>1. cmd' \in Commands /\ cmd'.pc = pc /\ result' = result
      BY <2>3, <1>c, GotoKeeps DEF PCs
    <3> QED
      BY <1>a, <1>c, <2>1, <3>1, CommandForgets
  <2> QED
    BY <1>3, <2>2, <2>3 DEF RestartTest
<1> QED
  BY <1>1, <1>2, <1>3, StartInv, StopInv DEF Command

-----------------------------------------------------------------------------
(* The processes.                                                           *)

\* What a command saw stays so: the dead stay dead, and nobody who ran is
\* unused again.
LEMMA SawStays ==
  ASSUME DaemonInv, NEW p \in Pids, NEW stage \in Stages \ {"unused"}, Becomes(p, stage),
         proc[p] # "dead", UNCHANGED <<cmd, result>>
  PROVE  CommandSaw'
<1>1. proc' = [proc EXCEPT ![p] = stage] /\ proc \in [Pids -> Stages]
  BY DEF Becomes, DaemonInv, TypeOK
<1>2. \A q \in Pids : /\ proc[q] # "unused" => proc'[q] # "unused"
                      /\ proc[q] = "dead" => proc'[q] = "dead"
  BY <1>1
<1> QED
  BY <1>2 DEF DaemonInv, CommandSaw, Stopping

\* A process that moves on and leaves the file alone: it is no daemon it was
\* not before, and of the stages whose pid is in the file it goes from one to
\* the next; or it dies, or runs another program.
LEMMA ProcessMoves ==
  ASSUME DaemonInv, NEW p \in Pids, NEW stage \in {"serving", "exiting", "program", "dead"},
         Becomes(p, stage), UNCHANGED <<file, old, lost, cmd, result, hasty, hijacked>>,
         proc[p] \notin {"unused", "dead"},
         stage \in {"serving", "exiting"} => Copy(p) \/ proc[p] \in {"written", "serving"}
  PROVE  DaemonInv'
<1> USE DaemonAssumption
<1>t. TypeOK /\ Past /\ CommandSaw /\ (Undisturbed => Calm)
  BY DEF DaemonInv
<1>1. proc' = [proc EXCEPT ![p] = stage] /\ proc \in [Pids -> Stages]
  BY <1>t DEF Becomes, TypeOK
<1>2. stage \in Stages \ {"unused"}
  BY DEF Stages, Owning, Starting
<1>3. TypeOK'
  BY <1>1, <1>2, <1>t DEF TypeOK
<1>4. proc'[p] = stage /\ \A q \in Pids : q # p => proc'[q] = proc[q]
  BY <1>1
<1>5. Past'
  BY <1>4, <1>t DEF Past, Copy, Starting, TypeOK
<1>6. CommandSaw'
  BY <1>2, SawStays
<1>7. ASSUME Undisturbed' PROVE Calm'
  <2>1. Calm
    BY <1>7, <1>t DEF Undisturbed
  <2>2. \A q \in Pids : Owner(q)' => Owner(q)
    BY <1>4 DEF Owner, Owning, Starting, Copy
  <2>3. \A q \in Pids : proc[q] = "dead" => proc'[q] = "dead"
    BY <1>4
  <2>4. \A q \in Pids : proc'[q] \in {"forked", "locked"} => proc'[q] = proc[q]
    BY <1>4
  <2>5. Owner(p)' => proc[p] \notin {"forked", "locked"}
    BY <1>4 DEF Owner, Owning, Starting, Copy
  <2>6. OneOwner'
    BY <1>4, <2>1, <2>2, <2>3, <2>4, <2>5 DEF Calm, OneOwner
  <2>7. ~Alive(cmd.pid) => ~Alive(cmd.pid)'
    BY <1>4 DEF Alive
  <2>8. CommandKnows'
    BY <2>1, <2>2, <2>3, <2>4, <2>7, <1>t DEF Calm, CommandKnows, CommandSaw, Stopping
  <2>9. StoppedIsLast'
    BY <2>1, <2>2 DEF Calm, StoppedIsLast
  <2> QED
    BY <2>6, <2>8, <2>9 DEF Calm
<1> QED
  BY <1>3, <1>5, <1>6, <1>7 DEF DaemonInv

\* writePidFile keeps the invariant: who starts has seen nobody, and nobody
\* deletes the file under it.
LEMMA WriteInv ==
  ASSUME DaemonInv, NEW p \in Pids, WriteOpen(p) \/ WritePid(p) PROVE DaemonInv'
<1> USE DaemonAssumption
<1>t. TypeOK /\ Past /\ CommandSaw /\ (Undisturbed => Calm)
  BY DEF DaemonInv
<1>1. UNCHANGED <<old, lost, cmd, result, hasty, hijacked>> /\ proc[p] \in {"forked", "locked"}
  BY DEF WriteOpen, WritePid, history
<1>2. CASE UNCHANGED file /\ Becomes(p, "dead")
  BY <1>1, <1>2, ProcessMoves
<1>3. ASSUME NEW stage \in {"locked", "written", "dead"}, Becomes(p, stage),
             file' \in Pids \cup {"empty"}, file' \in Pids => proc[file'] # "unused",
             stage = "locked" => file' = "empty" /\ proc[p] = "forked",
             stage = "written" => file' = p \/ p \in lost
      PROVE  DaemonInv'
  <2>1. proc' = [proc EXCEPT ![p] = stage] /\ proc \in [Pids -> Stages]
    BY <1>3, <1>t DEF Becomes, TypeOK
  <2>2. stage \in Stages \ {"unused"}
    BY DEF Stages, Owning, Starting
  <2>3. TypeOK'
    BY <1>1, <1>3, <2>1, <2>2, <1>t DEF TypeOK
  <2>4. proc'[p] = stage /\ \A q \in Pids : q # p => proc'[q] = proc[q]
    BY <2>1
  <2>5. Past'
    BY <1>1, <1>3, <2>4, <1>t DEF Past, Copy, Starting, TypeOK
  <2>6. CommandSaw'
    BY <1>1, <1>3, <2>2, SawStays
  <2>7. ASSUME Undisturbed' PROVE Calm'
    <3>1. Calm
      BY <1>1, <2>7, <1>t DEF Undisturbed
    <3>2. Owner(p)
      BY <1>1, <1>t DEF Owner, Owning, Starting, Past
    <3>3. \A q \in Pids : q # p => ~Owner(q)
      BY <3>1, <3>2 DEF Calm, OneOwner
    <3>4. \A q \in Pids : Owner(q)' => q = p
      BY <1>1, <2>4, <3>3 DEF Owner, Copy
    <3>5. p \notin lost
      BY <1>1, <3>1, <3>2, <1>t DEF Calm, OneOwner, Past
    <3>6. OneOwner'
      BY <1>1, <1>3, <2>4, <3>4, <3>5 DEF OneOwner, Owner, Owning, Starting
    <3>7. cmd.pc \notin {"started", "fork"}
      BY <1>1, <3>1 DEF Calm, CommandKnows
    <3>8. \A q \in Pids : proc[q] = "dead" => proc'[q] = "dead"
      BY <1>1, <2>4
    <3>9. CommandKnows'
      BY <1>1, <3>1, <3>2, <3>4, <3>7, <3>8, <1>t DEF Calm, CommandKnows, CommandSaw, Stopping
    <3>10. StoppedIsLast'
      BY <1>1, <3>1, <3>2 DEF Calm, StoppedIsLast
    <3> QED
      BY <3>6, <3>9, <3>10 DEF Calm
  <2> QED
    BY <2>3, <2>5, <2>6, <2>7 DEF DaemonInv
<1>4. CASE WriteOpen(p)
  <2>1. proc[p] = "forked"
    BY <1>4 DEF WriteOpen
  <2>2. CASE file' = "empty" /\ Becomes(p, "locked")
    BY <1>3, <2>1, <2>2
  <2>3. CASE file' = "empty" /\ Becomes(p, "dead")
    BY <1>3, <2>3
  <2> QED
    BY <1>2, <1>4, <2>2, <2>3 DEF WriteOpen
<1>5. CASE WritePid(p)
  <2>1. file \in Pids \cup {"empty", "none"} /\ proc[p] = "locked"
    BY <1>5, <1>t DEF WritePid, TypeOK
  <2>2. CASE p \notin lost /\ Becomes(p, "written") /\ file' = p
    BY <1>3, <2>1, <2>2
  <2>3. CASE p \in lost /\ Becomes(p, "written") /\ UNCHANGED file
    <3>1. proc' = [proc EXCEPT ![p] = "written"] /\ proc \in [Pids -> Stages]
      BY <2>3, <1>t DEF Becomes, TypeOK
    <3>2. proc'[p] = "written" /\ \A q \in Pids : q # p => proc'[q] = proc[q]
      BY <3>1
    <3>3. TypeOK'
      BY <1>1, <2>3, <3>1, <1>t DEF TypeOK, Stages, Owning, Starting
    <3>4. Past'
      BY <1>1, <2>1, <2>3, <3>2, <1>t DEF Past, Copy, Starting, TypeOK
    <3>5. CommandSaw'
      BY <1>1, <2>1, <2>3, SawStays DEF Stages, Owning, Starting
    <3>6. ~Undisturbed'
      BY <1>1, <2>1, <2>3, <1>t DEF Undisturbed, Calm, OneOwner, Owner, Owning, Starting, Past
    <3> QED
      BY <3>3, <3>4, <3>5, <3>6 DEF DaemonInv
  <2>4. CASE Becomes(p, "dead") /\ file' \in {"empty"} \cup {q \in Pids : proc[q] # "unused"}
    BY <1>3, <2>4
  <2> QED
    BY <1>2, <1>5, <2>2, <2>3, <2>4 DEF WritePid
<1> QED
  BY <1>4, <1>5

\* The exit hook keeps the invariant: a daemon's own deletes its own file, and
\* a copy's that deletes a daemon's is the exception.
LEMMA ExitInv ==
  ASSUME DaemonInv, NEW p \in Pids, ExitCaller(p) PROVE DaemonInv'
<1> USE DaemonAssumption
<1>t. TypeOK /\ Past /\ CommandSaw /\ (Undisturbed => Calm)
  BY DEF DaemonInv
<1>1. /\ proc[p] = "exiting" /\ Becomes(p, "gone") /\ UNCHANGED <<old, cmd, result, hasty>>
      /\ file' = "none" /\ lost' = lost \cup {q \in Pids : proc[q] = "locked"}
      /\ hijacked' = (hijacked \/ (Copy(p) /\ \E q \in Pids :
           ~Copy(q) /\ proc[q] \in {"locked", "written", "serving", "exiting"}))
  BY DEF ExitCaller, Unlink
<1>2. proc' = [proc EXCEPT ![p] = "gone"] /\ proc \in [Pids -> Stages]
  BY <1>1, <1>t DEF Becomes, TypeOK
<1>3. proc'[p] = "gone" /\ \A q \in Pids : q # p => proc'[q] = proc[q]
  BY <1>2
<1>4. hijacked' \in BOOLEAN /\ (Undisturbed' => Undisturbed)
  BY <1>1, <1>t DEF Undisturbed, TypeOK
<1>5. TypeOK'
  BY <1>1, <1>2, <1>4, <1>t DEF TypeOK, Stages, Owning, Starting
<1>6. Past'
  BY <1>1, <1>3, <1>t DEF Past, Copy, Starting, TypeOK
<1>7. CommandSaw'
  BY <1>1, SawStays DEF Stages, Owning, Starting
<1>8. ASSUME Undisturbed' PROVE Calm'
  <2>1. Calm
    BY <1>4, <1>8, <1>t
  <2>2. \A q \in Pids : Owner(q)' => Owner(q) /\ q # p /\ proc'[q] = proc[q]
    BY <1>1, <1>3 DEF Owner, Copy, Owning, Starting
  <2>3. \A q \in Pids : Owner(q)' => proc[q] = "forked"
    <3>1. CASE Copy(p)
      BY <1>1, <1>8, <1>t, <2>2, <3>1 DEF Undisturbed, TypeOK, Owner, Owning, Starting
    <3>2. CASE ~Copy(p)
      BY <1>1, <2>1, <2>2, <3>2 DEF Calm, OneOwner, Owner, Owning
    <3> QED
      BY <3>1, <3>2
  <2>4. OneOwner'
    BY <1>1, <2>1, <2>2, <2>3 DEF Calm, OneOwner
  <2>5. \A q \in Pids : proc[q] = "dead" => proc'[q] = "dead"
    BY <1>1, <1>3
  <2>6. ~Alive(cmd.pid) => ~Alive(cmd.pid)'
    BY <1>1, <1>3 DEF Alive
  <2>7. \A q \in Pids : proc'[q] \in {"forked", "locked"} => proc'[q] = proc[q]
    BY <1>3
  <2>8. CommandKnows'
    BY <1>1, <2>1, <2>2, <2>5, <2>6, <2>7, <1>t DEF Calm, CommandKnows, CommandSaw, Stopping
  <2>9. StoppedIsLast'
    BY <1>1, <2>1, <2>2 DEF Calm, StoppedIsLast
  <2> QED
    BY <2>4, <2>8, <2>9 DEF Calm
<1> QED
  BY <1>5, <1>6, <1>7, <1>8 DEF DaemonInv

\* The child of changeTo is no daemon: it is forked as a copy.
LEMMA ChangeInv ==
  ASSUME DaemonInv, NEW p \in Pids, ChangeTo(p) PROVE DaemonInv'
<1> USE DaemonAssumption
<1>t. TypeOK /\ Past /\ CommandSaw /\ (Undisturbed => Calm)
  BY DEF DaemonInv
<1>1. PICK q \in Pids : proc[q] = "unused" /\ Becomes(q, "waiting") /\ old' = [old EXCEPT ![q] = p]
  BY DEF ChangeTo
<1>2. UNCHANGED <<file, lost, cmd, result, hasty, hijacked>>
  BY DEF ChangeTo, history
<1>3. proc' = [proc EXCEPT ![q] = "waiting"] /\ proc \in [Pids -> Stages]
  BY <1>1, <1>t DEF Becomes, TypeOK
<1>4. /\ proc'[q] = "waiting" /\ old'[q] = p
      /\ \A r \in Pids : r # q => proc'[r] = proc[r] /\ old'[r] = old[r]
  BY <1>1, <1>3, <1>t DEF TypeOK
<1>5. TypeOK'
  BY <1>1, <1>2, <1>3, <1>t DEF TypeOK, Stages
<1>6. Past'
  BY <1>1, <1>2, <1>4, <1>t DEF Past, Copy, Starting, TypeOK
<1>7. CommandSaw'
  BY <1>1, <1>2, SawStays DEF Stages
<1>8. ASSUME Undisturbed' PROVE Calm'
  <2>1. Calm
    BY <1>2, <1>8, <1>t DEF Undisturbed
  <2>2. \A r \in Pids : Owner(r)' => Owner(r) /\ r # q /\ proc'[r] = proc[r]
    BY <1>4 DEF Owner, Owning, Starting, Copy
  <2>3. \A r \in Pids : proc[r] = "dead" => proc'[r] = "dead"
    BY <1>1, <1>4
  <2>4. OneOwner'
    BY <1>2, <2>1, <2>2, <2>3 DEF Calm, OneOwner
  <2>5. \A r \in Pids : proc'[r] \in {"forked", "locked"} => proc'[r] = proc[r]
    BY <1>4
  <2>6. cmd.pc = "fork" => ~Alive(cmd.pid)'
    BY <1>1, <1>2, <1>4, <2>1, <1>t DEF Calm, CommandKnows, CommandSaw, Alive
  <2>7. CommandKnows'
    BY <1>2, <2>1, <2>2, <2>3, <2>5, <2>6, <1>t DEF Calm, CommandKnows, CommandSaw, Stopping
  <2>8. StoppedIsLast'
    BY <1>2, <2>1, <2>2 DEF Calm, StoppedIsLast
  <2> QED
    BY <2>4, <2>7, <2>8 DEF Calm
<1> QED
  BY <1>5, <1>6, <1>7, <1>8 DEF DaemonInv

\* The processes keep the invariant: starting, being signalled, exiting,
\* crashing at any moment and changing to another program.
LEMMA ProcessInv == ASSUME DaemonInv, NEW p \in Pids, Process(p) PROVE DaemonInv'
<1>1. CASE WriteOpen(p) \/ WritePid(p)
  BY <1>1, WriteInv
<1>2. CASE Detach(p)
  <2>1. UNCHANGED <<file, old, lost, cmd, result, hasty, hijacked>> /\ proc[p] = "written"
    BY <1>2 DEF Detach, history
  <2> QED
    BY <1>2, <2>1, ProcessMoves DEF Detach
<1>3. ASSUME UNCHANGED <<file, proc, old, lost, cmd, result, hasty, hijacked>> PROVE DaemonInv'
  <2>1. TypeOK' /\ Past' /\ CommandSaw'
    BY <1>3 DEF DaemonInv, TypeOK, Past, CommandSaw, Copy
  <2>2. ASSUME Undisturbed' PROVE Calm'
    BY <1>3, <2>2 DEF DaemonInv, Undisturbed, Calm, OneOwner, CommandKnows, StoppedIsLast,
       Owner, Copy, Alive
  <2> QED
    BY <2>1, <2>2 DEF DaemonInv
<1>4. CASE Signal(p)
  BY <1>3, <1>4 DEF Signal, history
<1>5. CASE SignalHandler(p)
  <2>1. UNCHANGED <<file, old, lost, cmd, result, hasty, hijacked>> /\ proc[p] \notin {"unused", "dead"}
    BY <1>5 DEF SignalHandler, Alive, history
  <2>2. CASE Becomes(p, "dead")
    BY <2>1, <2>2, ProcessMoves
  <2>3. CASE proc[p] = "serving" /\ Becomes(p, "exiting")
    BY <2>1, <2>3, ProcessMoves
  <2>4. CASE UNCHANGED proc
    BY <1>3, <2>1, <2>4
  <2> QED
    BY <1>5, <2>2, <2>3, <2>4 DEF SignalHandler
<1>6. CASE Exit(p)
  BY <1>6, ProcessMoves DEF Exit, history
<1>7. CASE ExitCaller(p)
  BY <1>7, ExitInv
<1>8. CASE Dies(p)
  BY <1>8, ProcessMoves DEF Dies, Alive, history
<1>9. CASE ChangeTo(p)
  BY <1>9, ChangeInv
<1>10. CASE Exec(p)
  <2>1. UNCHANGED <<file, old, lost, cmd, result, hasty, hijacked>> /\ proc[p] = "waiting"
    BY <1>10 DEF Exec, history
  <2>2. Copy(p)
    BY <2>1 DEF DaemonInv, Past
  <2> QED
    BY <1>10, <2>1, <2>2, ProcessMoves DEF Exec
<1> QED
  BY <1>1, <1>2, <1>4, <1>5, <1>6, <1>7, <1>8, <1>9, <1>10 DEF Process

-----------------------------------------------------------------------------
(* The theorems.                                                            *)

\* In every reachable state: what a command between two of its system calls
\* has seen is still so, and, if undisturbed, one daemon at most is between
\* fork and its exit hook, the file its own once written, and the command
\* right about who may be running.
THEOREM DaemonInvariant == Spec => []DaemonInv
<1>1. DaemonInv /\ UNCHANGED vars => DaemonInv'
  <2> SUFFICES ASSUME DaemonInv, UNCHANGED vars PROVE DaemonInv'
    OBVIOUS
  <2>1. UNCHANGED <<file, proc, old, lost, cmd, result, hasty, hijacked>>
    BY DEF vars, procs, history
  <2>2. TypeOK' /\ Past' /\ CommandSaw'
    BY <2>1 DEF DaemonInv, TypeOK, Past, CommandSaw, Copy
  <2>3. ASSUME Undisturbed' PROVE Calm'
    BY <2>1, <2>3 DEF DaemonInv, Undisturbed, Calm, OneOwner, CommandKnows, StoppedIsLast,
       Owner, Copy, Alive
  <2> QED
    BY <2>2, <2>3 DEF DaemonInv
<1>2. DaemonInv /\ [Next]_vars => DaemonInv'
  BY <1>1, CommandInv, ProcessInv DEF Next
<1> QED
  BY DaemonInitInv, <1>2, PTL DEF Spec

\* The pid file names the daemon that is running, for any number of processes
\* forked, crashed, restarted and changed to, copies of a daemon included,
\* until a start is hasty or a copy deletes a daemon's file.
THEOREM FileAlwaysNamesDaemon == Spec => []FileNamesDaemon
<1>1. DaemonInv => FileNamesDaemon
  BY DEF DaemonInv, Calm, OneOwner, FileNamesDaemon, Owner, Owning
<1> QED
  BY <1>1, DaemonInvariant, PTL

\* A stop that returned 0 found a process that is dead, however many signals
\* it may send; and, if undisturbed, left no file and no daemon: what is alive
\* is past its exit hook, or was forked by changeTo.
THEOREM StopAlwaysMeansGone == Spec => []StopMeansGone
<1>1. DaemonInv => StopMeansGone
  <2> SUFFICES ASSUME DaemonInv, result.how = "stopped" PROVE StopMeansGone
    BY DEF StopMeansGone
  <2>1. result.pid \in Pids /\ proc[result.pid] = "dead"
    BY DEF DaemonInv, CommandSaw
  <2>2. ASSUME Undisturbed
        PROVE  /\ file = "none"
               /\ \A p \in Pids : Copy(p) \/ proc[p] \in {"unused", "gone", "program", "dead"}
    <3>1. file = "none" /\ \A p \in Pids : ~Owner(p)
      BY <2>2 DEF DaemonInv, Calm, StoppedIsLast
    <3>2. \A p \in Pids : proc[p] \in Stages /\ (proc[p] = "waiting" => Copy(p))
      BY DEF DaemonInv, TypeOK, Past
    <3> QED
      BY <3>1, <3>2 DEF Owner, Stages
  <2> QED
    BY <2>1, <2>2 DEF StopMeansGone
<1> QED
  BY <1>1, DaemonInvariant, PTL
=============================================================================
