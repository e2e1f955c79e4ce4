------------------------------ MODULE AxiomRun ------------------------------
(***************************************************************************)
(* The life of an axiom-run with services: the master starts a slave on    *)
(* every node (axiom-run.c: start) and waits for their CMD_EXIT messages   *)
(* (master.c), each slave waits for CMD_START, forks the application and   *)
(* serves it until it ends (slave.c). Messages between two nodes stay in   *)
(* order. A status is what waitpid returns: 256 times an exit code, or a   *)
(* signal number.                                                          *)
(***************************************************************************)
EXTENDS Integers, Sequences, FiniteSets

CONSTANTS
  Nodes,        \* the nodes of the run, node numbers
  Setups,       \* the command lines: [services, mode]
  Leftovers,    \* what an earlier run may have left in the queue of a slave
  Codes,        \* exit codes of an application
  MaxWrites,    \* bound on the writes of an application to its stdout
  MaxSignals,   \* bound on the signals sent to master and slaves
  MaxFaults     \* bound on failing calls

\* the values of -E
ExitModes == {"GREATHER", "LESSER", "FIRST", "LAST", "NOFAIL", "FIRST_ABS"}

ASSUME AxiomRunAssumption ==
  /\ IsFiniteSet(Nodes) /\ Nodes \subseteq Nat /\ Nodes # {} /\ Codes \subseteq Nat
  /\ Leftovers \subseteq Seq({"OLDSTART", "KILL"})
  /\ \A s \in Setups : s.mode \in ExitModes

SIGSEGV == 11
termmode == 15   \* SIGTERM, the default of -T
Output == -1     \* CMD_SEND_TO_STDOUT or STDERR, among the statuses of CMD_EXIT

VARIABLES
  setup,                      \* the command line
  mpc, node, err,             \* main of the master: where it is, node of the loop
  exitOn,                     \* EXIT_SERVICE in info->services of master_receiver
  exit_counter, exit_status,  \* of master_receiver
  toSlave, toMaster,          \* messages under way, per node
  spc,                        \* spc[n]: where the slave of node n is
  child,                      \* child[n]: the application of node n
  status, my_sigterm,         \* of slave n
  pipe,                       \* pipe[n]: output of the application not yet read
  written, emitted,           \* history: output of n, output of n the master printed
  reports,                    \* history: the statuses the master received, in order
  signals, faults,            \* history: signals sent, calls failed
  odd,                        \* history: slaves that reported twice or a stopped application
  hit                         \* history: slaves and applications that got a signal

master == <<mpc, node, err, exitOn, exit_counter, exit_status, emitted, reports>>
slaves == <<spc, child, status, my_sigterm, pipe, written>>
vars == <<setup, master, toSlave, toMaster, slaves, signals, faults, odd, hit>>

services == setup.services
HasReceiver == services \cap {"redirect", "exit", "kill"} # {}

First(S) == CHOOSE n \in S : \A m \in S : n <= m
After(n) == {m \in Nodes : m > n}

Init ==
  /\ setup \in Setups
  /\ mpc = "exec" /\ node = First(Nodes) /\ err = FALSE
  /\ exitOn = ("exit" \in setup.services)
  /\ exit_counter = Cardinality(Nodes) /\ exit_status = 0
  /\ toSlave \in [Nodes -> Leftovers]
  /\ toMaster = [n \in Nodes |-> << >>]
  /\ spc = [n \in Nodes |-> "none"] /\ child = [n \in Nodes |-> "none"]
  /\ status = [n \in Nodes |-> 0] /\ my_sigterm = [n \in Nodes |-> FALSE]
  /\ pipe = [n \in Nodes |-> 0] /\ written = [n \in Nodes |-> 0]
  /\ emitted = [n \in Nodes |-> 0]
  /\ reports = << >> /\ signals = 0 /\ faults = 0 /\ odd = {} /\ hit = {}

Fault == faults < MaxFaults /\ faults' = faults + 1
Signal == signals < MaxSignals /\ signals' = signals + 1

Set(f, n, v) == [f EXCEPT ![n] = v]
SendTo(n, msg) == toSlave' = [toSlave EXCEPT ![n] = Append(@, msg)]
SendAll(msg) == toSlave' = [n \in Nodes |-> Append(toSlave[n], msg)]
Report(n, msg) == toMaster' = [toMaster EXCEPT ![n] = Append(@, msg)]

(***************************************************************************)
(* The master.                                                             *)
(***************************************************************************)
NextNode(afterLoop) ==
  IF After(node) # {} THEN mpc' = mpc /\ node' = First(After(node))
  ELSE mpc' = afterLoop /\ node' = First(Nodes)

\* one axinit_execvpe of start; it may fail, which ends the loop, and it may
\* report success although axiom-init had no slot for the slave
Exec ==
  /\ mpc = "exec"
  /\ \/ /\ spc' = Set(spc, node, "wait")
        /\ NextNode("notify") /\ UNCHANGED <<err, faults>>
     \/ Fault /\ NextNode("notify") /\ UNCHANGED <<err, spc>>
     \/ /\ Fault /\ err' = TRUE
        /\ mpc' = "notify" /\ node' = First(Nodes) /\ UNCHANGED spc
  /\ UNCHANGED <<setup, exitOn, exit_counter, exit_status, emitted, reports, toSlave,
                 toMaster, child, status, my_sigterm, pipe, written, signals, odd, hit>>

\* one notify_barrier of start: to every node, whatever became of its slave.
\* After the loop main gives up if an exec has failed.
notify_barrier ==
  /\ mpc = "notify"
  /\ SendTo(node, "START")
  /\ NextNode(IF err THEN "failed" ELSE "setup")
  /\ UNCHANGED <<setup, err, exitOn, exit_counter, exit_status, emitted, reports,
                 toMaster, slaves, signals, faults, odd, hit>>

\* with all signals blocked the threads are created and the handler is set
manage_master_services ==
  /\ mpc = "setup"
  /\ mpc' = "run"
  /\ UNCHANGED <<setup, node, err, exitOn, exit_counter, exit_status, emitted, reports,
                 toSlave, toMaster, slaves, signals, faults, odd, hit>>

WIFEXITED(st) == st % 128 = 0
WEXITSTATUS(st) == st \div 256

\* mutant: a later exit code replaces a signal
Merged_SignalLost(old, new, mode) ==
  CASE WIFEXITED(old) /\ ~ WIFEXITED(new) -> IF mode = "FIRST_ABS" THEN old ELSE new
    [] OTHER ->
         CASE mode = "LAST" -> new
           [] mode = "GREATHER" /\ WEXITSTATUS(new) > WEXITSTATUS(old) -> new
           [] mode = "LESSER" /\ WEXITSTATUS(new) < WEXITSTATUS(old) -> new
           [] OTHER -> old

\* the exit status after one more report: signals win and stay, else the mode
\* decides (CMD_EXIT without EXIT_SERVICE)
Merged(old, new, mode) ==
  CASE ~ WIFEXITED(old) -> old
    [] WIFEXITED(old) /\ ~ WIFEXITED(new) -> IF mode = "FIRST_ABS" THEN old ELSE new
    [] WIFEXITED(old) /\ WIFEXITED(new) ->
         CASE mode = "LAST" -> new
           [] mode = "GREATHER" /\ WEXITSTATUS(new) > WEXITSTATUS(old) -> new
           [] mode = "LESSER" /\ WEXITSTATUS(new) < WEXITSTATUS(old) -> new
           [] OTHER -> old

\* the first report under EXIT_SERVICE is taken as it is and kills the others
TakeStatus(st) ==
  LET merged == IF exitOn THEN st ELSE Merged(exit_status, st, setup.mode)
  IN exit_status' = IF setup.mode = "NOFAIL" THEN 0 ELSE merged

RecvExit(n) ==
  /\ mpc = "run" /\ exit_counter > 0
  /\ toMaster[n] # << >> /\ Head(toMaster[n]) # Output
  /\ toMaster' = [toMaster EXCEPT ![n] = Tail(@)]
  /\ TakeStatus(Head(toMaster[n]))
  /\ IF exitOn THEN SendAll("KILL") ELSE UNCHANGED toSlave
  /\ exitOn' = FALSE
  /\ exit_counter' = exit_counter - 1
  /\ reports' = Append(reports, Head(toMaster[n]))
  /\ UNCHANGED <<setup, mpc, node, err, emitted, slaves, signals, faults, odd, hit>>

\* CMD_SEND_TO_STDOUT and CMD_SEND_TO_STDERR
RecvOutput(n) ==
  /\ mpc = "run" /\ exit_counter > 0
  /\ toMaster[n] # << >> /\ Head(toMaster[n]) = Output
  /\ toMaster' = [toMaster EXCEPT ![n] = Tail(@)]
  /\ emitted' = [emitted EXCEPT ![n] = @ + 1]
  /\ UNCHANGED <<setup, mpc, node, err, exitOn, exit_counter, exit_status, reports,
                 toSlave, slaves, signals, faults, odd, hit>>

\* mutant: the loop ends one report too early
MasterEnds_OneLeft ==
  /\ mpc = "run" /\ exit_counter <= 1
  /\ mpc' = "done"
  /\ UNCHANGED <<setup, node, err, exitOn, exit_counter, exit_status, emitted, reports,
                 toSlave, toMaster, slaves, signals, faults, odd, hit>>

\* master_receiver has returned and is joined
MasterEnds ==
  /\ mpc = "run" /\ exit_counter = 0
  /\ mpc' = "done"
  /\ UNCHANGED <<setup, node, err, exitOn, exit_counter, exit_status, emitted, reports,
                 toSlave, toMaster, slaves, signals, faults, odd, hit>>

\* SIGINT, SIGQUIT or SIGTERM: before the handler is set it ends the process,
\* then it runs myexit, which sends CMD_KILL under the kill service
MasterSignal ==
  /\ Signal
  /\ \/ /\ mpc \in {"exec", "notify", "setup"}
        /\ mpc' = "killed" /\ UNCHANGED toSlave
     \/ /\ mpc = "run"
        /\ mpc' = "exited"
        /\ IF "kill" \in services THEN SendAll("KILL") ELSE UNCHANGED toSlave
  /\ UNCHANGED <<setup, node, err, exitOn, exit_counter, exit_status, emitted, reports,
                 toMaster, slaves, faults, odd, hit>>

(***************************************************************************)
(* The slave and the application of node n.                                *)
(***************************************************************************)
\* mutant: the start message of an earlier run is taken too
wait_on_barrier_AnyMagic(n) ==
  /\ spc[n] = "wait" /\ toSlave[n] # << >>
  /\ toSlave' = [toSlave EXCEPT ![n] = Tail(@)]
  /\ IF Head(toSlave[n]) # "KILL"
     THEN spc' = Set(spc, n, "fork") /\ child' = Set(child, n, "forked")
     ELSE UNCHANGED <<spc, child>>
  /\ UNCHANGED <<setup, master, toMaster, status, my_sigterm, pipe, written, signals,
                 faults, odd, hit>>

\* mutant: no report when there is no child
wait_on_barrier_Silent(n) ==
  /\ spc[n] = "wait" /\ toSlave[n] # << >>
  /\ toSlave' = [toSlave EXCEPT ![n] = Tail(@)]
  /\ IF Head(toSlave[n]) = "START"
     THEN \/ spc' = Set(spc, n, "fork") /\ child' = Set(child, n, "forked") /\ UNCHANGED faults
          \/ Fault /\ spc' = Set(spc, n, "gone") /\ UNCHANGED child
     ELSE UNCHANGED <<spc, child, faults>>
  /\ UNCHANGED <<setup, master, toMaster, status, my_sigterm, pipe, written, signals, odd, hit>>

\* only CMD_START of this run leaves wait_on_barrier; then the child is
\* forked, and without one an undefined status is reported
wait_on_barrier(n) ==
  /\ spc[n] = "wait" /\ toSlave[n] # << >>
  /\ toSlave' = [toSlave EXCEPT ![n] = Tail(@)]
  /\ IF Head(toSlave[n]) = "START"
     THEN \/ /\ spc' = Set(spc, n, "fork") /\ child' = Set(child, n, "forked")
             /\ UNCHANGED <<status, faults>>
          \/ /\ Fault /\ spc' = Set(spc, n, "report")
             /\ \E st \in {256 * c : c \in Codes} \cup {SIGSEGV} : status' = Set(status, n, st)
             /\ UNCHANGED child
     ELSE UNCHANGED <<spc, child, status, faults>>
  /\ UNCHANGED <<setup, master, toMaster, my_sigterm, pipe, written, signals, odd, hit>>

\* the threads run, the handler is set, and the child is woken
StartThreads(n) ==
  /\ spc[n] = "fork"
  /\ spc' = Set(spc, n, "up") /\ child' = Set(child, n, "running")
  /\ UNCHANGED <<setup, master, toSlave, toMaster, status, my_sigterm, pipe, written,
                 signals, faults, odd, hit>>

ChildWrites(n) ==
  /\ child[n] = "running" /\ "redirect" \in services /\ written[n] < MaxWrites
  /\ pipe' = [pipe EXCEPT ![n] = @ + 1] /\ written' = [written EXCEPT ![n] = @ + 1]
  /\ UNCHANGED <<setup, master, toSlave, toMaster, spc, child, status, my_sigterm,
                 signals, faults, odd, hit>>

Dies(n, st) == child' = Set(child, n, "dead") /\ status' = Set(status, n, st)

ChildEnds(n) ==
  /\ child[n] = "running"
  /\ \E st \in {256 * c : c \in Codes} \cup {SIGSEGV} : Dies(n, st)
  /\ UNCHANGED <<setup, master, toSlave, toMaster, spc, my_sigterm, pipe, written,
                 signals, faults, odd, hit>>

\* somebody stops the application: waitpid with WUNTRACED reports that too
ChildStops(n) ==
  /\ child[n] = "running" /\ spc[n] = "up" /\ Signal
  /\ child' = Set(child, n, "stopped") /\ status' = Set(status, n, 127)
  /\ odd' = odd \cup {n} /\ hit' = hit \cup {n}
  /\ UNCHANGED <<setup, master, toSlave, toMaster, spc, my_sigterm, pipe, written, faults>>

send_thread(n) ==
  /\ spc[n] = "up" /\ pipe[n] > 0
  /\ pipe' = [pipe EXCEPT ![n] = @ - 1]
  /\ Report(n, Output)
  /\ UNCHANGED <<setup, master, toSlave, spc, child, status, my_sigterm, written,
                 signals, faults, odd, hit>>

\* a signal ends the application, or it catches it and ends by itself
Killed(n, sig) ==
  IF child[n] \in {"running", "stopped"}
  THEN \E st \in {256 * c : c \in Codes} \cup {sig} : Dies(n, st)
  ELSE UNCHANGED <<child, status>>

\* mutant: only the kill service lets CMD_KILL through
recv_thread_KillOnly(n) ==
  /\ spc[n] = "up" /\ HasReceiver /\ toSlave[n] # << >>
  /\ toSlave' = [toSlave EXCEPT ![n] = Tail(@)]
  /\ IF Head(toSlave[n]) = "KILL" /\ "kill" \in services
     THEN my_sigterm' = Set(my_sigterm, n, TRUE) /\ Killed(n, termmode)
     ELSE UNCHANGED <<my_sigterm, child, status>>
  /\ UNCHANGED <<setup, master, toMaster, spc, pipe, written, signals, faults, odd, hit>>

\* recv_thread: CMD_KILL, if the service of the slave asks for it
recv_thread(n) ==
  /\ spc[n] = "up" /\ HasReceiver /\ toSlave[n] # << >>
  /\ toSlave' = [toSlave EXCEPT ![n] = Tail(@)]
  /\ IF Head(toSlave[n]) = "KILL" /\ services \cap {"exit", "kill"} # {}
     THEN my_sigterm' = Set(my_sigterm, n, TRUE) /\ Killed(n, termmode)
     ELSE UNCHANGED <<my_sigterm, child, status>>
  /\ UNCHANGED <<setup, master, toMaster, spc, pipe, written, signals, faults, odd, hit>>

\* mutant: what is left in the pipe is not read
waitpid_NoDrain(n) ==
  /\ spc[n] = "up" /\ child[n] \in {"dead", "stopped"}
  /\ status' = Set(status, n, IF my_sigterm[n] /\ status[n] = termmode THEN 0 ELSE status[n])
  /\ spc' = Set(spc, n, "report")
  /\ UNCHANGED <<setup, master, toSlave, toMaster, child, my_sigterm, pipe, written,
                 signals, faults, odd, hit>>

\* waitpid returns; a death by our own signal counts as success. Then the
\* threads are ended, whatever is left in the queue of the slave.
waitpid(n) ==
  /\ spc[n] = "up" /\ child[n] \in {"dead", "stopped"}
  /\ status' = Set(status, n, IF my_sigterm[n] /\ status[n] = termmode THEN 0 ELSE status[n])
  /\ spc' = Set(spc, n, IF "redirect" \in services THEN "drain" ELSE "report")
  /\ UNCHANGED <<setup, master, toSlave, toMaster, child, my_sigterm, pipe, written,
                 signals, faults, odd, hit>>

\* what the application wrote before it ended is still read from the pipe;
\* with nothing left in it the loop ends
Drain(n) ==
  /\ spc[n] = "drain"
  /\ IF pipe[n] > 0
     THEN /\ pipe' = [pipe EXCEPT ![n] = @ - 1] /\ Report(n, Output) /\ UNCHANGED spc
     ELSE spc' = Set(spc, n, "report") /\ UNCHANGED <<pipe, toMaster>>
  /\ UNCHANGED <<setup, master, toSlave, child, status, my_sigterm, written, signals,
                 faults, odd, hit>>

SendExit(n) ==
  /\ spc[n] = "report"
  /\ spc' = Set(spc, n, "sent")
  /\ Report(n, status[n])
  /\ UNCHANGED <<setup, master, toSlave, child, status, my_sigterm, pipe, written,
                 signals, faults, odd, hit>>

SlaveEnds(n) ==
  /\ spc[n] = "sent" /\ spc' = Set(spc, n, "gone")
  /\ UNCHANGED <<setup, master, toSlave, toMaster, child, status, my_sigterm, pipe,
                 written, signals, faults, odd, hit>>

\* SIGTERM to the slave: with the handler set it kills the application and
\* reports the signal, also when it has reported already
SlaveSignal(n) ==
  /\ Signal
  /\ spc[n] \in {"up", "drain", "report", "sent"} /\ child[n] # "none"
  /\ spc' = Set(spc, n, "gone")
  /\ Killed(n, 15) /\ Report(n, 15)
  /\ odd' = IF spc[n] = "sent" THEN odd \cup {n} ELSE odd
  /\ hit' = hit \cup {n}
  /\ UNCHANGED <<setup, master, toSlave, my_sigterm, pipe, written, faults>>

\* without the handler the signal ends the slave: nothing is reported, and a
\* child that is not yet woken waits for ever
SlaveKilled(n) ==
  /\ spc[n] \in {"wait", "fork"} \/ (spc[n] \in {"report", "sent"} /\ child[n] = "none")
  /\ Signal
  /\ spc' = Set(spc, n, "gone") /\ hit' = hit \cup {n}
  /\ UNCHANGED <<setup, master, toSlave, toMaster, child, status, my_sigterm, pipe,
                 written, faults, odd>>

MasterStep == Exec \/ notify_barrier \/ manage_master_services \/ MasterEnds
              \/ \E n \in Nodes : RecvExit(n) \/ RecvOutput(n)
SlaveStep(n) == \/ wait_on_barrier(n) \/ StartThreads(n) \/ send_thread(n)
                \/ waitpid(n) \/ Drain(n) \/ SendExit(n) \/ SlaveEnds(n)
Next ==
  \/ MasterStep \/ MasterSignal
  \/ \E n \in Nodes :
       \/ SlaveStep(n) \/ recv_thread(n) \/ ChildWrites(n) \/ ChildEnds(n) \/ ChildStops(n)
       \/ SlaveSignal(n) \/ SlaveKilled(n)

\* master and slaves are scheduled again and again; no application has to end
Fairness ==
  /\ WF_vars(MasterStep)
  /\ \A n \in Nodes : WF_vars(SlaveStep(n)) /\ WF_vars(recv_thread(n))

Spec == Init /\ [][Next]_vars /\ Fairness
-----------------------------------------------------------------------------
\* the master returns its exit status only when no application of the run
\* lives any more: it has counted one CMD_EXIT of every slave, whatever
\* slaves caught a signal or could not fork (exit_counter of master_receiver)
MasterWaits ==
  mpc = "done" /\ odd = {} => \A n \in Nodes : child[n] \in {"none", "dead"}

\* everything the applications wrote has been printed when the master ends,
\* also what was still in the pipe when the application died and what was
\* under way when the threads were ended, unless a slave was killed
OutputComplete ==
  mpc = "done" /\ odd = {} => \A n \in Nodes \ hit : emitted[n] = written[n]

\* st is the exit status help promises for a mode, from the statuses in the
\* order in which they came
Promised(mode, sts, st) ==
  LET all == 1 .. Len(sts)
      caught == {k \in all : ~ WIFEXITED(sts[k])}
  IN \/ mode = "NOFAIL" /\ st = 0
     \/ mode = "FIRST_ABS" /\ st = sts[1]
     \/ /\ mode \notin {"NOFAIL", "FIRST_ABS"} /\ caught # {}
        /\ \E k \in caught : st = sts[k] /\ \A j \in caught : k <= j
     \/ /\ caught = {}
        /\ \/ mode = "FIRST" /\ st = sts[1]
           \/ mode = "LAST" /\ st = sts[Len(sts)]
           \/ mode = "GREATHER" /\ \E k \in all : st = sts[k] /\ \A j \in all : sts[j] <= st
           \/ mode = "LESSER" /\ \E k \in all : st = sts[k] /\ \A j \in all : st <= sts[j]

\* under the exit service the status computed message by message is the one
\* the help text of -E defines for the whole run
ExitStatusRight ==
  mpc = "done" /\ "exit" \in services =>
    reports # << >> /\ Promised(setup.mode, reports, exit_status)

\* no application starts before a slave has been started on every node, and
\* none is ended but by a CMD_KILL of this run: what an earlier run has left
\* in the queue of a port does neither (AXIOM_FLAG_NOFLUSH, wait_on_barrier)
OnlyThisRun ==
  /\ (\E n \in Nodes : child[n] # "none") =>
       faults > 0 \/ \A m \in Nodes : spc[m] # "none"
  /\ (\E n \in Nodes : my_sigterm[n]) =>
       (mpc = "exited" /\ "kill" \in services) \/ ("exit" \in services /\ reports # << >>)

Ended(n) == spc[n] = "gone" /\ child[n] # "running"

\* the end of one application under the exit service, and of the master by a
\* signal under the kill service, ends every application and every slave,
\* wherever in their start these are
EndSpreads ==
  ((mpc = "exited" /\ "kill" \in services) \/ ("exit" \in services /\ reports # << >>))
    ~> (\A n \in Nodes : Ended(n) \/ spc[n] = "none" \/ n \in hit)

\* when every slave has ended, so does the master
RunEnds ==
  (\A n \in Nodes : spc[n] = "gone") ~> (mpc # "run" \/ signals > 0)

\* axiom-run.c:188-190 promises for the kill service that the end of the
\* master, whatever its cause, ends every application
KillService ==
  ("kill" \in services /\ mpc \in {"done", "failed", "exited"})
    ~> (\A n \in Nodes : child[n] # "running")
=============================================================================
