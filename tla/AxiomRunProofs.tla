--------------------------- MODULE AxiomRunProofs ---------------------------
(***************************************************************************)
(* The end of an axiom-run, for every set of nodes, every command line,    *)
(* every exit code and any number of signals and failing calls: what has   *)
(* happened on the nodes when the master ends.                             *)
(*                                                                         *)
(* First what the steps of axiom-run preserve: the types, and the relation *)
(* of every slave to its application, to its messages to the master and to *)
(* the output of the application.                                          *)
(***************************************************************************)
EXTENDS AxiomRun, FiniteSetTheorems, TLAPS

Msgs == {"OLDSTART", "KILL", "START"}

\* what waitpid returns: the number of a signal, or 256 times an exit code
Statuses == {st \in Nat : WIFEXITED(st) => st % 256 = 0}
Words == Statuses \cup {Output}

SlavePcs == {"none", "wait", "fork", "up", "drain", "report", "sent", "gone"}
Lives == {"none", "forked", "running", "stopped", "dead"}

RunTypeOK ==
  /\ setup \in Setups
  /\ toSlave \in [Nodes -> Seq(Msgs)] /\ toMaster \in [Nodes -> Seq(Words)]
  /\ spc \in [Nodes -> SlavePcs] /\ child \in [Nodes -> Lives]
  /\ status \in [Nodes -> Statuses] /\ reports \in Seq(Statuses)
  /\ pipe \in [Nodes -> Nat] /\ written \in [Nodes -> Nat] /\ emitted \in [Nodes -> Nat]

AllOutput(s) == \A k \in 1 .. Len(s) : s[k] = Output
FrontOutput(s) == \A k \in 1 .. Len(s) : k < Len(s) => s[k] = Output
Outputs(s) == IF AllOutput(s) THEN Len(s) ELSE Len(s) - 1
NoStart(s) == \A k \in 1 .. Len(s) : s[k] # "START"

Over(n) == child[n] \in {"none", "dead"}

\* the slave of node n against its application and its report, where C is the
\* set of nodes whose CMD_EXIT the master has counted: a slave reports once,
\* as the last thing it sends, and not before its application is over
SlaveInv(C, n) ==
  /\ spc[n] \in {"none", "wait"} => child[n] = "none"
  /\ spc[n] = "fork" => child[n] = "forked"
  /\ spc[n] = "up" => child[n] \in {"running", "dead"}
  /\ spc[n] \in {"drain", "report", "sent"} => Over(n)
  /\ spc[n] = "gone" => child[n] \in {"none", "forked", "dead"}
  /\ spc[n] \notin {"sent", "gone"} => n \notin C /\ AllOutput(toMaster[n])
  /\ n \in C => toMaster[n] = << >> /\ Over(n)
  /\ FrontOutput(toMaster[n])
  /\ ~AllOutput(toMaster[n]) => Over(n)

\* everything the application of n has written is in the pipe, under way to
\* the master or printed, and nothing is left in the pipe by the time the
\* slave reports, unless a signal hit the slave
OutputInv(n) ==
  n \notin hit =>
    /\ written[n] = emitted[n] + pipe[n] + Outputs(toMaster[n])
    /\ spc[n] \notin {"up", "drain"} => pipe[n] = 0
    /\ "redirect" \notin services => pipe[n] = 0

NodeInv(C, n) == SlaveInv(C, n) /\ OutputInv(n)

\* while the slaves are being started none of them has been told to go on
ExecInv(C) ==
  mpc = "exec" =>
    /\ C = {}
    /\ \A n \in Nodes : /\ spc[n] \in {"none", "wait", "gone"} /\ child[n] = "none"
                        /\ toMaster[n] = << >> /\ NoStart(toSlave[n])

Sound(C) == ExecInv(C) /\ \A n \in Nodes : NodeInv(C, n)

\* a step that leaves every slave but that of n alone
Only(n) ==
  /\ \A m \in Nodes \ {n} :
       /\ spc'[m] = spc[m] /\ child'[m] = child[m] /\ toMaster'[m] = toMaster[m]
       /\ pipe'[m] = pipe[m] /\ written'[m] = written[m] /\ emitted'[m] = emitted[m]
       /\ m \in hit => m \in hit'
  /\ setup' = setup /\ mpc' = mpc
-----------------------------------------------------------------------------
(* Messages *)

\* the statuses an application can end with
LEMMA StatusTyped ==
  /\ \A c \in Codes : 256 * c \in Statuses
  /\ SIGSEGV \in Statuses /\ termmode \in Statuses /\ 15 \in Statuses /\ 127 \in Statuses
  /\ 0 \in Statuses /\ Statuses \subseteq Nat /\ Output \notin Statuses
<1>1. ASSUME NEW c \in Codes PROVE 256 * c \in Statuses
  <2>1. 256 * c \in Nat /\ (256 * c) % 256 = 0
    BY AxiomRunAssumption
  <2> QED
    BY <2>1 DEF Statuses
<1>2. /\ SIGSEGV \in Statuses /\ termmode \in Statuses /\ 15 \in Statuses /\ 127 \in Statuses
      /\ 0 \in Statuses
  BY DEF Statuses, WIFEXITED, SIGSEGV, termmode
<1>3. Statuses \subseteq Nat /\ Output \notin Statuses
  BY DEF Statuses, Output
<1> QED
  BY <1>1, <1>2, <1>3

\* a queue without messages
LEMMA EmptyQueue ==
  AllOutput(<< >>) /\ FrontOutput(<< >>) /\ Outputs(<< >>) = 0
BY DEF AllOutput, FrontOutput, Outputs

\* a slave that has not reported sends output, or its report as the last message
LEMMA SentLast ==
  ASSUME NEW s \in Seq(Words), NEW x \in Words, AllOutput(s)
  PROVE  /\ FrontOutput(Append(s, x))
         /\ AllOutput(Append(s, x)) <=> x = Output
         /\ Outputs(Append(s, x)) = IF x = Output THEN Outputs(s) + 1 ELSE Outputs(s)
<1> DEFINE t == Append(s, x)
<1>1. /\ Len(t) = Len(s) + 1 /\ Len(s) \in Nat
      /\ \A k \in 1 .. Len(s) : t[k] = s[k]
      /\ t[Len(s) + 1] = x
  OBVIOUS
<1> HIDE DEF t
<1>2. ASSUME NEW k \in 1 .. Len(t) PROVE k \in 1 .. Len(s) \/ k = Len(t)
  BY <1>1
<1>3. ASSUME NEW k \in 1 .. Len(s) PROVE t[k] = Output
  BY Zenon, <1>1, <1>3 DEF AllOutput
<1>4. FrontOutput(t)
  BY <1>1, <1>2, <1>3 DEF FrontOutput
<1>5. AllOutput(t) <=> x = Output
  <2>1. t[Len(t)] = x /\ Len(t) \in 1 .. Len(t)
    BY <1>1
  <2> QED
    BY Zenon, <1>2, <1>3, <2>1 DEF AllOutput
<1> QED
  BY <1>1, <1>4, <1>5 DEF t, Outputs

\* the master takes output from the front of the queue, or the report from its end
LEMMA TakenFirst ==
  ASSUME NEW s \in Seq(Words), s # << >>, FrontOutput(s)
  PROVE  /\ Head(s) # Output => Tail(s) = << >> /\ ~AllOutput(s) /\ Outputs(s) = 0
         /\ Head(s) = Output => /\ FrontOutput(Tail(s))
                                /\ AllOutput(Tail(s)) <=> AllOutput(s)
                                /\ Outputs(Tail(s)) = Outputs(s) - 1
<1> DEFINE t == Tail(s)
<1>1. /\ t \in Seq(Words) /\ Len(s) \in Nat \ {0} /\ Len(t) = Len(s) - 1 /\ Head(s) = s[1]
      /\ \A k \in 1 .. Len(t) : t[k] = s[k + 1]
  OBVIOUS
<1> HIDE DEF t
<1>2. ASSUME Head(s) # Output PROVE t = << >> /\ ~AllOutput(s) /\ Outputs(s) = 0
  <2>1. Len(s) = 1
    BY <1>1, <1>2 DEF FrontOutput
  <2>2. ~AllOutput(s)
    BY <1>1, <1>2, <2>1 DEF AllOutput
  <2>3. t = << >>
    BY <1>1, <2>1
  <2> QED
    BY <2>1, <2>2, <2>3 DEF Outputs
<1>3. ASSUME NEW k \in 1 .. Len(t) PROVE k + 1 \in 1 .. Len(s) /\ t[k] = s[k + 1]
  BY <1>1
<1>4. ASSUME NEW k \in 1 .. Len(s), k # 1
      PROVE  \E j \in 1 .. Len(t) : t[j] = s[k]
  <2>1. k - 1 \in 1 .. Len(t) /\ (k - 1) + 1 = k
    BY <1>1, <1>4
  <2> QED
    BY Zenon, <1>1, <2>1
<1>5. FrontOutput(t)
  <2> SUFFICES ASSUME NEW k \in 1 .. Len(t), k < Len(t) PROVE t[k] = Output
    BY DEF FrontOutput
  <2>1. k + 1 < Len(s)
    BY <1>1
  <2> QED
    BY Zenon, <1>3, <2>1 DEF FrontOutput
<1>6. ASSUME Head(s) = Output PROVE AllOutput(t) <=> AllOutput(s)
  BY Zenon, <1>1, <1>3, <1>4, <1>6 DEF AllOutput
<1> QED
  BY <1>1, <1>2, <1>5, <1>6 DEF t, Outputs

\* what is left of a queue without CMD_START has none
LEMMA NoStartTail ==
  ASSUME NEW s \in Seq(Msgs), s # << >>, NoStart(s)
  PROVE  Head(s) # "START" /\ NoStart(Tail(s))
<1> DEFINE t == Tail(s)
<1>1. /\ Len(s) \in Nat \ {0} /\ Len(t) = Len(s) - 1 /\ Head(s) = s[1]
      /\ \A k \in 1 .. Len(t) : t[k] = s[k + 1]
  OBVIOUS
<1> HIDE DEF t
<1> QED
  BY <1>1 DEF NoStart, t
-----------------------------------------------------------------------------
(* Types *)

\* one value of a table is replaced
LEMMA SetTyped ==
  ASSUME NEW T, NEW f \in [Nodes -> T], NEW n, NEW v \in T
  PROVE  [f EXCEPT ![n] = v] \in [Nodes -> T] /\ Set(f, n, v) \in [Nodes -> T]
BY Zenon DEF Set

\* whatever an application ends with is a status
LEMMA EndStatus ==
  ASSUME NEW sig \in Statuses, NEW st \in {256 * c : c \in Codes} \cup {sig}
  PROVE  st \in Statuses
<1>1. CASE st = sig
  BY Zenon, <1>1
<1>2. CASE st # sig
  <2>1. PICK c \in Codes : st = 256 * c
    BY <1>2
  <2>2. 256 * c \in Statuses
    BY Zenon, StatusTyped
  <2> QED
    BY Zenon, <2>1, <2>2
<1> QED
  BY Zenon, <1>1, <1>2

\* an application that ends is dead and has a status
LEMMA EndTyped ==
  ASSUME RunTypeOK, NEW n \in Nodes, NEW sig \in Statuses,
         \E st \in {256 * c : c \in Codes} \cup {sig} : Dies(n, st)
  PROVE  /\ child' = [child EXCEPT ![n] = "dead"]
         /\ status' \in [Nodes -> Statuses]
<1>1. PICK st : st \in {256 * c : c \in Codes} \cup {sig} /\ Dies(n, st)
  BY Zenon
<1>2. st \in Statuses
  BY Zenon, <1>1, EndStatus
<1> QED
  BY Zenon, <1>1, <1>2, SetTyped DEF Dies, Set, RunTypeOK

\* a signal ends an application that runs or is stopped, and no other
LEMMA KilledTyped ==
  ASSUME RunTypeOK, NEW n \in Nodes, NEW sig \in Statuses, Killed(n, sig)
  PROVE  /\ child' = IF child[n] \in {"running", "stopped"}
                      THEN [child EXCEPT ![n] = "dead"] ELSE child
         /\ child' \in [Nodes -> Lives] /\ status' \in [Nodes -> Statuses]
<1>1. CASE child[n] \in {"running", "stopped"}
  <2>1. child' = [child EXCEPT ![n] = "dead"] /\ status' \in [Nodes -> Statuses]
    BY Zenon, <1>1, EndTyped DEF Killed
  <2>2. "dead" \in Lives /\ child \in [Nodes -> Lives]
    BY DEF Lives, RunTypeOK
  <2> QED
    BY Zenon, <1>1, <2>1, <2>2, SetTyped
<1>2. CASE child[n] \notin {"running", "stopped"}
  BY Zenon, <1>2 DEF Killed, RunTypeOK
<1> QED
  BY Zenon, <1>1, <1>2

\* a message taken from the queue of a slave, or put into its queue to the master
LEMMA QueuesTyped ==
  ASSUME RunTypeOK, NEW n \in Nodes, NEW x \in Words
  PROVE  /\ toSlave[n] # << >> => [toSlave EXCEPT ![n] = Tail(@)] \in [Nodes -> Seq(Msgs)]
         /\ [toMaster EXCEPT ![n] = Append(@, x)] \in [Nodes -> Seq(Words)]
<1>1. toSlave[n] \in Seq(Msgs) /\ toMaster[n] \in Seq(Words)
  BY Zenon DEF RunTypeOK
<1>2. toSlave[n] # << >> => Tail(toSlave[n]) \in Seq(Msgs)
  BY <1>1
<1>3. Append(toMaster[n], x) \in Seq(Words)
  BY <1>1
<1> QED
  BY Zenon, <1>2, <1>3, SetTyped DEF RunTypeOK

\* more output in the pipe, or less
LEMMA PipeTyped ==
  ASSUME RunTypeOK, NEW n \in Nodes
  PROVE  /\ [pipe EXCEPT ![n] = @ + 1] \in [Nodes -> Nat]
         /\ pipe[n] > 0 => [pipe EXCEPT ![n] = @ - 1] \in [Nodes -> Nat]
         /\ [written EXCEPT ![n] = @ + 1] \in [Nodes -> Nat]
         /\ [emitted EXCEPT ![n] = @ + 1] \in [Nodes -> Nat]
<1>1. pipe[n] \in Nat /\ written[n] \in Nat /\ emitted[n] \in Nat
  BY Zenon DEF RunTypeOK
<1>2. /\ pipe[n] > 0 => pipe[n] - 1 \in Nat
      /\ pipe[n] + 1 \in Nat /\ written[n] + 1 \in Nat /\ emitted[n] + 1 \in Nat
  BY <1>1
<1>3. pipe \in [Nodes -> Nat] /\ written \in [Nodes -> Nat] /\ emitted \in [Nodes -> Nat]
  BY Zenon DEF RunTypeOK
<1>4. /\ [pipe EXCEPT ![n] = pipe[n] + 1] \in [Nodes -> Nat]
      /\ pipe[n] > 0 => [pipe EXCEPT ![n] = pipe[n] - 1] \in [Nodes -> Nat]
  BY Zenon, <1>2, <1>3, SetTyped
<1>5. [written EXCEPT ![n] = written[n] + 1] \in [Nodes -> Nat]
  BY Zenon, <1>2, <1>3, SetTyped
<1>6. [emitted EXCEPT ![n] = emitted[n] + 1] \in [Nodes -> Nat]
  BY Zenon, <1>2, <1>3, SetTyped
<1> QED
  BY Zenon, <1>4, <1>5, <1>6

\* the steps that start and end a slave and its application
LEMMA LifeTyped ==
  ASSUME RunTypeOK, NEW n \in Nodes,
         \/ wait_on_barrier(n) \/ StartThreads(n) \/ waitpid(n) \/ SlaveEnds(n)
         \/ ChildEnds(n) \/ ChildStops(n) \/ SlaveKilled(n)
  PROVE  RunTypeOK'
<1>s. /\ {"wait", "fork", "up", "drain", "report", "sent", "gone"} \subseteq SlavePcs
      /\ {"forked", "running", "stopped", "dead"} \subseteq Lives
  BY DEF SlavePcs, Lives
<1>t. /\ spc \in [Nodes -> SlavePcs] /\ child \in [Nodes -> Lives]
      /\ status \in [Nodes -> Statuses] /\ status[n] \in Statuses
  BY Zenon DEF RunTypeOK
<1>1. CASE wait_on_barrier(n)
  <2>1. toSlave' \in [Nodes -> Seq(Msgs)]
    BY Zenon, <1>1, StatusTyped, QueuesTyped DEF wait_on_barrier, Words
  <2>2. \/ UNCHANGED <<spc, child, status>>
        \/ spc' = Set(spc, n, "fork") /\ child' = Set(child, n, "forked") /\ status' = status
        \/ /\ spc' = Set(spc, n, "report") /\ child' = child
           /\ \E st \in {256 * c : c \in Codes} \cup {SIGSEGV} : status' = Set(status, n, st)
    BY Zenon, <1>1 DEF wait_on_barrier
  <2>3. ASSUME NEW st \in {256 * c : c \in Codes} \cup {SIGSEGV}
        PROVE  st \in Statuses
    BY Zenon, StatusTyped, EndStatus
  <2>4. status' \in [Nodes -> Statuses]
    <3>1. status' = status \/ \E st \in Statuses : status' = Set(status, n, st)
      BY Zenon, <2>2, <2>3
    <3>2. ASSUME NEW st \in Statuses PROVE Set(status, n, st) \in [Nodes -> Statuses]
      BY Zenon, <1>t, SetTyped
    <3> QED
      BY Zenon, <1>t, <3>1, <3>2
  <2>5. spc' \in [Nodes -> SlavePcs] /\ child' \in [Nodes -> Lives]
    <3>1. "fork" \in SlavePcs /\ "report" \in SlavePcs /\ "forked" \in Lives
      BY <1>s
    <3>2. /\ spc' = spc \/ spc' = Set(spc, n, "fork") \/ spc' = Set(spc, n, "report")
          /\ child' = child \/ child' = Set(child, n, "forked")
      BY Zenon, <2>2
    <3>3. Set(child, n, "forked") \in [Nodes -> Lives]
      BY Zenon, <1>t, <3>1, SetTyped
    <3>4. Set(spc, n, "fork") \in [Nodes -> SlavePcs] /\ Set(spc, n, "report") \in [Nodes -> SlavePcs]
      BY Zenon, <1>t, <3>1, SetTyped
    <3> QED
      BY Zenon, <1>t, <3>2, <3>3, <3>4
  <2> QED
    BY Zenon, <1>1, <2>1, <2>4, <2>5 DEF wait_on_barrier, RunTypeOK, master
<1>2. CASE StartThreads(n) \/ SlaveEnds(n) \/ SlaveKilled(n)
  <2>1. spc' \in [Nodes -> SlavePcs] /\ child' \in [Nodes -> Lives]
    BY <1>2, <1>s, <1>t DEF StartThreads, SlaveEnds, SlaveKilled, Set
  <2> QED
    BY Zenon, <1>2, <2>1 DEF StartThreads, SlaveEnds, SlaveKilled, RunTypeOK, master
<1>3. CASE waitpid(n)
  <2>1. status' \in [Nodes -> Statuses]
    <3>1. (IF my_sigterm[n] /\ status[n] = termmode THEN 0 ELSE status[n]) \in Statuses
      BY <1>t, StatusTyped
    <3> QED
      BY Zenon, <1>3, <1>t, <3>1, SetTyped DEF waitpid
  <2>2. spc' \in [Nodes -> SlavePcs]
    BY <1>3, <1>s, <1>t DEF waitpid, Set
  <2> QED
    BY Zenon, <1>3, <2>1, <2>2 DEF waitpid, RunTypeOK, master
<1>4. CASE ChildEnds(n)
  <2>1. child' = [child EXCEPT ![n] = "dead"] /\ status' \in [Nodes -> Statuses]
    BY Zenon, <1>4, StatusTyped, EndTyped DEF ChildEnds
  <2>2. child' \in [Nodes -> Lives]
    BY <1>s, <1>t, <2>1
  <2> QED
    BY Zenon, <1>4, <2>1, <2>2 DEF ChildEnds, RunTypeOK, master
<1>5. CASE ChildStops(n)
  <2>1. child' \in [Nodes -> Lives] /\ status' \in [Nodes -> Statuses]
    BY <1>5, <1>s, <1>t, StatusTyped DEF ChildStops, Set
  <2> QED
    BY Zenon, <1>5, <2>1 DEF ChildStops, RunTypeOK, master
<1> QED
  BY Zenon, <1>1, <1>2, <1>3, <1>4, <1>5

\* the steps that move output or messages of a slave
LEMMA TrafficTyped ==
  ASSUME RunTypeOK, NEW n \in Nodes,
         \/ ChildWrites(n) \/ send_thread(n) \/ recv_thread(n) \/ Drain(n)
         \/ SendExit(n) \/ SlaveSignal(n)
  PROVE  RunTypeOK'
<1>o. Output \in Words /\ 15 \in Words /\ status[n] \in Words
  BY StatusTyped DEF Words, RunTypeOK
<1>s. "report" \in SlavePcs /\ "sent" \in SlavePcs /\ "gone" \in SlavePcs
  BY DEF SlavePcs
<1>1. CASE ChildWrites(n)
  BY Zenon, <1>1, PipeTyped DEF ChildWrites, RunTypeOK, master
<1>2. CASE send_thread(n)
  <2>1. toMaster' \in [Nodes -> Seq(Words)] /\ pipe' \in [Nodes -> Nat]
    BY Zenon, <1>2, <1>o, QueuesTyped, PipeTyped DEF send_thread, Report
  <2> QED
    BY Zenon, <1>2, <2>1 DEF send_thread, RunTypeOK, master
<1>3. CASE recv_thread(n)
  <2>1. toSlave' \in [Nodes -> Seq(Msgs)]
    BY Zenon, <1>3, <1>o, QueuesTyped DEF recv_thread
  <2>2. Killed(n, termmode) \/ UNCHANGED <<child, status>>
    BY Zenon, <1>3 DEF recv_thread
  <2>3. child' \in [Nodes -> Lives] /\ status' \in [Nodes -> Statuses]
    BY Zenon, <2>2, StatusTyped, KilledTyped DEF RunTypeOK
  <2> QED
    BY Zenon, <1>3, <2>1, <2>3 DEF recv_thread, RunTypeOK, master
<1>4. CASE Drain(n)
  <2>1. CASE pipe[n] > 0
    <3>1. pipe' = [pipe EXCEPT ![n] = @ - 1] /\ Report(n, Output) /\ spc' = spc
      BY <1>4, <2>1 DEF Drain
    <3>2. toMaster' \in [Nodes -> Seq(Words)] /\ pipe' \in [Nodes -> Nat] /\ spc' = spc
      BY Zenon, <1>o, <2>1, <3>1, QueuesTyped, PipeTyped DEF Report
    <3> QED
      BY Zenon, <1>4, <3>2 DEF Drain, RunTypeOK, master
  <2>2. CASE ~ (pipe[n] > 0)
    <3>1. spc' = Set(spc, n, "report") /\ UNCHANGED <<toMaster, pipe>>
      BY <1>4, <2>2 DEF Drain
    <3>2. spc' \in [Nodes -> SlavePcs] /\ UNCHANGED <<toMaster, pipe>>
      BY Zenon, <1>s, <3>1, SetTyped DEF RunTypeOK
    <3> QED
      BY Zenon, <1>4, <3>2 DEF Drain, RunTypeOK, master
  <2> QED
    BY Zenon, <2>1, <2>2
<1>5. CASE SendExit(n)
  <2>1. toMaster' \in [Nodes -> Seq(Words)] /\ spc' \in [Nodes -> SlavePcs]
    BY Zenon, <1>5, <1>o, <1>s, QueuesTyped, SetTyped DEF SendExit, Report, RunTypeOK
  <2> QED
    BY Zenon, <1>5, <2>1 DEF SendExit, RunTypeOK, master
<1>6. CASE SlaveSignal(n)
  <2>1. toMaster' \in [Nodes -> Seq(Words)] /\ spc' \in [Nodes -> SlavePcs]
    BY Zenon, <1>6, <1>o, <1>s, QueuesTyped, SetTyped DEF SlaveSignal, Report, RunTypeOK
  <2>2. child' \in [Nodes -> Lives] /\ status' \in [Nodes -> Statuses]
    BY Zenon, <1>6, StatusTyped, KilledTyped DEF SlaveSignal
  <2> QED
    BY Zenon, <1>6, <2>1, <2>2 DEF SlaveSignal, RunTypeOK, master
<1> QED
  BY Zenon, <1>1, <1>2, <1>3, <1>4, <1>5, <1>6

\* a message to one slave or to all
LEMMA SendTyped ==
  ASSUME RunTypeOK, NEW msg \in Msgs, NEW k, SendTo(k, msg) \/ SendAll(msg)
  PROVE  toSlave' \in [Nodes -> Seq(Msgs)]
<1>1. ASSUME NEW m \in Nodes PROVE Append(toSlave[m], msg) \in Seq(Msgs)
  <2>1. toSlave[m] \in Seq(Msgs)
    BY Zenon DEF RunTypeOK
  <2> QED
    BY <2>1
<1>2. CASE SendTo(k, msg)
  <2>1. toSlave \in [Nodes -> Seq(Msgs)]
    BY Zenon DEF RunTypeOK
  <2> QED
    BY Zenon, <1>1, <1>2, <2>1 DEF SendTo
<1>3. CASE SendAll(msg)
  BY Zenon, <1>1, <1>3 DEF SendAll
<1> QED
  BY <1>2, <1>3

\* the steps of the master
LEMMA MasterTyped ==
  ASSUME RunTypeOK,
         \/ Exec \/ notify_barrier \/ manage_master_services \/ MasterEnds \/ MasterSignal
         \/ \E n \in Nodes : RecvExit(n) \/ RecvOutput(n)
  PROVE  RunTypeOK'
<1>s. "wait" \in SlavePcs /\ "START" \in Msgs /\ "KILL" \in Msgs
  BY DEF SlavePcs, Msgs
<1>1. CASE Exec
  <2>1. spc' = spc \/ spc' = Set(spc, node, "wait")
    BY Zenon, <1>1 DEF Exec
  <2>2. spc' \in [Nodes -> SlavePcs]
    <3>1. spc \in [Nodes -> SlavePcs]
      BY Zenon DEF RunTypeOK
    <3>2. Set(spc, node, "wait") \in [Nodes -> SlavePcs]
      BY Zenon, <1>s, <3>1, SetTyped
    <3> QED
      BY Zenon, <2>1, <3>1, <3>2
  <2> QED
    BY Zenon, <1>1, <2>2 DEF Exec, RunTypeOK
<1>2. CASE notify_barrier
  <2>1. toSlave' \in [Nodes -> Seq(Msgs)]
    BY Zenon, <1>2, <1>s, SendTyped DEF notify_barrier
  <2> QED
    BY Zenon, <1>2, <2>1 DEF notify_barrier, RunTypeOK, slaves
<1>3. CASE manage_master_services \/ MasterEnds
  BY Zenon, <1>3 DEF manage_master_services, MasterEnds, RunTypeOK, slaves
<1>4. CASE MasterSignal
  <2>1. toSlave' = toSlave \/ SendAll("KILL")
    BY Zenon, <1>4 DEF MasterSignal
  <2>2. toSlave' \in [Nodes -> Seq(Msgs)]
    BY Zenon, <1>s, <2>1, SendTyped DEF RunTypeOK
  <2> QED
    BY Zenon, <1>4, <2>2 DEF MasterSignal, RunTypeOK, slaves
<1>5. ASSUME NEW n \in Nodes, RecvExit(n) \/ RecvOutput(n)
      PROVE  toMaster' \in [Nodes -> Seq(Words)] /\ Head(toMaster[n]) \in Words
  <2>1. toMaster[n] \in Seq(Words) /\ toMaster[n] # << >> /\ toMaster \in [Nodes -> Seq(Words)]
    BY Zenon, <1>5 DEF RecvExit, RecvOutput, RunTypeOK
  <2>2. Tail(toMaster[n]) \in Seq(Words) /\ Head(toMaster[n]) \in Words
    BY <2>1
  <2>3. toMaster' = [toMaster EXCEPT ![n] = Tail(toMaster[n])]
    BY Zenon, <1>5 DEF RecvExit, RecvOutput
  <2> QED
    BY Zenon, <2>1, <2>2, <2>3, SetTyped
<1>6. ASSUME NEW n \in Nodes, RecvExit(n) PROVE RunTypeOK'
  <2>1. toSlave' \in [Nodes -> Seq(Msgs)]
    <3>1. toSlave' = toSlave \/ SendAll("KILL")
      BY Zenon, <1>6 DEF RecvExit
    <3> QED
      BY Zenon, <1>s, <3>1, SendTyped DEF RunTypeOK
  <2>2. reports' \in Seq(Statuses)
    <3>1. Head(toMaster[n]) \in Statuses
      BY Zenon, <1>5, <1>6 DEF RecvExit, Words
    <3>2. reports \in Seq(Statuses) /\ reports' = Append(reports, Head(toMaster[n]))
      BY Zenon, <1>6 DEF RunTypeOK, RecvExit
    <3> QED
      BY <3>1, <3>2
  <2> QED
    BY Zenon, <1>5, <1>6, <2>1, <2>2 DEF RecvExit, RunTypeOK, slaves
<1>7. ASSUME NEW n \in Nodes, RecvOutput(n) PROVE RunTypeOK'
  <2>1. emitted' \in [Nodes -> Nat]
    BY Zenon, <1>7, PipeTyped DEF RecvOutput
  <2> QED
    BY Zenon, <1>5, <1>7, <2>1 DEF RecvOutput, RunTypeOK, slaves
<1> QED
  BY Zenon, <1>1, <1>2, <1>3, <1>4, <1>6, <1>7

\* every step keeps the types
LEMMA RunTypeStep ==
  ASSUME RunTypeOK, Next
  PROVE  RunTypeOK'
BY Zenon, LifeTyped, TrafficTyped, MasterTyped DEF Next, MasterStep, SlaveStep
-----------------------------------------------------------------------------
(* Slaves and their applications *)

\* a step of node n leaves the other nodes alone
LEMMA OneNode ==
  ASSUME NEW C, Sound(C), NEW n \in Nodes, Only(n), NodeInv(C, n)', ExecInv(C)'
  PROVE  Sound(C)'
<1>1. ASSUME NEW m \in Nodes \ {n} PROVE NodeInv(C, m)'
  <2>1. NodeInv(C, m)
    BY Zenon DEF Sound
  <2>2. /\ spc'[m] = spc[m] /\ child'[m] = child[m] /\ toMaster'[m] = toMaster[m]
        /\ pipe'[m] = pipe[m] /\ written'[m] = written[m] /\ emitted'[m] = emitted[m]
        /\ (m \notin hit' => m \notin hit) /\ setup' = setup
    BY Zenon DEF Only
  <2>3. SlaveInv(C, m)'
    BY Zenon, <2>1, <2>2 DEF NodeInv, SlaveInv, Over
  <2>4. OutputInv(m)'
    BY Zenon, <2>1, <2>2 DEF NodeInv, OutputInv, services
  <2> QED
    BY Zenon, <2>3, <2>4 DEF NodeInv
<1> QED
  BY Zenon, <1>1 DEF Sound

\* before the slaves are told to go on nothing of theirs has happened
LEMMA NotExec ==
  ASSUME NEW C, Sound(C), NEW n \in Nodes, mpc' = mpc,
         spc[n] \notin {"none", "wait", "gone"} \/ child[n] # "none"
  PROVE  ExecInv(C)'
BY DEF Sound, ExecInv

\* wait_on_barrier forks the application only for a CMD_START of this run
LEMMA WaitKeeps ==
  ASSUME RunTypeOK, NEW C, Sound(C), NEW n \in Nodes, wait_on_barrier(n)
  PROVE  Sound(C)'
<1>1. NodeInv(C, n) /\ spc[n] = "wait" /\ child[n] = "none"
  BY DEF Sound, NodeInv, SlaveInv, wait_on_barrier
<1>2. /\ spc \in [Nodes -> SlavePcs] /\ child \in [Nodes -> Lives]
      /\ toSlave \in [Nodes -> Seq(Msgs)] /\ toSlave[n] \in Seq(Msgs) /\ toSlave[n] # << >>
  BY Zenon DEF RunTypeOK, wait_on_barrier
<1>3. /\ UNCHANGED <<setup, mpc, toMaster, pipe, written, emitted, hit>>
      /\ toSlave' = [toSlave EXCEPT ![n] = Tail(@)]
      /\ \/ spc' = spc /\ child' = child
         \/ /\ Head(toSlave[n]) = "START"
            /\ spc' = [spc EXCEPT ![n] = "fork"] /\ child' = [child EXCEPT ![n] = "forked"]
         \/ /\ Head(toSlave[n]) = "START"
            /\ spc' = [spc EXCEPT ![n] = "report"] /\ child' = child
  BY Zenon DEF wait_on_barrier, master, Set
<1>4. Only(n)
  BY <1>2, <1>3 DEF Only
<1>5. \/ spc'[n] = "wait" /\ child'[n] = "none"
      \/ spc'[n] = "fork" /\ child'[n] = "forked"
      \/ spc'[n] = "report" /\ child'[n] = "none"
  BY <1>1, <1>2, <1>3
<1>6. NodeInv(C, n)'
  BY <1>1, <1>3, <1>5 DEF NodeInv, SlaveInv, OutputInv, Over, services
<1>7. ExecInv(C)'
  <2> SUFFICES ASSUME mpc = "exec" PROVE ExecInv(C)'
    BY <1>3 DEF ExecInv
  <2>1. ExecInv(C) /\ NoStart(toSlave[n])
    BY Zenon DEF Sound, ExecInv
  <2>2. Head(toSlave[n]) # "START" /\ NoStart(Tail(toSlave[n]))
    BY Zenon, <1>2, <2>1, NoStartTail
  <2>3. spc' = spc /\ child' = child
    BY Zenon, <1>3, <2>2
  <2>4. \A m \in Nodes : toSlave'[m] = toSlave[m] \/ toSlave'[m] = Tail(toSlave[n])
    BY <1>2, <1>3
  <2>5. \A m \in Nodes : NoStart(toSlave'[m])
    BY Zenon, <2>1, <2>2, <2>4 DEF ExecInv
  <2> QED
    BY Zenon, <1>3, <2>1, <2>3, <2>5 DEF ExecInv
<1> QED
  BY Zenon, <1>4, <1>6, <1>7, OneNode

\* the application runs when the threads of its slave do
LEMMA StartThreadsKeeps ==
  ASSUME RunTypeOK, NEW C, Sound(C), NEW n \in Nodes, StartThreads(n)
  PROVE  Sound(C)'
<1>1. NodeInv(C, n) /\ spc[n] = "fork" /\ ExecInv(C)'
  BY NotExec DEF Sound, StartThreads, master
<1>2. /\ Only(n) /\ spc'[n] = "up" /\ child'[n] = "running"
      /\ UNCHANGED <<setup, toMaster, pipe, written, emitted, hit>>
  BY DEF RunTypeOK, StartThreads, master, Set, Only
<1>3. NodeInv(C, n)'
  BY <1>1, <1>2 DEF NodeInv, SlaveInv, OutputInv, Over, services
<1> QED
  BY Zenon, <1>1, <1>2, <1>3, OneNode

\* what the application writes is in the pipe
LEMMA ChildWritesKeeps ==
  ASSUME RunTypeOK, NEW C, Sound(C), NEW n \in Nodes, ChildWrites(n)
  PROVE  Sound(C)'
<1>1. NodeInv(C, n) /\ child[n] = "running" /\ "redirect" \in services /\ ExecInv(C)'
  BY NotExec DEF Sound, ChildWrites, master
<1>2. /\ Only(n) /\ pipe'[n] = pipe[n] + 1 /\ written'[n] = written[n] + 1
      /\ UNCHANGED <<setup, spc, child, toMaster, emitted, hit>>
  BY DEF RunTypeOK, ChildWrites, master, Only
<1>3. SlaveInv(C, n)'
  BY Zenon, <1>1, <1>2 DEF NodeInv, SlaveInv, Over
<1>4. pipe[n] \in Nat /\ emitted[n] \in Nat /\ written[n] \in Nat /\ toMaster[n] \in Seq(Words)
  BY Zenon DEF RunTypeOK
<1>5. Outputs(toMaster[n]) \in Int /\ spc[n] \in {"up", "drain"}
  BY <1>1, <1>4 DEF Outputs, NodeInv, SlaveInv, Over, RunTypeOK, SlavePcs
<1>6. OutputInv(n)'
  <2> SUFFICES ASSUME n \notin hit
               PROVE  written'[n] = emitted'[n] + pipe'[n] + Outputs(toMaster'[n])
    BY <1>1, <1>2, <1>5 DEF OutputInv, services
  <2>1. written[n] = emitted[n] + pipe[n] + Outputs(toMaster[n])
    BY Zenon, <1>1 DEF NodeInv, OutputInv
  <2>2. /\ written'[n] = written[n] + 1 /\ emitted'[n] = emitted[n] /\ pipe'[n] = pipe[n] + 1
        /\ Outputs(toMaster'[n]) = Outputs(toMaster[n])
    BY Zenon, <1>2
  <2>3. pipe[n] \in Nat /\ emitted[n] \in Nat /\ Outputs(toMaster[n]) \in Int
    BY Zenon, <1>4, <1>5
  <2> QED
    BY <2>1, <2>2, <2>3
<1> QED
  BY Zenon, <1>1, <1>2, <1>3, <1>6, OneNode DEF NodeInv

\* an application that ends is dead
LEMMA ChildEndsKeeps ==
  ASSUME RunTypeOK, NEW C, Sound(C), NEW n \in Nodes, ChildEnds(n)
  PROVE  Sound(C)'
<1>1. NodeInv(C, n) /\ child[n] = "running" /\ ExecInv(C)'
  BY NotExec DEF Sound, ChildEnds, master
<1>2. child' = [child EXCEPT ![n] = "dead"]
  BY Zenon, StatusTyped, EndTyped DEF ChildEnds
<1>3. /\ Only(n) /\ child'[n] = "dead"
      /\ UNCHANGED <<setup, spc, toMaster, pipe, written, emitted, hit>>
  BY <1>2 DEF RunTypeOK, ChildEnds, master, Only
<1>4. NodeInv(C, n)'
  BY <1>1, <1>3 DEF NodeInv, SlaveInv, OutputInv, Over, services
<1> QED
  BY Zenon, <1>1, <1>3, <1>4, OneNode

\* send_thread and the loop after the end of the application send what is in
\* the pipe, before the report
LEMMA OutputSent ==
  ASSUME RunTypeOK, NEW C, Sound(C), NEW n \in Nodes, spc[n] \in {"up", "drain"}, pipe[n] > 0,
         pipe' = [pipe EXCEPT ![n] = @ - 1], Report(n, Output),
         UNCHANGED <<setup, mpc, spc, child, written, emitted, hit>>
  PROVE  Sound(C)'
<1>1. /\ NodeInv(C, n) /\ ExecInv(C)'
  BY NotExec DEF Sound
<1>2. AllOutput(toMaster[n]) /\ n \notin C
  BY <1>1 DEF NodeInv, SlaveInv
<1>3. pipe[n] \in Nat /\ emitted[n] \in Nat /\ written[n] \in Nat /\ toMaster[n] \in Seq(Words)
  BY Zenon DEF RunTypeOK
<1>4. /\ Only(n) /\ pipe'[n] = pipe[n] - 1 /\ toMaster'[n] = Append(toMaster[n], Output)
  BY DEF RunTypeOK, Only, Report
<1>5. /\ FrontOutput(toMaster'[n]) /\ AllOutput(toMaster'[n])
      /\ Outputs(toMaster'[n]) = Outputs(toMaster[n]) + 1
  BY Zenon, <1>2, <1>3, <1>4, SentLast DEF Words
<1>6. SlaveInv(C, n)'
  BY <1>1, <1>2, <1>5 DEF NodeInv, SlaveInv, Over
<1>7. OutputInv(n)'
  <2> SUFFICES ASSUME n \notin hit
               PROVE  /\ written'[n] = emitted'[n] + pipe'[n] + Outputs(toMaster'[n])
                      /\ "redirect" \in services
    BY DEF OutputInv, services
  <2>1. /\ written[n] = emitted[n] + pipe[n] + Outputs(toMaster[n])
        /\ "redirect" \notin services => pipe[n] = 0
    BY Zenon, <1>1 DEF NodeInv, OutputInv
  <2>2. Outputs(toMaster[n]) \in Int
    BY <1>3 DEF Outputs
  <2>3. /\ written'[n] = written[n] /\ emitted'[n] = emitted[n] /\ pipe'[n] = pipe[n] - 1
        /\ Outputs(toMaster'[n]) = Outputs(toMaster[n]) + 1
    BY Zenon, <1>4, <1>5
  <2>4. "redirect" \in services
    BY <2>1
  <2>5. pipe[n] \in Int /\ emitted[n] \in Int
    BY <1>3
  <2>6. emitted[n] + pipe[n] + Outputs(toMaster[n])
          = emitted[n] + (pipe[n] - 1) + (Outputs(toMaster[n]) + 1)
    BY <2>2, <2>5
  <2> QED
    BY Zenon, <2>1, <2>3, <2>4, <2>6
<1> QED
  BY Zenon, <1>1, <1>4, <1>6, <1>7, OneNode DEF NodeInv

\* send_thread while the application is served, and what is left afterwards
LEMMA SendersKeep ==
  ASSUME RunTypeOK, NEW C, Sound(C), NEW n \in Nodes, send_thread(n) \/ Drain(n)
  PROVE  Sound(C)'
<1>1. CASE send_thread(n)
  BY Zenon, <1>1, OutputSent DEF send_thread, master
<1>2. CASE Drain(n) /\ pipe[n] > 0
  BY <1>2, OutputSent DEF Drain, master
<1>3. CASE Drain(n) /\ ~ (pipe[n] > 0)
  <2>1. NodeInv(C, n) /\ spc[n] = "drain"
    BY Zenon, <1>3 DEF Sound, Drain
  <2>2. pipe[n] = 0
    BY <1>3 DEF RunTypeOK
  <2>3. ExecInv(C)'
    BY Zenon, <1>3, <2>1, NotExec DEF Drain, master
  <2>4. /\ Only(n) /\ spc'[n] = "report"
        /\ UNCHANGED <<setup, child, toMaster, pipe, written, emitted, hit>>
    BY <1>3 DEF RunTypeOK, Drain, master, Set, Only
  <2>5. NodeInv(C, n)'
    BY <2>1, <2>4, <2>2 DEF NodeInv, SlaveInv, OutputInv, Over, services
  <2> QED
    BY Zenon, <2>4, <2>5, <2>3, OneNode
<1> QED
  BY Zenon, <1>1, <1>2, <1>3

\* CMD_KILL may end the application
LEMMA RecvThreadKeeps ==
  ASSUME RunTypeOK, NEW C, Sound(C), NEW n \in Nodes, recv_thread(n)
  PROVE  Sound(C)'
<1>1. NodeInv(C, n) /\ spc[n] = "up" /\ ExecInv(C)'
  BY NotExec DEF Sound, recv_thread, master
<1>2. child' = child \/ Killed(n, termmode)
  BY Zenon DEF recv_thread
<1>3. child' = child \/ child' = [child EXCEPT ![n] = "dead"]
  BY Zenon, <1>2, StatusTyped, KilledTyped
<1>4. /\ Only(n) /\ child'[n] \in {child[n], "dead"}
      /\ UNCHANGED <<setup, spc, toMaster, pipe, written, emitted, hit>>
  BY <1>3 DEF RunTypeOK, recv_thread, master, Only
<1>5. NodeInv(C, n)'
  BY <1>1, <1>4 DEF NodeInv, SlaveInv, OutputInv, Over, services
<1> QED
  BY Zenon, <1>1, <1>4, <1>5, OneNode

\* waitpid returns when the application is dead; without the redirect service
\* nothing is in the pipe
LEMMA WaitpidKeeps ==
  ASSUME RunTypeOK, NEW C, Sound(C), NEW n \in Nodes, waitpid(n)
  PROVE  Sound(C)'
<1>1. NodeInv(C, n) /\ spc[n] = "up" /\ ExecInv(C)' /\ child[n] = "dead"
  BY NotExec DEF Sound, waitpid, master, NodeInv, SlaveInv
<1>2. /\ Only(n) /\ spc'[n] = IF "redirect" \in services THEN "drain" ELSE "report"
      /\ UNCHANGED <<setup, child, toMaster, pipe, written, emitted, hit>>
  BY DEF RunTypeOK, waitpid, master, Set, Only
<1>3. NodeInv(C, n)'
  BY <1>1, <1>2 DEF NodeInv, SlaveInv, OutputInv, Over, services
<1> QED
  BY Zenon, <1>1, <1>2, <1>3, OneNode

\* the report is the last message
LEMMA SendExitKeeps ==
  ASSUME RunTypeOK, NEW C, Sound(C), NEW n \in Nodes, SendExit(n)
  PROVE  Sound(C)'
<1>1. /\ NodeInv(C, n) /\ ExecInv(C)' /\ spc[n] = "report"
  BY NotExec DEF Sound, SendExit, master
<1>2. AllOutput(toMaster[n]) /\ n \notin C /\ Over(n)
  BY <1>1 DEF NodeInv, SlaveInv
<1>3. toMaster[n] \in Seq(Words) /\ status[n] \in Words /\ status[n] # Output
  <2>1. toMaster[n] \in Seq(Words) /\ status[n] \in Statuses
    BY Zenon DEF RunTypeOK
  <2> QED
    BY Zenon, <2>1, StatusTyped DEF Words
<1>4. /\ Only(n) /\ spc'[n] = "sent" /\ toMaster'[n] = Append(toMaster[n], status[n])
      /\ UNCHANGED <<setup, child, pipe, written, emitted, hit>>
  BY DEF RunTypeOK, SendExit, Only, Report, Set, master
<1>5. /\ FrontOutput(toMaster'[n]) /\ Outputs(toMaster'[n]) = Outputs(toMaster[n])
  BY Zenon, <1>2, <1>3, <1>4, SentLast
<1>6. NodeInv(C, n)'
  BY <1>1, <1>2, <1>4, <1>5 DEF NodeInv, SlaveInv, OutputInv, Over, services
<1> QED
  BY Zenon, <1>1, <1>4, <1>6, OneNode

\* a slave that has reported ends
LEMMA SlaveEndsKeeps ==
  ASSUME RunTypeOK, NEW C, Sound(C), NEW n \in Nodes, SlaveEnds(n)
  PROVE  Sound(C)'
<1>1. NodeInv(C, n) /\ spc[n] = "sent" /\ ExecInv(C)'
  BY NotExec DEF Sound, SlaveEnds, master
<1>2. /\ Only(n) /\ spc'[n] = "gone"
      /\ UNCHANGED <<setup, child, toMaster, pipe, written, emitted, hit>>
  BY DEF RunTypeOK, SlaveEnds, master, Set, Only
<1>3. NodeInv(C, n)'
  BY <1>1, <1>2 DEF NodeInv, SlaveInv, OutputInv, Over, services
<1> QED
  BY Zenon, <1>1, <1>2, <1>3, OneNode

\* a signal without handler ends the slave, which was before its first message
\* of output or had nothing left in the pipe
LEMMA SlaveKilledKeeps ==
  ASSUME RunTypeOK, NEW C, Sound(C), NEW n \in Nodes, SlaveKilled(n)
  PROVE  Sound(C)'
<1>1. /\ NodeInv(C, n) /\ ExecInv(C)
      /\ spc[n] \in {"wait", "fork"} \/ (spc[n] \in {"report", "sent"} /\ child[n] = "none")
  BY Zenon DEF Sound, SlaveKilled
<1>2. /\ spc' = [spc EXCEPT ![n] = "gone"] /\ hit' = hit \cup {n}
      /\ UNCHANGED <<setup, mpc, toSlave, toMaster, child, pipe, written, emitted>>
  BY Zenon DEF SlaveKilled, master, Set
<1>3. /\ Only(n) /\ spc'[n] = "gone" /\ n \in hit' /\ \A m \in Nodes : spc'[m] \in {spc[m], "gone"}
  BY <1>2 DEF RunTypeOK, Only
<1>4. SlaveInv(C, n)'
  BY <1>1, <1>2, <1>3 DEF NodeInv, SlaveInv, Over
<1>5. NodeInv(C, n)'
  BY Zenon, <1>3, <1>4 DEF NodeInv, OutputInv
<1>6. ExecInv(C)'
  BY <1>1, <1>2, <1>3 DEF ExecInv
<1> QED
  BY Zenon, <1>3, <1>5, <1>6, OneNode

\* the handler of a slave that has not reported ends the application and
\* reports the signal
LEMMA SlaveSignalKeeps ==
  ASSUME RunTypeOK, NEW C, Sound(C), NEW n \in Nodes, SlaveSignal(n), spc[n] # "sent"
  PROVE  Sound(C)'
<1>1. /\ NodeInv(C, n) /\ ExecInv(C)'
      /\ spc[n] \in {"up", "drain", "report"} /\ child[n] # "none"
  BY NotExec DEF Sound, SlaveSignal, master
<1>2. AllOutput(toMaster[n]) /\ n \notin C /\ child[n] \in {"running", "dead"}
  BY <1>1 DEF NodeInv, SlaveInv, Over
<1>3. child' = child \/ child' = [child EXCEPT ![n] = "dead"]
  BY Zenon, StatusTyped, KilledTyped DEF SlaveSignal
<1>4. child'[n] = "dead"
  BY <1>2, <1>3 DEF RunTypeOK, SlaveSignal, Killed, Dies, Set
<1>5. /\ spc' = [spc EXCEPT ![n] = "gone"] /\ hit' = hit \cup {n}
      /\ toMaster' = [toMaster EXCEPT ![n] = Append(@, 15)]
      /\ UNCHANGED <<setup, mpc, pipe, written, emitted>>
  BY Zenon DEF SlaveSignal, master, Set, Report
<1>6. /\ Only(n) /\ spc'[n] = "gone" /\ n \in hit' /\ toMaster'[n] = Append(toMaster[n], 15)
  <2>1. /\ spc'[n] = "gone" /\ toMaster'[n] = Append(toMaster[n], 15)
        /\ \A m \in Nodes \ {n} : spc'[m] = spc[m] /\ toMaster'[m] = toMaster[m]
    BY <1>5 DEF RunTypeOK
  <2>2. \A m \in Nodes \ {n} : child'[m] = child[m]
    <3>1. child \in [Nodes -> Lives]
      BY Zenon DEF RunTypeOK
    <3> QED
      BY <1>3, <3>1
  <2> QED
    BY Zenon, <1>5, <2>1, <2>2 DEF Only
<1>7. toMaster[n] \in Seq(Words) /\ 15 \in Words
  BY Zenon, StatusTyped DEF RunTypeOK, Words
<1>8. FrontOutput(toMaster'[n])
  BY Zenon, <1>2, <1>6, <1>7, SentLast
<1>9. NodeInv(C, n)'
  BY <1>2, <1>4, <1>6, <1>8 DEF NodeInv, SlaveInv, OutputInv, Over
<1> QED
  BY Zenon, <1>1, <1>6, <1>9, OneNode
-----------------------------------------------------------------------------
(* The master *)

\* a step that leaves every slave alone, and the queues to the master
LEMMA NoNode ==
  ASSUME NEW C, Sound(C), ExecInv(C)',
         UNCHANGED <<setup, spc, child, toMaster, pipe, written, emitted, hit>>
  PROVE  Sound(C)'
BY DEF Sound, NodeInv, SlaveInv, OutputInv, Over, services

\* axinit_execvpe of start; every slave it starts waits
LEMMA ExecKeeps ==
  ASSUME RunTypeOK, NEW C, Sound(C), Exec
  PROVE  Sound(C)'
<1>1. /\ mpc = "exec" /\ C = {}
      /\ UNCHANGED <<setup, toSlave, toMaster, child, pipe, written, emitted, hit>>
      /\ spc' = [spc EXCEPT ![node] = "wait"] \/ spc' = spc
  BY DEF Sound, ExecInv, Exec, Set
<1>2. \A m \in Nodes : spc'[m] \in {spc[m], "wait"}
  BY <1>1 DEF RunTypeOK
<1>3. \A m \in Nodes : /\ spc[m] \in {"none", "wait", "gone"} /\ child[m] = "none"
                       /\ toMaster[m] = << >> /\ NoStart(toSlave[m])
  BY Zenon, <1>1 DEF Sound, ExecInv
<1>4. ExecInv(C)'
  BY <1>1, <1>2, <1>3 DEF ExecInv
<1>5. ASSUME NEW m \in Nodes PROVE NodeInv(C, m)'
  <2>1. NodeInv(C, m) /\ spc'[m] \in {"none", "wait", "gone"} /\ spc[m] \in {"none", "wait", "gone"}
    BY <1>2, <1>3 DEF Sound
  <2> QED
    BY <1>1, <1>3, <2>1, EmptyQueue DEF NodeInv, SlaveInv, OutputInv, Over, services
<1> QED
  BY Zenon, <1>4, <1>5 DEF Sound

\* CMD_START is sent when no more slaves are started
LEMMA NotifyKeeps ==
  ASSUME NEW C, Sound(C), notify_barrier
  PROVE  Sound(C)'
<1>1. /\ mpc' # "exec"
      /\ UNCHANGED <<setup, spc, child, toMaster, pipe, written, emitted, hit>>
  BY DEF notify_barrier, NextNode, slaves
<1> QED
  BY Zenon, <1>1, NoNode DEF ExecInv

\* the other steps of the master that take no message
LEMMA MasterMovesKeep ==
  ASSUME NEW C, Sound(C), manage_master_services \/ MasterEnds \/ MasterSignal
  PROVE  Sound(C)'
<1>1. /\ mpc' # "exec"
      /\ UNCHANGED <<setup, spc, child, toMaster, pipe, written, emitted, hit>>
  BY DEF manage_master_services, MasterEnds, MasterSignal, slaves
<1> QED
  BY Zenon, <1>1, NoNode DEF ExecInv

\* output is printed
LEMMA RecvOutputKeeps ==
  ASSUME RunTypeOK, NEW C, Sound(C), NEW n \in Nodes, RecvOutput(n)
  PROVE  Sound(C)'
<1>1. /\ NodeInv(C, n) /\ mpc = "run" /\ mpc' = mpc
      /\ toMaster[n] # << >> /\ Head(toMaster[n]) = Output
  BY Zenon DEF Sound, RecvOutput
<1>2. /\ toMaster' = [toMaster EXCEPT ![n] = Tail(@)] /\ emitted' = [emitted EXCEPT ![n] = @ + 1]
      /\ UNCHANGED <<setup, spc, child, pipe, written, hit>>
  BY Zenon DEF RecvOutput, slaves
<1>3. /\ Only(n) /\ toMaster'[n] = Tail(toMaster[n]) /\ emitted'[n] = emitted[n] + 1
  BY <1>1, <1>2 DEF RunTypeOK, Only
<1>4. /\ toMaster[n] \in Seq(Words) /\ FrontOutput(toMaster[n])
      /\ pipe[n] \in Nat /\ emitted[n] \in Nat /\ written[n] \in Nat
  BY Zenon, <1>1 DEF RunTypeOK, NodeInv, SlaveInv
<1>5. /\ FrontOutput(toMaster'[n])
      /\ AllOutput(toMaster'[n]) <=> AllOutput(toMaster[n])
  BY <1>1, <1>3, <1>4, TakenFirst
<1>6. Outputs(toMaster'[n]) = Outputs(toMaster[n]) - 1 /\ n \notin C
  BY Zenon, <1>1, <1>3, <1>4, TakenFirst DEF NodeInv, SlaveInv
<1>7. SlaveInv(C, n)'
  BY <1>1, <1>2, <1>5, <1>6 DEF NodeInv, SlaveInv, Over
<1>8. OutputInv(n)'
  <2> SUFFICES ASSUME n \notin hit
               PROVE  written'[n] = emitted'[n] + pipe'[n] + Outputs(toMaster'[n])
    BY Zenon, <1>1, <1>2 DEF NodeInv, OutputInv, services
  <2>1. written[n] = emitted[n] + pipe[n] + Outputs(toMaster[n])
    BY Zenon, <1>1 DEF NodeInv, OutputInv
  <2>2. Outputs(toMaster[n]) \in Int /\ emitted[n] \in Int /\ pipe[n] \in Int
    BY <1>4 DEF Outputs
  <2>3. /\ written'[n] = written[n] /\ emitted'[n] = emitted[n] + 1 /\ pipe'[n] = pipe[n]
        /\ Outputs(toMaster'[n]) = Outputs(toMaster[n]) - 1
    BY Zenon, <1>2, <1>3, <1>6
  <2>4. emitted[n] + pipe[n] + Outputs(toMaster[n])
          = (emitted[n] + 1) + pipe[n] + (Outputs(toMaster[n]) - 1)
    BY <2>2
  <2> QED
    BY Zenon, <2>1, <2>3, <2>4
<1> QED
  BY Zenon, <1>1, <1>3, <1>7, <1>8, OneNode DEF NodeInv, ExecInv

\* the master counts the report of a node once: it is the last message of the
\* node, whose application is over
LEMMA RecvExitKeeps ==
  ASSUME RunTypeOK, NEW C, Sound(C), NEW n \in Nodes, RecvExit(n)
  PROVE  n \notin C /\ Sound(C \cup {n})'
<1>1. /\ NodeInv(C, n) /\ mpc = "run" /\ mpc' = mpc
      /\ toMaster[n] # << >> /\ Head(toMaster[n]) # Output
  BY Zenon DEF Sound, RecvExit
<1>2. /\ toMaster' = [toMaster EXCEPT ![n] = Tail(@)]
      /\ UNCHANGED <<setup, spc, child, pipe, written, emitted, hit>>
  BY Zenon DEF RecvExit, slaves
<1>3. /\ \A m \in Nodes \ {n} : toMaster'[m] = toMaster[m]
      /\ toMaster'[n] = Tail(toMaster[n]) /\ toMaster[n] \in Seq(Words)
  BY <1>2 DEF RunTypeOK
<1>4. n \notin C /\ FrontOutput(toMaster[n])
  BY Zenon, <1>1 DEF NodeInv, SlaveInv
<1>5. toMaster'[n] = << >> /\ ~AllOutput(toMaster[n]) /\ Outputs(toMaster[n]) = 0
  BY Zenon, <1>1, <1>3, <1>4, TakenFirst
<1>6. NodeInv(C \cup {n}, n)'
  BY Zenon, <1>1, <1>2, <1>5, EmptyQueue DEF NodeInv, SlaveInv, OutputInv, Over, services
<1>7. ASSUME NEW m \in Nodes, m # n PROVE NodeInv(C \cup {n}, m)'
  <2>1. NodeInv(C, m) /\ toMaster'[m] = toMaster[m]
    BY <1>3, <1>7 DEF Sound
  <2> QED
    BY <1>2, <1>7, <2>1 DEF NodeInv, SlaveInv, OutputInv, Over, services
<1> QED
  BY Zenon, <1>1, <1>4, <1>6, <1>7 DEF Sound, ExecInv
-----------------------------------------------------------------------------
(***************************************************************************)
(* What they preserve about the exit status and about the messages to the  *)
(* slaves: which reports the status of the master stands for, when an      *)
(* application may start and when CMD_KILL may end it.                     *)
(***************************************************************************)

\* under the exit service the status is the one promised for the reports so
\* far; EXIT_SERVICE is dropped with the first of them
ExitInv ==
  /\ exit_counter \in Int /\ Len(reports) + exit_counter = Cardinality(Nodes)
  /\ mpc = "done" => exit_counter = 0
  /\ exitOn <=> "exit" \in services /\ reports = << >>
  /\ "exit" \in services /\ reports # << >> => Promised(setup.mode, reports, exit_status)

\* the loop of start has got to node, and no CMD_START is sent: the slaves
\* that have been started wait for it
Starting ==
  /\ mpc \in {"exec", "killed"}
  /\ \A n \in Nodes : /\ child[n] = "none" /\ NoStart(toSlave[n])
                      /\ spc[n] \in {"none", "wait", "gone"}
  /\ mpc = "exec" => node \in Nodes /\ \A m \in Nodes : m < node => spc[m] # "none"

StartInv ==
  /\ faults \in Nat
  /\ faults > 0 \/ (\A m \in Nodes : spc[m] # "none") \/ Starting

\* the master of this run has sent CMD_KILL
KillSent ==
  \/ mpc = "exited" /\ "kill" \in services
  \/ "exit" \in services /\ reports # << >>

NoKill(s) == \A k \in 1 .. Len(s) : s[k] # "KILL"
NoKillAfterStart(s) ==
  \A j, k \in 1 .. Len(s) : j < k /\ s[j] = "START" => s[k] # "KILL"

\* no CMD_KILL comes behind the CMD_START of node n
Unkilled(n) ==
  /\ ~ my_sigterm[n] /\ NoKillAfterStart(toSlave[n])
  /\ spc[n] \in {"fork", "up"} => NoKill(toSlave[n])

KillInv == KillSent \/ \A n \in Nodes : Unkilled(n)
-----------------------------------------------------------------------------
(* The exit status *)

\* the order of exit codes is that of the statuses
LEMMA CodesOrdered ==
  ASSUME NEW a \in Statuses, NEW b \in Statuses, WIFEXITED(a), WIFEXITED(b)
  PROVE  /\ a \in Nat /\ b \in Nat
         /\ WEXITSTATUS(a) < WEXITSTATUS(b) <=> a < b
         /\ WEXITSTATUS(b) < WEXITSTATUS(a) <=> b < a
<1>1. a \in Nat /\ b \in Nat /\ a % 256 = 0 /\ b % 256 = 0
  BY DEF Statuses
<1> QED
  BY <1>1 DEF WEXITSTATUS

\* Merged, when neither status is that of a signal
LEMMA MergedCodes ==
  ASSUME NEW a \in Statuses, NEW b \in Statuses, WIFEXITED(a), WIFEXITED(b), NEW mode
  PROVE  Merged(a, b, mode) =
           IF \/ mode = "LAST"
              \/ mode = "GREATHER" /\ b > a
              \/ mode = "LESSER" /\ b < a
           THEN b ELSE a
<1>1. /\ WEXITSTATUS(b) > WEXITSTATUS(a) <=> b > a
      /\ WEXITSTATUS(b) < WEXITSTATUS(a) <=> b < a
  BY CodesOrdered DEF WEXITSTATUS, Statuses
<1> QED
  BY <1>1 DEF Merged

\* the first report is taken as it is
LEMMA FirstRight ==
  ASSUME NEW mode \in ExitModes, NEW st \in Statuses
  PROVE  Promised(mode, Append(<< >>, st), IF mode = "NOFAIL" THEN 0 ELSE st)
<1> DEFINE sts == Append(<< >>, st)
<1>1. Len(sts) = 1 /\ sts[1] = st /\ st \in Nat
  BY DEF Statuses
<1> HIDE DEF sts
<1>2. 1 .. Len(sts) = {1}
  BY <1>1
<1>3. Promised(mode, sts, IF mode = "NOFAIL" THEN 0 ELSE st)
  BY <1>1, <1>2 DEF Promised, ExitModes
<1> QED
  BY <1>3 DEF sts

\* and every later one is merged into what is promised for the earlier ones
LEMMA MergedRight ==
  ASSUME NEW mode \in ExitModes, NEW sts \in Seq(Statuses), sts # << >>, NEW st \in Statuses,
         NEW old, Promised(mode, sts, old)
  PROVE  Promised(mode, Append(sts, st),
                  IF mode = "NOFAIL" THEN 0 ELSE Merged(old, st, mode))
<1> DEFINE all == Append(sts, st)
           last == Len(sts) + 1
           caught(s) == {k \in 1 .. Len(s) : ~ WIFEXITED(s[k])}
           merged == Merged(old, st, mode)
<1>1. /\ Len(sts) \in Nat /\ Len(sts) >= 1 /\ last \in Nat
      /\ Len(all) = last /\ all[last] = st /\ all[1] = sts[1]
      /\ \A k \in 1 .. Len(sts) : all[k] = sts[k] /\ sts[k] \in Statuses /\ k < last
      /\ \A k \in 1 .. last : k = last \/ k \in 1 .. Len(sts)
      /\ \A k \in 1 .. Len(sts) : k \in 1 .. last
      /\ 1 \in 1 .. Len(sts) /\ last \in 1 .. last
  OBVIOUS
<1> HIDE DEF all, last
<1>2. CASE mode = "NOFAIL"
  BY <1>2 DEF Promised
<1>3. CASE mode = "FIRST_ABS"
  <2>1. old = sts[1] /\ merged = old
    BY <1>3 DEF Promised, Merged
  <2> QED
    BY <1>1, <1>3, <2>1 DEF Promised, all
<1>4. CASE mode \notin {"NOFAIL", "FIRST_ABS"} /\ caught(sts) # {}
  <2>1. PICK k \in caught(sts) : old = sts[k] /\ \A j \in caught(sts) : k <= j
    BY <1>4 DEF Promised
  <2>2. merged = old /\ k \in 1 .. Len(sts) /\ ~ WIFEXITED(sts[k])
    BY <2>1 DEF Merged
  <2>3. k \in caught(all) /\ merged = all[k]
    BY <1>1, <2>1, <2>2
  <2>4. ASSUME NEW j \in caught(all) PROVE k <= j
    BY <1>1, <2>1, <2>2
  <2> QED
    BY Zenon, <1>4, <2>3, <2>4 DEF Promised, all
<1>5. CASE mode \notin {"NOFAIL", "FIRST_ABS"} /\ caught(sts) = {} /\ ~ WIFEXITED(st)
  <2>1. PICK k \in 1 .. Len(sts) : old = sts[k]
    BY <1>1, <1>5 DEF Promised
  <2>2. merged = st
    BY <1>5, <2>1 DEF Merged
  <2>3. last \in caught(all) /\ \A j \in caught(all) : j = last
    BY <1>1, <1>5
  <2> QED
    <3>1. merged = all[last] /\ \A j \in caught(all) : last <= j
      BY <1>1, <2>2, <2>3
    <3> QED
      BY Zenon, <1>5, <2>3, <3>1 DEF Promised, all
<1>6. CASE mode \notin {"NOFAIL", "FIRST_ABS"} /\ caught(sts) = {} /\ WIFEXITED(st)
  <2>1. caught(all) = {}
    BY <1>1, <1>6
  <2>2. \A k \in 1 .. Len(sts) : WIFEXITED(sts[k]) /\ sts[k] \in Nat
    <3>1. \A k \in 1 .. Len(sts) : WIFEXITED(sts[k])
      BY <1>6
    <3> QED
      BY Zenon, <1>1, <3>1, StatusTyped
  <2>3. CASE mode = "FIRST"
    <3>1. old = sts[1]
      BY <1>6, <2>3 DEF Promised
    <3>2. merged = old
      BY <1>1, <1>6, <2>2, <2>3, <3>1, MergedCodes
    <3> QED
      BY Zenon, <1>1, <2>1, <2>3, <3>1, <3>2 DEF Promised, all
  <2>4. CASE mode = "LAST"
    <3>1. PICK k \in 1 .. Len(sts) : old = sts[k]
      BY <1>1, <1>6, <2>4 DEF Promised
    <3>2. merged = st
      <4>1. old \in Statuses /\ WIFEXITED(old)
        BY <1>1, <2>2, <3>1
      <4> QED
        BY <1>6, <2>4, <4>1, MergedCodes
    <3> QED
      BY <1>1, <2>1, <2>4, <3>2 DEF Promised, all
  <2>5. CASE mode = "GREATHER"
    <3>1. PICK k \in 1 .. Len(sts) : old = sts[k] /\ \A j \in 1 .. Len(sts) : sts[j] <= old
      BY <1>6, <2>5 DEF Promised
    <3>2. merged = (IF st > old THEN st ELSE old) /\ old \in Nat /\ st \in Nat
      <4>1. old \in Statuses /\ WIFEXITED(old)
        BY Zenon, <1>1, <2>2, <3>1
      <4> QED
        BY <1>6, <2>5, <4>1, MergedCodes, CodesOrdered
    <3>3. /\ merged = all[k] \/ merged = all[last]
          /\ \A j \in 1 .. last : all[j] <= merged
      <4>1. all[k] = old /\ all[last] = st
        BY <1>1, <3>1
      <4>2. ASSUME NEW j \in 1 .. last PROVE j = last \/ (all[j] = sts[j] /\ j \in 1 .. Len(sts))
        BY <1>1
      <4>3. \A j \in 1 .. Len(sts) : sts[j] \in Nat
        BY Zenon, <2>2
      <4>4. ASSUME NEW j \in 1 .. last PROVE all[j] <= merged
        BY <3>1, <3>2, <4>1, <4>2, <4>3
      <4> QED
        BY Zenon, <3>2, <4>1, <4>4
    <3> QED
      <4>1. k \in 1 .. Len(all) /\ last \in 1 .. Len(all) /\ 1 .. Len(all) = 1 .. last
        BY Zenon, <1>1
      <4> QED
        BY Zenon, <2>1, <2>5, <3>3, <4>1 DEF Promised, all
  <2>6. CASE mode = "LESSER"
    <3>1. PICK k \in 1 .. Len(sts) : old = sts[k] /\ \A j \in 1 .. Len(sts) : old <= sts[j]
      BY <1>6, <2>6 DEF Promised
    <3>2. merged = (IF st < old THEN st ELSE old) /\ old \in Nat /\ st \in Nat
      <4>1. old \in Statuses /\ WIFEXITED(old)
        BY Zenon, <1>1, <2>2, <3>1
      <4> QED
        BY <1>6, <2>6, <4>1, MergedCodes, CodesOrdered
    <3>3. /\ merged = all[k] \/ merged = all[last]
          /\ \A j \in 1 .. last : merged <= all[j]
      <4>1. all[k] = old /\ all[last] = st
        BY <1>1, <3>1
      <4>2. ASSUME NEW j \in 1 .. last PROVE j = last \/ (all[j] = sts[j] /\ j \in 1 .. Len(sts))
        BY <1>1
      <4>3. \A j \in 1 .. Len(sts) : sts[j] \in Nat
        BY Zenon, <2>2
      <4>4. ASSUME NEW j \in 1 .. last PROVE merged <= all[j]
        BY <3>1, <3>2, <4>1, <4>2, <4>3
      <4> QED
        BY Zenon, <3>2, <4>1, <4>4
    <3> QED
      <4>1. k \in 1 .. Len(all) /\ last \in 1 .. Len(all) /\ 1 .. Len(all) = 1 .. last
        BY Zenon, <1>1
      <4> QED
        BY Zenon, <2>1, <2>6, <3>3, <4>1 DEF Promised, all
  <2> QED
    BY <1>6, <2>3, <2>4, <2>5, <2>6 DEF ExitModes
<1> QED
  BY <1>2, <1>3, <1>4, <1>5, <1>6

\* what a report adds to the history
LEMMA ReportTyped ==
  ASSUME RunTypeOK, NEW n \in Nodes, RecvExit(n)
  PROVE  /\ Head(toMaster[n]) \in Statuses /\ reports' = Append(reports, Head(toMaster[n]))
         /\ reports \in Seq(Statuses) /\ Len(reports) \in Nat
         /\ Len(reports') = Len(reports) + 1 /\ reports' # << >>
<1>1. /\ toMaster[n] \in Seq(Words) /\ toMaster[n] # << >> /\ Head(toMaster[n]) # Output
      /\ reports' = Append(reports, Head(toMaster[n])) /\ reports \in Seq(Statuses)
  BY Zenon DEF RecvExit, RunTypeOK
<1>2. Head(toMaster[n]) \in Words
  BY <1>1
<1>3. Head(toMaster[n]) \in Statuses
  BY Zenon, <1>1, <1>2 DEF Words
<1> QED
  BY <1>1, <1>3

\* a report is merged into the exit status of the master
LEMMA ReportMerged ==
  ASSUME RunTypeOK, ExitInv, NEW n \in Nodes, RecvExit(n)
  PROVE  ExitInv'
<1> DEFINE st == Head(toMaster[n])
<1>1. /\ exitOn' = FALSE /\ reports' = Append(reports, st) /\ exit_counter' = exit_counter - 1
      /\ mpc' = "run" /\ setup' = setup /\ TakeStatus(st)
  BY Zenon DEF RecvExit
<1>2. st \in Statuses
  BY Zenon, ReportTyped
<1>3. reports \in Seq(Statuses) /\ setup.mode \in ExitModes
  BY Zenon, AxiomRunAssumption DEF RunTypeOK
<1>4. Len(reports') = Len(reports) + 1 /\ reports' # << >> /\ Len(reports) \in Nat
  BY Zenon, ReportTyped
<1> HIDE DEF st
<1>5. exit_counter' \in Int /\ Len(reports') + exit_counter' = Cardinality(Nodes)
  BY <1>1, <1>4 DEF ExitInv
<1>6. ASSUME "exit" \in services PROVE Promised(setup.mode, reports', exit_status')
  <2>1. CASE reports = << >>
    <3>1. exit_status' = IF setup.mode = "NOFAIL" THEN 0 ELSE st
      BY Zenon, <1>1, <1>6, <2>1 DEF TakeStatus, ExitInv
    <3> QED
      BY Zenon, <1>1, <1>2, <1>3, <2>1, <3>1, FirstRight
  <2>2. CASE reports # << >>
    <3>1. exit_status' = IF setup.mode = "NOFAIL" THEN 0 ELSE Merged(exit_status, st, setup.mode)
      BY Zenon, <1>1, <2>2 DEF TakeStatus, ExitInv
    <3>2. Promised(setup.mode, reports, exit_status)
      BY Zenon, <1>6, <2>2 DEF ExitInv
    <3> QED
      BY Zenon, <1>1, <1>2, <1>3, <2>2, <3>1, <3>2, MergedRight
  <2> QED
    BY Zenon, <2>1, <2>2
<1>7. services' = services
  BY Zenon, <1>1 DEF services
<1>8. mpc' # "done"
  BY <1>1
<1> QED
  BY Zenon, <1>1, <1>4, <1>5, <1>6, <1>7, <1>8 DEF ExitInv

\* no other step touches it
LEMMA ExitStep ==
  ASSUME RunTypeOK, ExitInv, [Next]_vars
  PROVE  ExitInv'
<1> DEFINE same == UNCHANGED <<setup, exitOn, exit_counter, exit_status, reports>>
<1>1. ASSUME same, mpc' # "done" \/ mpc' = mpc \/ exit_counter = 0 PROVE ExitInv'
  BY Zenon, <1>1 DEF ExitInv, services
<1>2. ASSUME NEW n \in Nodes, RecvExit(n) PROVE ExitInv'
  BY Zenon, <1>2, ReportMerged
<1>3. CASE Exec
  <2>1. same /\ mpc' # "done"
    BY <1>3 DEF Exec, NextNode
  <2> QED
    BY Zenon, <1>1, <2>1
<1>4. CASE notify_barrier
  <2>1. same /\ mpc' # "done"
    BY <1>4 DEF notify_barrier, NextNode
  <2> QED
    BY Zenon, <1>1, <2>1
<1>5. CASE manage_master_services \/ MasterSignal
  <2>1. same /\ mpc' # "done"
    BY <1>5 DEF manage_master_services, MasterSignal
  <2> QED
    BY Zenon, <1>1, <2>1
<1>6. CASE MasterEnds
  BY Zenon, <1>1, <1>6 DEF MasterEnds
<1>7. ASSUME NEW n \in Nodes, RecvOutput(n) PROVE ExitInv'
  BY Zenon, <1>1, <1>7 DEF RecvOutput
<1>8. ASSUME NEW n \in Nodes, SlaveStep(n) PROVE ExitInv'
  <2>1. same /\ mpc' = mpc
    BY Zenon, <1>8 DEF SlaveStep, wait_on_barrier, StartThreads, send_thread, waitpid, Drain,
       SendExit, SlaveEnds, master
  <2> QED
    BY Zenon, <1>1, <2>1
<1>9. ASSUME NEW n \in Nodes,
             \/ recv_thread(n) \/ ChildWrites(n) \/ ChildEnds(n) \/ ChildStops(n)
             \/ SlaveSignal(n) \/ SlaveKilled(n)
      PROVE  ExitInv'
  <2>1. same /\ mpc' = mpc
    BY Zenon, <1>9 DEF recv_thread, ChildWrites, ChildEnds, ChildStops, SlaveSignal,
       SlaveKilled, master
  <2> QED
    BY Zenon, <1>1, <2>1
<1>10. CASE UNCHANGED vars
  BY Zenon, <1>1, <1>10 DEF vars, master
<1> QED
  BY Zenon, <1>2, <1>3, <1>4, <1>5, <1>6, <1>7, <1>8, <1>9, <1>10 DEF Next, MasterStep
-----------------------------------------------------------------------------
(* The start of the applications *)

\* the node the loops of start begin with, and the one that comes next
FirstLeast == \A S \in SUBSET Nodes : S # {} => First(S) \in S /\ \A m \in S : First(S) <= m

\* a slave that has been started does not become one that has not
LEMMA StartedStays ==
  ASSUME RunTypeOK, [Next]_vars, NEW m \in Nodes, spc[m] # "none"
  PROVE  spc'[m] # "none"
<1> DEFINE Up == SlavePcs \ {"none"}
<1>s. {"wait", "fork", "up", "drain", "report", "sent", "gone"} \subseteq Up /\ "none" \notin Up
  BY DEF SlavePcs
<1> HIDE DEF Up
<1>1. \/ spc' = spc
      \/ \E x, v : spc' = Set(spc, x, v) /\ v \in Up
  <2>1. CASE MasterStep \/ MasterSignal \/ UNCHANGED vars
    BY Zenon, <1>s, <2>1 DEF MasterStep, MasterSignal, vars, slaves, Exec, notify_barrier,
       manage_master_services, MasterEnds, RecvExit, RecvOutput
  <2>2. ASSUME NEW n \in Nodes, SlaveStep(n)
        PROVE  spc' = spc \/ \E v \in Up : spc' = Set(spc, n, v)
    <3>1. CASE wait_on_barrier(n)
      BY Zenon, <1>s, <3>1 DEF wait_on_barrier
    <3>2. CASE StartThreads(n) \/ send_thread(n)
      BY Zenon, <1>s, <3>2 DEF StartThreads, send_thread
    <3>3. CASE waitpid(n)
      <4>1. spc' = Set(spc, n, "drain") \/ spc' = Set(spc, n, "report")
        BY Zenon, <1>s, <3>3 DEF waitpid
      <4> QED
        BY Zenon, <1>s, <4>1
    <3>4. CASE Drain(n) \/ SendExit(n) \/ SlaveEnds(n)
      BY Zenon, <1>s, <3>4 DEF Drain, SendExit, SlaveEnds
    <3> QED
      BY Zenon, <2>2, <3>1, <3>2, <3>3, <3>4 DEF SlaveStep
  <2>3. ASSUME NEW n \in Nodes,
               \/ recv_thread(n) \/ ChildWrites(n) \/ ChildEnds(n) \/ ChildStops(n)
               \/ SlaveSignal(n) \/ SlaveKilled(n)
        PROVE  spc' = spc \/ spc' = Set(spc, n, "gone")
    BY Zenon, <2>3 DEF recv_thread, ChildWrites, ChildEnds, ChildStops, SlaveSignal, SlaveKilled
  <2> QED
    BY Zenon, <1>s, <2>1, <2>2, <2>3 DEF Next
<1>2. spc \in [Nodes -> SlavePcs]
  BY Zenon DEF RunTypeOK
<1> QED
  BY Zenon, <1>s, <1>1, <1>2 DEF Set

\* calls that failed are not forgotten
LEMMA FaultsStay ==
  ASSUME faults \in Nat, [Next]_vars
  PROVE  faults' \in Nat /\ faults' >= faults
<1>1. faults' = faults \/ Fault
  <2>1. CASE MasterStep \/ MasterSignal \/ UNCHANGED vars
    BY Zenon, <2>1 DEF MasterStep, MasterSignal, vars, Exec, notify_barrier,
       manage_master_services, MasterEnds, RecvExit, RecvOutput
  <2>2. ASSUME NEW n \in Nodes, SlaveStep(n) PROVE faults' = faults \/ Fault
    BY Zenon, <2>2 DEF SlaveStep, wait_on_barrier, StartThreads, send_thread, waitpid, Drain,
       SendExit, SlaveEnds
  <2>3. ASSUME NEW n \in Nodes,
               \/ recv_thread(n) \/ ChildWrites(n) \/ ChildEnds(n) \/ ChildStops(n)
               \/ SlaveSignal(n) \/ SlaveKilled(n)
        PROVE  faults' = faults
    BY Zenon, <2>3 DEF recv_thread, ChildWrites, ChildEnds, ChildStops, SlaveSignal, SlaveKilled
  <2> QED
    BY Zenon, <2>1, <2>2, <2>3 DEF Next
<1> QED
  BY <1>1 DEF Fault

\* the loop of start goes on with the next node, and after the last one a
\* slave has been started on every node, unless a call failed
LEMMA ExecStarts ==
  ASSUME RunTypeOK, FirstLeast, Starting, Exec, faults \in Nat
  PROVE  faults' > 0 \/ (\A m \in Nodes : spc'[m] # "none") \/ Starting'
<1>1. mpc = "exec" /\ node \in Nodes /\ \A m \in Nodes : m < node => spc[m] # "none"
  BY DEF Exec, Starting
<1>2. UNCHANGED <<child, toSlave>>
  BY Zenon DEF Exec
<1>3. CASE faults' # faults
  BY <1>3 DEF Exec, Fault
<1>4. CASE faults' = faults
  <2>1. spc' = [spc EXCEPT ![node] = "wait"] /\ NextNode("notify")
    BY <1>4 DEF Exec, Fault, Set
  <2>2. /\ spc'[node] = "wait"
        /\ \A m \in Nodes : m # node => spc'[m] = spc[m]
    BY <1>1, <2>1 DEF RunTypeOK
  <2>3. CASE After(node) = {}
    <3>1. \A m \in Nodes : m = node \/ m < node
      BY <1>1, <2>3, AxiomRunAssumption DEF After
    <3>2. \A m \in Nodes : spc'[m] # "none"
      BY <1>1, <2>2, <3>1
    <3> QED
      BY Zenon, <3>2
  <2>4. CASE After(node) # {}
    <3>1. mpc' = "exec" /\ node' = First(After(node))
      BY Zenon, <1>1, <2>1, <2>4 DEF NextNode
    <3>2. /\ node' \in After(node) /\ \A m \in After(node) : node' <= m
      BY Zenon, <2>4, <3>1 DEF FirstLeast, After
    <3>3. ASSUME NEW m \in Nodes, m < node' PROVE m < node \/ m = node
      BY <1>1, <3>2, <3>3, AxiomRunAssumption DEF After
    <3>4. node' \in Nodes
      BY Zenon, <3>2 DEF After
    <3>5. ASSUME NEW m \in Nodes, m < node' PROVE spc'[m] # "none"
      BY <1>1, <2>2, <3>3, <3>5
    <3>6. ASSUME NEW m \in Nodes PROVE spc'[m] \in {"none", "wait", "gone"}
      BY <2>2 DEF Starting
    <3> QED
      BY <1>2, <3>1, <3>4, <3>5, <3>6 DEF Starting
  <2> QED
    BY Zenon, <2>3, <2>4
<1> QED
  BY Zenon, <1>3, <1>4

\* while no CMD_START is sent a slave can only wait or be killed
LEMMA OthersWait ==
  ASSUME RunTypeOK, Starting, NEW n \in Nodes,
         \/ SlaveStep(n) \/ recv_thread(n) \/ ChildWrites(n) \/ ChildEnds(n) \/ ChildStops(n)
         \/ SlaveSignal(n) \/ SlaveKilled(n)
  PROVE  Starting'
<1>1. child[n] = "none" /\ spc[n] \in {"none", "wait", "gone"} /\ NoStart(toSlave[n])
  BY Zenon DEF Starting
<1>2. wait_on_barrier(n) \/ SlaveKilled(n)
  BY <1>1 DEF SlaveStep, StartThreads, send_thread, waitpid, Drain, SendExit, SlaveEnds,
     recv_thread, ChildWrites, ChildEnds, ChildStops, SlaveSignal
<1>3. /\ UNCHANGED <<mpc, node, child>>
      /\ spc' = spc \/ spc' = [spc EXCEPT ![n] = "gone"]
  <2>1. CASE wait_on_barrier(n)
    <3>1. Head(toSlave[n]) # "START"
      <4>1. toSlave[n] \in Seq(Msgs) /\ toSlave[n] # << >>
        BY Zenon, <2>1 DEF wait_on_barrier, RunTypeOK
      <4> QED
        BY Zenon, <1>1, <4>1, NoStartTail
    <3> QED
      BY Zenon, <2>1, <3>1 DEF wait_on_barrier, master
  <2>2. CASE SlaveKilled(n)
    BY Zenon, <2>2 DEF SlaveKilled, Set, master
  <2> QED
    BY Zenon, <1>2, <2>1, <2>2
<1>4. ASSUME NEW m \in Nodes PROVE NoStart(toSlave'[m])
  <2>1. toSlave' = toSlave \/ (toSlave' = [toSlave EXCEPT ![n] = Tail(@)] /\ toSlave[n] # << >>)
    BY Zenon, <1>2 DEF wait_on_barrier, SlaveKilled
  <2>2. toSlave \in [Nodes -> Seq(Msgs)] /\ toSlave[n] \in Seq(Msgs) /\ NoStart(toSlave[m])
    BY Zenon DEF RunTypeOK, Starting
  <2>3. toSlave[n] # << >> => NoStart(Tail(toSlave[n]))
    BY Zenon, <1>1, <2>2, NoStartTail
  <2> QED
    BY Zenon, <2>1, <2>2, <2>3
<1>5. ASSUME NEW m \in Nodes
      PROVE  spc'[m] \in {"none", "wait", "gone"} /\ (spc[m] # "none" => spc'[m] # "none")
  <2>1. spc \in [Nodes -> SlavePcs] /\ spc[m] \in {"none", "wait", "gone"}
    BY Zenon DEF RunTypeOK, Starting
  <2> QED
    BY <1>3, <2>1
<1> QED
  BY Zenon, <1>3, <1>4, <1>5 DEF Starting

\* no application starts before the loop of start is through
LEMMA StartStep ==
  ASSUME RunTypeOK, FirstLeast, StartInv, [Next]_vars
  PROVE  StartInv'
<1>1. faults' \in Nat /\ faults' >= faults /\ faults \in Nat
  BY Zenon, FaultsStay DEF StartInv
<1>2. CASE faults > 0
  BY <1>1, <1>2 DEF StartInv
<1>3. CASE \A m \in Nodes : spc[m] # "none"
  BY Zenon, <1>1, <1>3, StartedStays DEF StartInv
<1>4. CASE Starting
  <2>1. CASE Exec
    BY Zenon, <1>1, <1>4, <2>1, ExecStarts DEF StartInv
  <2>2. CASE MasterSignal
    <3>1. mpc' = "killed" /\ UNCHANGED <<toSlave, child, spc>>
      BY <1>4, <2>2 DEF MasterSignal, Starting, slaves
    <3>2. Starting'
      BY <1>4, <3>1 DEF Starting
    <3> QED
      BY Zenon, <1>1, <3>2 DEF StartInv
  <2>3. ~ (MasterStep /\ ~ Exec)
    BY <1>4 DEF Starting, MasterStep, notify_barrier, manage_master_services, MasterEnds,
       RecvExit, RecvOutput
  <2>4. CASE UNCHANGED vars
    BY Zenon, <1>1, <1>4, <2>4 DEF StartInv, Starting, vars, master, slaves
  <2>5. ASSUME NEW n \in Nodes,
               \/ SlaveStep(n) \/ recv_thread(n) \/ ChildWrites(n) \/ ChildEnds(n)
               \/ ChildStops(n) \/ SlaveSignal(n) \/ SlaveKilled(n)
        PROVE  Starting'
    BY Zenon, <1>4, <2>5, OthersWait
  <2> QED
    BY Zenon, <1>1, <2>1, <2>2, <2>3, <2>4, <2>5 DEF Next, StartInv
<1> QED
  BY Zenon, <1>2, <1>3, <1>4 DEF StartInv
-----------------------------------------------------------------------------
(* CMD_KILL *)

\* what becomes of the queue of a slave
LEMMA KillQueue ==
  ASSUME NEW s \in Seq(Msgs)
  PROVE  /\ NoKillAfterStart(s) => NoKillAfterStart(Append(s, "START"))
         /\ NoKill(s) => NoKill(Append(s, "START"))
         /\ s # << >> /\ NoKillAfterStart(s) => NoKillAfterStart(Tail(s))
         /\ s # << >> /\ NoKill(s) => NoKill(Tail(s)) /\ Head(s) # "KILL"
         /\ s # << >> /\ NoKillAfterStart(s) /\ Head(s) = "START" => NoKill(Tail(s))
<1>1. NoKillAfterStart(s) => NoKillAfterStart(Append(s, "START"))
  BY DEF NoKillAfterStart
<1>2. NoKill(s) => NoKill(Append(s, "START"))
  BY DEF NoKill
<1> DEFINE t == Tail(s)
<1>3. s # << >> => /\ Len(s) \in Nat \ {0} /\ Len(t) = Len(s) - 1 /\ Head(s) = s[1]
                   /\ \A k \in 1 .. Len(t) : t[k] = s[k + 1]
  OBVIOUS
<1> HIDE DEF t
<1>4. s # << >> /\ NoKillAfterStart(s) => NoKillAfterStart(t)
  <2> SUFFICES ASSUME s # << >>, NoKillAfterStart(s), NEW j \in 1 .. Len(t), NEW k \in 1 .. Len(t),
                      j < k, t[j] = "START"
               PROVE  t[k] # "KILL"
    BY DEF NoKillAfterStart
  <2>1. /\ j + 1 \in 1 .. Len(s) /\ k + 1 \in 1 .. Len(s) /\ j + 1 < k + 1
        /\ t[j] = s[j + 1] /\ t[k] = s[k + 1]
    BY <1>3
  <2> QED
    BY Zenon, <2>1 DEF NoKillAfterStart
<1>5. s # << >> /\ NoKill(s) => NoKill(t) /\ Head(s) # "KILL"
  BY <1>3 DEF NoKill
<1>6. s # << >> /\ NoKillAfterStart(s) /\ Head(s) = "START" => NoKill(t)
  BY <1>3 DEF NoKillAfterStart, NoKill
<1> QED
  BY Zenon, <1>1, <1>2, <1>4, <1>5, <1>6 DEF t

\* the master does not take back a CMD_KILL
LEMMA KillSentStays ==
  ASSUME RunTypeOK, KillSent, [Next]_vars
  PROVE  KillSent'
<1>1. ASSUME NEW n \in Nodes, RecvExit(n) PROVE KillSent'
  <2>1. mpc = "run" /\ setup' = setup
    BY Zenon, <1>1 DEF RecvExit
  <2>2. reports' # << >>
    BY Zenon, <1>1, ReportTyped
  <2> QED
    BY <2>1, <2>2 DEF KillSent, services
<1>2. ASSUME setup' = setup, reports' = reports, mpc' = mpc \/ mpc # "exited" PROVE KillSent'
  BY Zenon, <1>2 DEF KillSent, services
<1>3. CASE Exec \/ notify_barrier \/ manage_master_services \/ MasterEnds \/ MasterSignal
  <2>1. setup' = setup /\ reports' = reports /\ mpc # "exited"
    BY <1>3 DEF Exec, notify_barrier, manage_master_services, MasterEnds, MasterSignal
  <2> QED
    BY Zenon, <1>2, <2>1
<1>4. ASSUME NEW n \in Nodes, RecvOutput(n) PROVE KillSent'
  BY Zenon, <1>2, <1>4 DEF RecvOutput
<1>5. ASSUME NEW n \in Nodes, SlaveStep(n) PROVE KillSent'
  BY Zenon, <1>2, <1>5 DEF SlaveStep, wait_on_barrier, StartThreads, send_thread, waitpid, Drain,
     SendExit, SlaveEnds, master
<1>6. ASSUME NEW n \in Nodes,
             \/ recv_thread(n) \/ ChildWrites(n) \/ ChildEnds(n) \/ ChildStops(n)
             \/ SlaveSignal(n) \/ SlaveKilled(n)
      PROVE  KillSent'
  BY Zenon, <1>2, <1>6 DEF recv_thread, ChildWrites, ChildEnds, ChildStops, SlaveSignal,
     SlaveKilled, master
<1>7. CASE UNCHANGED vars
  BY Zenon, <1>2, <1>7 DEF vars, master
<1> QED
  BY Zenon, <1>1, <1>3, <1>4, <1>5, <1>6, <1>7 DEF Next, MasterStep

\* the steps that take no message from the queue of a slave and put none into it
LEMMA QueuesAlone ==
  ASSUME RunTypeOK, \A m \in Nodes : Unkilled(m), UNCHANGED <<toSlave, my_sigterm>>,
         \/ spc' = spc
         \/ \E n : \E v \in {"none", "wait", "drain", "report", "sent", "gone"} : spc' = Set(spc, n, v)
         \/ \E n \in Nodes : spc[n] = "fork" /\ spc' = Set(spc, n, "up")
  PROVE  \A m \in Nodes : Unkilled(m)'
<1> SUFFICES ASSUME NEW m \in Nodes, spc'[m] \in {"fork", "up"} PROVE spc[m] \in {"fork", "up"}
  BY Zenon DEF Unkilled
<1>1. spc \in [Nodes -> SlavePcs]
  BY Zenon DEF RunTypeOK
<1>2. CASE spc' = spc
  BY Zenon, <1>2
<1>3. CASE \E n : \E v \in {"none", "wait", "drain", "report", "sent", "gone"} : spc' = Set(spc, n, v)
  BY <1>1, <1>3 DEF Set
<1>4. CASE \E n \in Nodes : spc[n] = "fork" /\ spc' = Set(spc, n, "up")
  BY <1>1, <1>4 DEF Set
<1> QED
  BY Zenon, <1>2, <1>3, <1>4

\* wait_on_barrier throws away what comes before CMD_START, and behind it no
\* CMD_KILL follows; so recv_thread takes none
LEMMA TakersUnkilled ==
  ASSUME RunTypeOK, \A m \in Nodes : Unkilled(m), NEW n \in Nodes,
         wait_on_barrier(n) \/ recv_thread(n)
  PROVE  \A m \in Nodes : Unkilled(m)'
<1>1. /\ toSlave \in [Nodes -> Seq(Msgs)] /\ toSlave[n] \in Seq(Msgs) /\ toSlave[n] # << >>
      /\ spc \in [Nodes -> SlavePcs] /\ Unkilled(n)
  BY Zenon DEF RunTypeOK, wait_on_barrier, recv_thread
<1>2. toSlave' = [toSlave EXCEPT ![n] = Tail(@)]
  BY Zenon DEF wait_on_barrier, recv_thread
<1>3. /\ toSlave'[n] = Tail(toSlave[n])
      /\ \A m \in Nodes \ {n} : toSlave'[m] = toSlave[m]
  BY Zenon, <1>1, <1>2
<1>4. /\ NoKillAfterStart(toSlave'[n])
      /\ NoKill(toSlave[n]) => NoKill(toSlave'[n]) /\ Head(toSlave[n]) # "KILL"
      /\ Head(toSlave[n]) = "START" => NoKill(toSlave'[n])
  BY Zenon, <1>1, <1>3, KillQueue DEF Unkilled
<1>5. CASE wait_on_barrier(n)
  <2>1. /\ my_sigterm' = my_sigterm /\ spc[n] = "wait"
        /\ \/ spc' = spc
           \/ spc' = [spc EXCEPT ![n] = "report"]
           \/ spc' = [spc EXCEPT ![n] = "fork"] /\ Head(toSlave[n]) = "START"
    BY Zenon, <1>5 DEF wait_on_barrier, Set
  <2>2. /\ \A m \in Nodes \ {n} : spc'[m] = spc[m]
        /\ spc'[n] \in {"fork", "up"} => Head(toSlave[n]) = "START"
    BY <1>1, <2>1
  <2> QED
    BY Zenon, <1>3, <1>4, <2>1, <2>2 DEF Unkilled
<1>6. CASE recv_thread(n)
  <2>1. spc[n] = "up" /\ spc' = spc
    BY Zenon, <1>6 DEF recv_thread
  <2>2. NoKill(toSlave[n])
    BY <1>1, <2>1 DEF Unkilled
  <2>3. my_sigterm' = my_sigterm
    BY Zenon, <1>4, <1>6, <2>2 DEF recv_thread
  <2> QED
    BY Zenon, <1>3, <1>4, <2>1, <2>2, <2>3 DEF Unkilled
<1> QED
  BY Zenon, <1>5, <1>6

\* no CMD_KILL reaches an application before the master has sent one
LEMMA KillStep ==
  ASSUME RunTypeOK, ExitInv, KillInv, [Next]_vars
  PROVE  KillInv'
<1>1. CASE KillSent
  BY Zenon, <1>1, KillSentStays DEF KillInv
<1>2. CASE \A m \in Nodes : Unkilled(m)
  <2> SUFFICES KillSent' \/ \A m \in Nodes : Unkilled(m)'
    BY Zenon DEF KillInv
  <2>1. CASE Exec
    <3>1. /\ UNCHANGED <<toSlave, my_sigterm>>
          /\ spc' = spc \/ spc' = Set(spc, node, "wait")
      BY Zenon, <2>1 DEF Exec
    <3> QED
      BY Zenon, <1>2, <3>1, QueuesAlone
  <2>2. CASE notify_barrier
    <3>1. SendTo(node, "START") /\ UNCHANGED <<spc, my_sigterm>>
      BY Zenon, <2>2 DEF notify_barrier, slaves
    <3>2. ASSUME NEW m \in Nodes
          PROVE  toSlave'[m] = toSlave[m] \/ toSlave'[m] = Append(toSlave[m], "START")
      BY Zenon, <3>1 DEF SendTo, RunTypeOK
    <3>3. ASSUME NEW m \in Nodes PROVE Unkilled(m)'
      <4>1. toSlave[m] \in Seq(Msgs)
        BY Zenon DEF RunTypeOK
      <4> QED
        BY Zenon, <1>2, <3>1, <3>2, <4>1, KillQueue DEF Unkilled
    <3> QED
      BY Zenon, <3>3
  <2>3. CASE manage_master_services \/ MasterEnds
    BY Zenon, <1>2, <2>3, QueuesAlone DEF manage_master_services, MasterEnds, slaves
  <2>4. CASE MasterSignal
    <3>1. KillSent' \/ (UNCHANGED <<toSlave, my_sigterm, spc>>)
      BY Zenon, <2>4 DEF MasterSignal, slaves, KillSent, services
    <3> QED
      BY Zenon, <1>2, <3>1, QueuesAlone
  <2>5. ASSUME NEW n \in Nodes, RecvExit(n) \/ RecvOutput(n)
        PROVE  KillSent' \/ \A m \in Nodes : Unkilled(m)'
    <3>1. CASE RecvExit(n) /\ exitOn
      <4>1. reports' # << >> /\ "exit" \in services /\ setup' = setup
        BY Zenon, <3>1, ReportTyped DEF ExitInv, RecvExit
      <4> QED
        BY Zenon, <4>1 DEF KillSent, services
    <3>2. CASE (RecvExit(n) /\ ~ exitOn) \/ RecvOutput(n)
      <4>1. UNCHANGED <<toSlave, my_sigterm, spc>>
        BY Zenon, <3>2 DEF RecvExit, RecvOutput, slaves
      <4> QED
        BY Zenon, <1>2, <4>1, QueuesAlone
    <3> QED
      BY Zenon, <2>5, <3>1, <3>2
  <2>6. ASSUME NEW n \in Nodes, wait_on_barrier(n) \/ recv_thread(n)
        PROVE  \A m \in Nodes : Unkilled(m)'
    BY Zenon, <1>2, <2>6, TakersUnkilled
  <2>7. ASSUME NEW n \in Nodes, StartThreads(n) PROVE \A m \in Nodes : Unkilled(m)'
    <3>1. UNCHANGED <<toSlave, my_sigterm>> /\ spc[n] = "fork" /\ spc' = Set(spc, n, "up")
      BY Zenon, <2>7 DEF StartThreads
    <3> QED
      BY Zenon, <1>2, <3>1, QueuesAlone
  <2>8. ASSUME NEW n \in Nodes,
               \/ send_thread(n) \/ waitpid(n) \/ Drain(n) \/ SendExit(n) \/ SlaveEnds(n)
               \/ ChildWrites(n) \/ ChildEnds(n) \/ ChildStops(n) \/ SlaveSignal(n)
               \/ SlaveKilled(n)
        PROVE  \A m \in Nodes : Unkilled(m)'
    <3>1. UNCHANGED <<toSlave, my_sigterm>>
      BY Zenon, <2>8 DEF send_thread, waitpid, Drain, SendExit, SlaveEnds, ChildWrites, ChildEnds,
         ChildStops, SlaveSignal, SlaveKilled
    <3>2. \/ spc' = spc
          \/ \E v \in {"drain", "report", "sent", "gone"} : spc' = Set(spc, n, v)
      BY Zenon, <2>8 DEF send_thread, waitpid, Drain, SendExit, SlaveEnds, ChildWrites, ChildEnds,
         ChildStops, SlaveSignal, SlaveKilled
    <3> QED
      BY Zenon, <1>2, <3>1, <3>2, QueuesAlone
  <2>9. CASE UNCHANGED vars
    BY Zenon, <1>2, <2>9, QueuesAlone DEF vars, slaves
  <2> QED
    BY Zenon, <2>1, <2>2, <2>3, <2>4, <2>5, <2>6, <2>7, <2>8, <2>9
       DEF Next, MasterStep, SlaveStep
<1> QED
  BY Zenon, <1>1, <1>2 DEF KillInv
-----------------------------------------------------------------------------
(***************************************************************************)
(* The lemmas together, and the theorems.                                  *)
(***************************************************************************)

\* exit_counter of master_receiver counts down the nodes that have reported
Counts(C) ==
  /\ exit_counter = Cardinality(Nodes) - Cardinality(C)
  /\ mpc = "done" => exit_counter = 0

RunInv ==
  /\ RunTypeOK
  /\ odd # {} \/ \E C \in SUBSET Nodes : Counts(C) /\ Sound(C)

\* one more node has reported
LEMMA OneMore ==
  ASSUME NEW C \in SUBSET Nodes, NEW n \in Nodes, n \notin C
  PROVE  /\ Cardinality(C \cup {n}) = Cardinality(C) + 1
         /\ Cardinality(C) \in Nat /\ Cardinality(Nodes) \in Nat
BY Zenon, AxiomRunAssumption, FS_Subset, FS_AddElement, FS_CardinalityType

\* at the start no report is counted, and no CMD_START of this run is under way
LEMMA RunInit == Init => RunInv
<1> SUFFICES ASSUME Init PROVE RunTypeOK /\ Counts({}) /\ Sound({})
  BY Zenon DEF RunInv
<1>1. /\ toSlave \in [Nodes -> Leftovers] /\ Leftovers \subseteq Seq({"OLDSTART", "KILL"})
      /\ setup \in Setups
      /\ toMaster = [n \in Nodes |-> << >>]
      /\ spc = [n \in Nodes |-> "none"] /\ child = [n \in Nodes |-> "none"]
      /\ status = [n \in Nodes |-> 0] /\ pipe = [n \in Nodes |-> 0]
      /\ written = [n \in Nodes |-> 0] /\ emitted = [n \in Nodes |-> 0] /\ reports = << >>
  BY Zenon, AxiomRunAssumption DEF Init
<1>2. ASSUME NEW s \in Leftovers PROVE s \in Seq(Msgs) /\ NoStart(s)
  <2>1. s \in Seq({"OLDSTART", "KILL"})
    BY <1>1
  <2> QED
    BY <2>1 DEF Msgs, NoStart
<1>3. RunTypeOK
  <2>1. toSlave \in [Nodes -> Seq(Msgs)]
    BY <1>1, <1>2
  <2>2. toMaster \in [Nodes -> Seq(Words)] /\ reports \in Seq(Statuses)
    BY <1>1
  <2>3. /\ spc \in [Nodes -> SlavePcs] /\ child \in [Nodes -> Lives]
        /\ pipe \in [Nodes -> Nat] /\ written \in [Nodes -> Nat] /\ emitted \in [Nodes -> Nat]
    BY <1>1 DEF SlavePcs, Lives
  <2>4. status \in [Nodes -> Statuses]
    BY <1>1, StatusTyped
  <2> QED
    BY Zenon, <1>1, <2>1, <2>2, <2>3, <2>4 DEF RunTypeOK
<1>4. ASSUME NEW n \in Nodes
      PROVE  /\ spc[n] = "none" /\ child[n] = "none" /\ toMaster[n] = << >>
             /\ pipe[n] = 0 /\ written[n] = 0 /\ emitted[n] = 0 /\ NoStart(toSlave[n])
  BY <1>1, <1>2
<1>5. ASSUME NEW n \in Nodes PROVE NodeInv({}, n)
  BY <1>4, EmptyQueue DEF NodeInv, SlaveInv, OutputInv, Over
<1>6. ExecInv({})
  BY Zenon, <1>4 DEF ExecInv
<1>7. Counts({})
  BY AxiomRunAssumption, FS_EmptySet, FS_CardinalityType DEF Counts, Init
<1> QED
  BY Zenon, <1>3, <1>5, <1>6, <1>7 DEF Sound

\* the steps that leave exit_counter alone
LEMMA NotCounted ==
  ASSUME NEW C, Counts(C), exit_counter' = exit_counter, mpc' = mpc \/ mpc' # "done"
  PROVE  Counts(C)'
BY Zenon DEF Counts

\* what every step of a slave and of an application leaves alone
LEMMA SlavesDoNotCount ==
  ASSUME NEW n \in Nodes,
         \/ SlaveStep(n) \/ recv_thread(n) \/ ChildWrites(n) \/ ChildEnds(n) \/ ChildStops(n)
         \/ SlaveSignal(n) \/ SlaveKilled(n)
  PROVE  exit_counter' = exit_counter /\ mpc' = mpc
BY Zenon DEF SlaveStep, wait_on_barrier, StartThreads, send_thread, waitpid, Drain, SendExit,
   SlaveEnds, recv_thread, ChildWrites, ChildEnds, ChildStops, SlaveSignal, SlaveKilled, master

\* a slave that has reported twice, or a stopped application, stays known
LEMMA OddStays == [Next]_vars => odd \subseteq odd'
<1> SUFFICES ASSUME [Next]_vars PROVE odd' = odd \/ \E n \in Nodes : odd' = odd \cup {n}
  OBVIOUS
<1>1. CASE MasterStep \/ MasterSignal \/ UNCHANGED vars
  BY Zenon, <1>1 DEF MasterStep, vars, Exec, notify_barrier, manage_master_services,
     MasterEnds, RecvExit, RecvOutput, MasterSignal
<1>2. ASSUME NEW n \in Nodes, SlaveStep(n)
      PROVE  odd' = odd
  BY Zenon, <1>2 DEF SlaveStep, wait_on_barrier, StartThreads, send_thread, waitpid, Drain,
     SendExit, SlaveEnds
<1>3. ASSUME NEW n \in Nodes,
             \/ recv_thread(n) \/ ChildWrites(n) \/ ChildEnds(n) \/ ChildStops(n)
             \/ SlaveSignal(n) \/ SlaveKilled(n)
      PROVE  odd' = odd \/ odd' = odd \cup {n}
  BY Zenon, <1>3 DEF recv_thread, ChildWrites, ChildEnds, ChildStops, SlaveSignal, SlaveKilled
<1> QED
  BY Zenon, <1>1, <1>2, <1>3 DEF Next

\* every step of the master keeps the count
LEMMA MasterKeeps ==
  ASSUME RunTypeOK, NEW C \in SUBSET Nodes, Counts(C), Sound(C), MasterStep \/ MasterSignal
  PROVE  \E D \in SUBSET Nodes : Counts(D)' /\ Sound(D)'
<1>1. CASE Exec
  <2>1. exit_counter' = exit_counter /\ mpc' # "done"
    BY <1>1 DEF Exec, NextNode
  <2> QED
    BY Zenon, <1>1, <2>1, ExecKeeps, NotCounted
<1>2. CASE notify_barrier
  <2>1. exit_counter' = exit_counter /\ mpc' # "done"
    BY <1>2 DEF notify_barrier, NextNode
  <2> QED
    BY Zenon, <1>2, <2>1, NotifyKeeps, NotCounted
<1>3. CASE manage_master_services \/ MasterEnds \/ MasterSignal
  <2>1. Counts(C)'
    BY <1>3 DEF manage_master_services, MasterEnds, MasterSignal, Counts
  <2> QED
    BY Zenon, <1>3, <2>1, MasterMovesKeep
<1>4. ASSUME NEW n \in Nodes, RecvOutput(n) PROVE Counts(C)' /\ Sound(C)'
  BY Zenon, <1>4, RecvOutputKeeps, NotCounted DEF RecvOutput
<1>5. ASSUME NEW n \in Nodes, RecvExit(n) PROVE Counts(C \cup {n})' /\ Sound(C \cup {n})'
  <2>1. n \notin C /\ Sound(C \cup {n})'
    BY Zenon, <1>5, RecvExitKeeps
  <2>2. exit_counter' = exit_counter - 1 /\ mpc' = "run"
    BY Zenon, <1>5 DEF RecvExit
  <2>3. Counts(C \cup {n})'
    BY <2>1, <2>2, OneMore DEF Counts
  <2> QED
    BY Zenon, <2>1, <2>3
<1>6. ASSUME NEW n \in Nodes PROVE C \cup {n} \in SUBSET Nodes
  OBVIOUS
<1> QED
  BY Zenon, <1>1, <1>2, <1>3, <1>4, <1>5, <1>6 DEF MasterStep

\* every step of a slave and of its application too, or the slave reports for
\* a second time or a stopped application
LEMMA SlavesKeep ==
  ASSUME RunTypeOK, NEW C \in SUBSET Nodes, Counts(C), Sound(C), NEW n \in Nodes,
         \/ SlaveStep(n) \/ recv_thread(n) \/ ChildWrites(n) \/ ChildEnds(n) \/ ChildStops(n)
         \/ SlaveSignal(n) \/ SlaveKilled(n)
  PROVE  odd' # {} \/ (Counts(C)' /\ Sound(C)')
<1>1. Counts(C)'
  BY Zenon, SlavesDoNotCount, NotCounted
<1>2. CASE SlaveStep(n)
  BY Zenon, <1>1, <1>2, WaitKeeps, StartThreadsKeeps, SendersKeep, WaitpidKeeps,
     SendExitKeeps, SlaveEndsKeeps DEF SlaveStep
<1>3. CASE recv_thread(n) \/ ChildWrites(n) \/ ChildEnds(n) \/ SlaveKilled(n)
  BY Zenon, <1>1, <1>3, RecvThreadKeeps, ChildWritesKeeps, ChildEndsKeeps, SlaveKilledKeeps
<1>4. CASE ChildStops(n)
  <2>1. odd' = odd \cup {n}
    BY Zenon, <1>4 DEF ChildStops
  <2> QED
    BY <2>1
<1>5. CASE SlaveSignal(n) /\ spc[n] # "sent"
  BY Zenon, <1>1, <1>5, SlaveSignalKeeps
<1>6. CASE SlaveSignal(n) /\ spc[n] = "sent"
  <2>1. odd' = odd \cup {n}
    BY Zenon, <1>6 DEF SlaveSignal
  <2> QED
    BY <2>1
<1> QED
  BY Zenon, <1>2, <1>3, <1>4, <1>5, <1>6

\* types are kept, by stuttering too
LEMMA TypesStay == RunTypeOK /\ [Next]_vars => RunTypeOK'
BY Zenon, RunTypeStep DEF RunTypeOK, vars, master, slaves

\* the invariant is inductive
LEMMA RunStep == RunInv /\ [Next]_vars => RunInv'
<1>1. ASSUME [Next]_vars, odd # {} PROVE odd' # {}
  BY <1>1, OddStays
<1> SUFFICES ASSUME RunInv, [Next]_vars, odd = {}
             PROVE  odd' # {} \/ \E C \in SUBSET Nodes : Counts(C)' /\ Sound(C)'
  BY Zenon, <1>1, TypesStay DEF RunInv
<1>2. PICK C \in SUBSET Nodes : Counts(C) /\ Sound(C)
  BY Zenon DEF RunInv
<1>3. RunTypeOK
  BY Zenon DEF RunInv
<1>4. CASE MasterStep \/ MasterSignal
  BY Zenon, <1>2, <1>3, <1>4, MasterKeeps
<1>5. ASSUME NEW n \in Nodes,
             \/ SlaveStep(n) \/ recv_thread(n) \/ ChildWrites(n) \/ ChildEnds(n) \/ ChildStops(n)
             \/ SlaveSignal(n) \/ SlaveKilled(n)
      PROVE  odd' # {} \/ (Counts(C)' /\ Sound(C)')
  BY Zenon, <1>2, <1>3, <1>5, SlavesKeep
<1>6. CASE UNCHANGED vars
  <2>1. UNCHANGED <<setup, mpc, exit_counter, toSlave, spc, child, toMaster, pipe, written,
                    emitted, hit>>
    BY Zenon, <1>6 DEF vars, master, slaves
  <2>2. ExecInv(C)'
    BY Zenon, <1>2, <2>1 DEF Sound, ExecInv
  <2> QED
    BY Zenon, <1>2, <2>1, <2>2, NoNode, NotCounted
<1> QED
  BY Zenon, <1>4, <1>5, <1>6, <1>2 DEF Next

\* a master that has ended has counted every node
LEMMA AllCounted ==
  ASSUME RunInv, mpc = "done", odd = {}
  PROVE  Sound(Nodes)
<1>1. PICK C \in SUBSET Nodes : Counts(C) /\ Sound(C)
  BY Zenon DEF RunInv
<1>2. Cardinality(Nodes) - Cardinality(C) = 0
  BY <1>1 DEF Counts
<1>3. IsFiniteSet(C) /\ (Cardinality(Nodes) = Cardinality(C) => Nodes = C)
  BY Zenon, AxiomRunAssumption, FS_Subset
<1>4. Cardinality(Nodes) \in Nat /\ Cardinality(C) \in Nat
  BY Zenon, <1>3, AxiomRunAssumption, FS_CardinalityType
<1>5. C = Nodes
  BY <1>2, <1>3, <1>4
<1> QED
  BY Zenon, <1>1, <1>5

\* master_receiver returns only when no application of the run lives any more,
\* for every number of nodes and whatever slaves are hit by signals or cannot
\* fork (exit_counter of master_receiver)
THEOREM MasterWaitsHolds == Spec => []MasterWaits
<1>1. RunInv => MasterWaits
  BY Zenon, AllCounted DEF MasterWaits, Sound, NodeInv, SlaveInv, Over
<1> QED
  BY <1>1, RunInit, RunStep, PTL DEF Spec

\* all the output of the applications is printed by then, except that of a
\* slave hit by a signal: what was in the pipe at the end of the application
\* (slave.c) and what was under way at that of the last slave (master_receiver)
THEOREM OutputCompleteHolds == Spec => []OutputComplete
<1>1. RunInv => OutputComplete
  <2> SUFFICES ASSUME RunInv, mpc = "done", odd = {}, NEW n \in Nodes, n \notin hit
               PROVE  emitted[n] = written[n]
    BY Zenon DEF OutputComplete
  <2>1. NodeInv(Nodes, n)
    BY Zenon, AllCounted DEF Sound
  <2>2. /\ toMaster[n] = << >> /\ pipe[n] = 0
        /\ written[n] = emitted[n] + pipe[n] + Outputs(toMaster[n])
    BY <2>1 DEF NodeInv, SlaveInv, OutputInv
  <2>3. emitted[n] \in Nat
    BY Zenon DEF RunInv, RunTypeOK
  <2> QED
    BY <2>2, <2>3, EmptyQueue
<1> QED
  BY <1>1, RunInit, RunStep, PTL DEF Spec
-----------------------------------------------------------------------------
(* The exit status, the start of the applications and CMD_KILL *)

ServicesInv == RunTypeOK /\ ExitInv /\ StartInv /\ KillInv

\* CHOOSE finds the least node
LEMMA LeastNode == FirstLeast
<1> SUFFICES ASSUME NEW S \in SUBSET Nodes, S # {}
             PROVE  \E n \in S : \A m \in S : n <= m
  BY Zenon DEF FirstLeast, First
<1>1. S \subseteq Nat
  BY Zenon, AxiomRunAssumption
<1>2. PICK n \in S : \A m \in S : ~ (<<m, n>> \in OpToRel(<, Nat))
  BY Zenon, <1>1, NatLessThanWellFounded, WFMin
<1>3. \A m \in S : ~ (m < n)
  BY Zenon, <1>1, <1>2 DEF OpToRel
<1> QED
  BY <1>1, <1>3

\* nothing is reported, started or killed at the start
LEMMA ServicesInit == Init => ServicesInv
<1> SUFFICES ASSUME Init PROVE ExitInv /\ StartInv /\ KillInv
  BY Zenon, RunInit DEF RunInv, ServicesInv
<1>1. Cardinality(Nodes) \in Nat
  BY Zenon, AxiomRunAssumption, FS_CardinalityType
<1>2. /\ reports = << >> /\ mpc = "exec" /\ exit_counter = Cardinality(Nodes)
      /\ exitOn = ("exit" \in services) /\ faults = 0 /\ node = First(Nodes)
      /\ spc = [n \in Nodes |-> "none"] /\ child = [n \in Nodes |-> "none"]
      /\ my_sigterm = [n \in Nodes |-> FALSE] /\ toSlave \in [Nodes -> Leftovers]
  BY Zenon DEF Init, services
<1>3. ExitInv
  <2>1. exit_counter \in Int /\ Len(reports) + exit_counter = Cardinality(Nodes) /\ mpc # "done"
    BY <1>1, <1>2
  <2>2. exitOn <=> ("exit" \in services /\ reports = << >>)
    BY Zenon, <1>2
  <2> QED
    BY Zenon, <1>2, <2>1, <2>2 DEF ExitInv
<1>4. ASSUME NEW n \in Nodes
      PROVE  NoStart(toSlave[n]) /\ NoKillAfterStart(toSlave[n])
  <2>1. toSlave[n] \in Seq({"OLDSTART", "KILL"})
    BY <1>2, AxiomRunAssumption
  <2> QED
    BY <2>1 DEF NoStart, NoKillAfterStart
<1>5. node \in Nodes /\ \A m \in Nodes : ~ (m < node)
  <2>1. First(Nodes) \in Nodes /\ \A m \in Nodes : First(Nodes) <= m
    BY Zenon, LeastNode, AxiomRunAssumption DEF FirstLeast
  <2> QED
    BY <1>2, <2>1, AxiomRunAssumption
<1>6. StartInv
  BY <1>2, <1>4, <1>5 DEF StartInv, Starting
<1>7. KillInv
  BY <1>2, <1>4 DEF KillInv, Unkilled
<1> QED
  BY Zenon, <1>3, <1>6, <1>7

\* and every step keeps it so
LEMMA ServicesStep == ServicesInv /\ [Next]_vars => ServicesInv'
BY Zenon, TypesStay, ExitStep, StartStep, KillStep, LeastNode DEF ServicesInv

\* under the exit service the master ends with the status that the help text
\* of -E defines for the reports of all slaves, in the order in which they
\* came (CMD_EXIT in master_receiver), for every mode and every exit code
THEOREM ExitStatusHolds == Spec => []ExitStatusRight
<1>1. ServicesInv => ExitStatusRight
  <2> SUFFICES ASSUME ServicesInv, mpc = "done", "exit" \in services
               PROVE  reports # << >> /\ Promised(setup.mode, reports, exit_status)
    BY Zenon DEF ExitStatusRight
  <2>1. Len(reports) = Cardinality(Nodes)
    BY DEF ServicesInv, RunTypeOK, ExitInv
  <2>2. Cardinality(Nodes) # 0
    BY Zenon, AxiomRunAssumption, FS_EmptySet
  <2>3. reports # << >>
    BY <2>1, <2>2
  <2> QED
    BY Zenon, <2>3 DEF ServicesInv, ExitInv
<1> QED
  BY <1>1, ServicesInit, ServicesStep, PTL DEF Spec

\* neither a CMD_START nor a CMD_KILL that an earlier run has left in the queue
\* of a slave reaches an application: none starts before the loop of start has
\* been at every node, and none is ended by a CMD_KILL before the master of
\* this run has sent it (wait_on_barrier, recv_thread, AXIOM_FLAG_NOFLUSH)
THEOREM OnlyThisRunHolds == Spec => []OnlyThisRun
<1>1. ServicesInv => OnlyThisRun
  BY Zenon DEF ServicesInv, StartInv, Starting, KillInv, KillSent, Unkilled, OnlyThisRun
<1> QED
  BY <1>1, ServicesInit, ServicesStep, PTL DEF Spec
=============================================================================
