------------------------------ MODULE RdmaTool ------------------------------
(***************************************************************************)
(* axiom-rdma: one process on each of the two nodes of an axiom-run, which *)
(* agree on the roles of master and slave and move a payload between their *)
(* private regions, with the barrier service between the steps. The        *)
(* barrier is the abstract one that the service implements.                *)
(***************************************************************************)
EXTENDS Integers, Sequences, FiniteSets

CONSTANTS
  Pair,         \* the two nodes of the run, node numbers
  Options,      \* the command lines, the same on both nodes
  Null,         \* AXIOM_NULL_NODE, an id the command line leaves open
  Region,       \* the cells of a private region, 0 .. its size - 1
  Old           \* what a cell holds before the tool writes it

VARIABLES
  opt,          \* the command line
  step,         \* step[n]: where the process on node n is
  mem,          \* mem[n]: the private region of node n
  syncs, wakes, \* the calls and returns of the barrier
  shown         \* shown[n]: what axrdma_dump of node n has printed

rdmaVars == <<opt, step, mem, syncs, wakes, shown>>

AXIOM_RDMA_SYNC_ID == 12
Sync == INSTANCE BarrierSpec
          WITH Nodes <- Pair, Ids <- {AXIOM_RDMA_SYNC_ID}, MaxCalls <- 2,
               calls <- syncs, rets <- wakes

Lowest == CHOOSE n \in Pair : \A m \in Pair : n <= m
Highest == CHOOSE n \in Pair : \A m \in Pair : n >= m

\* the roles from the ids given with -N and -n: what is left open is filled
\* in from the two nodes of the run
MasterId(o) ==
  IF o.master # Null THEN o.master
  ELSE IF o.slave = Lowest THEN Highest ELSE Lowest
SlaveId(o) ==
  IF o.slave # Null THEN o.slave
  ELSE IF MasterId(o) = Highest THEN Lowest ELSE Highest
RolesFit(o) == {MasterId(o), SlaveId(o)} = Pair

\* the payload: the bytes of the command line, repeated to the size asked
\* for; more bytes than that would make the last copy's length wrap around
RECURSIVE Repeated(_, _)
Repeated(bytes, pay) ==
  IF Len(pay) + Len(bytes) <= opt.size
  THEN Repeated(bytes, pay \o bytes)
  ELSE pay \o SubSeq(bytes, 1, opt.size - Len(pay))
Payload == Repeated(opt.bytes, opt.bytes)

OffsetOf(n) == IF n = MasterId(opt) THEN opt.moff ELSE opt.soff
Cells(n) == OffsetOf(n) .. OffsetOf(n) + opt.size - 1

RdmaInit ==
  /\ opt \in Options
  /\ step = [n \in Pair |-> "roles"]
  /\ mem = [n \in Pair |-> [c \in Region |-> Old]]
  /\ Sync!Init
  /\ shown = [n \in Pair |-> << >>]

\* the modes that use the node's own region only
Local == opt.mode \in {"STORE", "DUMP"}

Go(n, to) == step' = [step EXCEPT ![n] = to]
Still == UNCHANGED <<syncs, wakes>>

\* the checks of the command line, then the allocation; any of the calls of
\* the allocator may fail, which ends the process without a barrier
Start(n) ==
  /\ step[n] = "roles"
  /\ \/ ~ RolesFit(opt) /\ Go(n, "end")
     \/ RolesFit(opt) /\ ~ Local /\ Go(n, "sync1")
     \/ RolesFit(opt) /\ Local
        /\ Go(n, CASE opt.size + opt.moff > Cardinality(Region) -> "end"
                  [] opt.mode = "STORE" -> "store"
                  [] opt.mode = "DUMP" -> "dump")
     \/ RolesFit(opt) /\ Go(n, "failed")
  /\ UNCHANGED <<opt, mem, shown>> /\ Still

EnterSync(n, at, wait) ==
  /\ step[n] = at
  /\ Sync!Arrive(<<n, AXIOM_RDMA_SYNC_ID>>)
  /\ Go(n, wait)
  /\ UNCHANGED <<opt, mem, shown>>

LeaveSync(n, wait, to) ==
  /\ step[n] = wait
  /\ Sync!Leave(<<n, AXIOM_RDMA_SYNC_ID>>)
  /\ Go(n, to)
  /\ UNCHANGED <<opt, mem, shown>>

Stored(region, n) ==
  [c \in Region |-> IF c \in Cells(n) THEN Payload[c - OffsetOf(n) + 1] ELSE region[c]]

\* who stores the payload in its own region before the second barrier; the
\* local mode stores on both nodes and needs no barrier
StoresFirst(n) ==
  \/ opt.mode = "STORE"
  \/ opt.mode = "READ" /\ n = SlaveId(opt)
  \/ opt.mode = "WRITE" /\ n = MasterId(opt)

\* mutant: no barrier between storing the payload and using it
axrdma_store_NoSync(n) ==
  /\ step[n] = "store"
  /\ mem' = IF StoresFirst(n) THEN [mem EXCEPT ![n] = Stored(@, n)] ELSE mem
  /\ Go(n, CASE opt.mode = "STORE" -> "dump"
             [] opt.mode = "WRITE" /\ n = MasterId(opt) -> "write"
             [] OTHER -> "act")
  /\ UNCHANGED <<opt, shown>> /\ Still

\* mutant: the slave of a read skips that barrier
axrdma_store_SlaveGone(n) ==
  /\ step[n] = "store"
  /\ mem' = IF StoresFirst(n) THEN [mem EXCEPT ![n] = Stored(@, n)] ELSE mem
  /\ Go(n, CASE opt.mode = "STORE" -> "dump"
             [] opt.mode = "WRITE" /\ n = MasterId(opt) -> "write"
             [] opt.mode = "READ" /\ n = SlaveId(opt) -> "act"
             [] OTHER -> "sync2")
  /\ UNCHANGED <<opt, shown>> /\ Still

\* axrdma_store, where it is called
axrdma_store(n) ==
  /\ step[n] = "store"
  /\ mem' = IF StoresFirst(n) THEN [mem EXCEPT ![n] = Stored(@, n)] ELSE mem
  /\ Go(n, CASE opt.mode = "STORE" -> "dump"
             [] opt.mode = "WRITE" /\ n = MasterId(opt) -> "write"
             [] OTHER -> "sync2")
  /\ UNCHANGED <<opt, shown>> /\ Still

\* the region of node to after a transfer from node from
Moved(from, to) ==
  [c \in Region |-> IF c \in Cells(to) THEN mem[from][c - OffsetOf(to) + OffsetOf(from)]
                    ELSE mem[to][c]]

\* a failed write is remembered past the barrier
axrdma_write(n) ==
  /\ step[n] = "write"
  /\ \/ /\ mem' = [mem EXCEPT ![SlaveId(opt)] = Moved(n, SlaveId(opt))]
        /\ Go(n, "sync2")
     \/ Go(n, "sync2_bad") /\ UNCHANGED mem
  /\ UNCHANGED <<opt, shown>> /\ Still

axrdma_read(n) ==
  /\ step[n] = "act" /\ opt.mode = "READ" /\ n = MasterId(opt)
  /\ \/ /\ mem' = [mem EXCEPT ![n] = Moved(SlaveId(opt), n)]
        /\ Go(n, "dump")
     \/ Go(n, "failed") /\ UNCHANGED mem
  /\ UNCHANGED <<opt, shown>> /\ Still

axrdma_dump(n) ==
  /\ \/ step[n] = "dump"
     \/ step[n] = "act" /\ ~ (opt.mode = "READ" /\ n = MasterId(opt))
  /\ shown' = [shown EXCEPT ![n] = [i \in 1 .. opt.size |-> mem[n][OffsetOf(n) + i - 1]]]
  /\ Go(n, "end")
  /\ UNCHANGED <<opt, mem>> /\ Still

RdmaStep(n) ==
  \/ Start(n) \/ axrdma_store(n) \/ axrdma_write(n) \/ axrdma_read(n) \/ axrdma_dump(n)
  \/ EnterSync(n, "sync1", "wait1") \/ LeaveSync(n, "wait1", "store")
  \/ EnterSync(n, "sync2", "wait2") \/ LeaveSync(n, "wait2", "act")
  \/ EnterSync(n, "sync2_bad", "wait2_bad") \/ LeaveSync(n, "wait2_bad", "failed")

RdmaNext == \E n \in Pair : RdmaStep(n)
-----------------------------------------------------------------------------
\* byte i of the payload is the byte of the command line it repeats, and what
\* a process prints at the end is the payload wherever the tool has put it:
\* on both nodes, unless the transfer was refused (axrdma_read and
\* axrdma_write after the barriers)
PayloadArrives ==
  \A n \in Pair :
    (shown[n] # << >> /\ opt.mode # "DUMP" /\ "failed" \notin {step[m] : m \in Pair}
       /\ "wait2_bad" \notin {step[m] : m \in Pair}) =>
      shown[n] = [i \in 1 .. opt.size |-> opt.bytes[((i - 1) % Len(opt.bytes)) + 1]]

\* both processes end, if neither fails: no barrier is left waiting for the
\* other one, whatever roles the command line gives or leaves open
BothEnd ==
  <>(\/ \A n \in Pair : step[n] = "end"
     \/ \E n \in Pair : step[n] = "failed")
=============================================================================
