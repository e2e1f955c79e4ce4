------------------------------ MODULE Discovery ------------------------------
(***************************************************************************)
(* The node-discovery protocol of axiom-init                               *)
(* (axiom-init/axiom-discovery/axiom_discovery_protocol.c).                *)
(*                                                                         *)
(* Boards are joined by cables between numbered interfaces. The master     *)
(* walks the network depth first: the board that holds the "token" asks    *)
(* each neighbour it does not know for its id, numbers the neighbour if it *)
(* has none and hands it the token with START; the neighbour returns it,   *)
(* with everything it learnt about the topology, with END_TOPOLOGY.        *)
(*                                                                         *)
(* A bit mask of interfaces (1 << i) is the set {i}. The raw neighbour     *)
(* messages of the AXIOM NIC are one FIFO queue per receiving interface;   *)
(* the software reads the queues of its interfaces in any order.           *)
(***************************************************************************)
EXTENDS Integers, Sequences, FiniteSets

CONSTANTS
  Boards,      \* the boards of the cluster
  Master,      \* the board on which axiom-init was started with --master
  IFNUM,       \* AXIOM_INTERFACES_NUM
  NODES_NUM,   \* AXIOM_NODES_NUM; also AXIOM_NULL_NODE, the last node id value
  MASTER_ID,   \* AXIOM_INIT_MASTER_NODE
  Cablings,    \* the ways the boards may be cabled together
  StaleIds,    \* node ids a slave may hold from an earlier discovery
  MaxFaults    \* bound on the number of failing send/receive calls

Ifs == 0 .. (IFNUM - 1)
NodeId == 0 .. NODES_NUM
NULL_NODE == NODES_NUM
IF_LOOPBACK == IFNUM
Ports == Boards \X Ifs
Cells == NodeId \X Ifs

\* A cable joins two interfaces of two different boards.
IsCabling(c) ==
  /\ DOMAIN c \subseteq Ports
  /\ \A p \in DOMAIN c : c[p] \in DOMAIN c /\ c[c[p]] = p /\ c[p][1] # p[1]

ASSUME MasterAssumption == Master \in Boards
ASSUME IfAssumption == IFNUM \in Nat \ {0}
ASSUME IdAssumption ==
  /\ NODES_NUM \in Nat
  /\ MASTER_ID \in 1 .. (NODES_NUM - 1)
  /\ StaleIds \subseteq NodeId
ASSUME CablingAssumption == \A c \in Cablings : IsCabling(c)
ASSUME FaultAssumption == MaxFaults \in Nat

Commands == {"REQ_ID", "RSP_NOID", "RSP_ID", "SETID", "START", "TOPOLOGY", "END_TOPOLOGY"}

\* axiom_discovery_payload_t; dst_if may be IFNUM, "no such interface"
Messages == [command : Commands, src_node : NodeId, dst_node : NodeId,
             src_if : 0 .. IFNUM, dst_if : 0 .. IFNUM]

Msg(cmd, src, dst, sif, dif) ==
  [command |-> cmd, src_node |-> src, dst_node |-> dst, src_if |-> sif, dst_if |-> dif]

VARIABLES
  link,              \* the cabling: a partial function from ports to ports
  chan,              \* chan[<<b, i>>]: messages waiting at interface i of board b
  pc,                \* where each board is in the protocol
  node_id,           \* the id register of each board's NIC
  next_id,           \* the last id handed out, as far as the board knows
  if_idx,            \* loop variable i of discover_phase
  start_node_index,  \* first id handed out behind interface i
  src_interface,     \* slave: the interface towards the board that numbered it
  topology,          \* topology[b][<<n, i>>]: node behind interface i of node n
  routing,           \* routing[b][n]: interfaces enabled towards node n
  todo,              \* slave: topology entries not yet sent back
  faults,            \* number of calls that have failed so far
  waitFault          \* has the inner loop of discover_phase been left by a break

vars == <<link, chan, pc, node_id, next_id, if_idx, start_node_index,
          src_interface, topology, routing, todo, faults, waitFault>>

PCs == {"boot", "idle", "waitSetId", "waitStart", "scan", "waitRsp", "sendStart",
        "waitTopo", "sendTopo", "done"}

\* Every variable has the type its C declaration gives it: ids are one byte
\* wide, no index leaves the topology matrix extended by the NULL_NODE row.
TypeOK ==
  /\ IsCabling(link)
  /\ chan \in [Ports -> Seq(Messages)]
  /\ pc \in [Boards -> PCs]
  /\ node_id \in [Boards -> NodeId]
  /\ next_id \in [Boards -> NodeId]
  /\ if_idx \in [Boards -> 0 .. IFNUM]
  /\ start_node_index \in [Boards -> NodeId]
  /\ src_interface \in [Boards -> Ifs]
  /\ topology \in [Boards -> [Cells -> NodeId]]
  /\ routing \in [Boards -> [NodeId -> SUBSET (0 .. IFNUM)]]
  /\ todo \in [Boards -> SUBSET Cells]
  /\ faults \in 0 .. MaxFaults
  /\ waitFault \in BOOLEAN

-----------------------------------------------------------------------------
(* Helpers *)

axiom_topology_init == [c \in Cells |-> NULL_NODE]

axiom_routing_init == [n \in NodeId |-> {}]

axiom_codify_routing_mask(i) == {i}

Connected(b, i) == <<b, i>> \in DOMAIN link

\* axiom_node_id_t is uint8_t: ids wrap around after NULL_NODE
IncId(n) == (n + 1) % (NODES_NUM + 1)

\* topology[n][i] = m: a column index equal to IFNUM is the first column of
\* the next row
Slot(n, i) == IF i \in Ifs THEN <<n, i>>
              ELSE <<IF n < NODES_NUM THEN n + 1 ELSE n, 0>>

\* Mutants of RecordLink: interfaces swapped; the second assignment forgotten.
RecordLink_Swapped(t, n, i, m, j) ==
  [[t EXCEPT ![Slot(n, j)] = m] EXCEPT ![Slot(m, i)] = n]
RecordLink_OneWay(t, n, i, m, j) == [t EXCEPT ![Slot(n, i)] = m]

\* topology[n][i] = m; topology[m][j] = n
RecordLink(t, n, i, m, j) == [[t EXCEPT ![Slot(n, i)] = m] EXCEPT ![Slot(m, j)] = n]

\* Mutant of RouteRange: n < last.
RouteRange_Short(r, first, last, i) ==
  [n \in NodeId |-> IF n \in first .. (last - 1) THEN axiom_codify_routing_mask(i) ELSE r[n]]

\* for (n = first; n <= last; n++) axiom_set_routing(dev, n, 1 << i)
RouteRange(r, first, last, i) ==
  [n \in NodeId |-> IF n \in first .. last THEN axiom_codify_routing_mask(i) ELSE r[n]]

\* axiom_send_raw_discovery(dev, i, ...) on board b, given the queues ch
Send(ch, b, i, m) == [ch EXCEPT ![link[<<b, i>>]] = Append(@, m)]

Waiting(b, i) == Connected(b, i) /\ chan[<<b, i>>] # <<>>
First(b, i) == Head(chan[<<b, i>>])
Drop(b, i) == [chan EXCEPT ![<<b, i>>] = Tail(@)]

\* what discover_phase's caller does when discover_phase returns
AfterPhase(b) == IF b = Master THEN "done" ELSE "sendTopo"

\* Mutant of KnownCells: only the board's own row is sent back.
KnownCells_OwnRow(b) ==
  {c \in Cells : c[1] = node_id[b] /\ topology[b][c] # NULL_NODE}

\* what the loops over the AXIOM_NODES_NUM rows of the matrix find
KnownCells(b) == {c \in Cells : c[1] < NODES_NUM /\ topology[b][c] # NULL_NODE}

\* Mutant of EnterPhase: the loop starts at interface 1.
EnterPhase_FromOne(b, n, r) ==
  /\ pc' = [pc EXCEPT ![b] = "scan"]
  /\ if_idx' = [if_idx EXCEPT ![b] = 1]
  /\ routing' = [routing EXCEPT ![b] =
       [r EXCEPT ![n] = axiom_codify_routing_mask(IF_LOOPBACK)]]

\* The statements of discover_phase before its loop, on board b with id n.
EnterPhase(b, n, r) ==
  /\ pc' = [pc EXCEPT ![b] = "scan"]
  /\ if_idx' = [if_idx EXCEPT ![b] = 0]
  /\ routing' = [routing EXCEPT ![b] =
       [r EXCEPT ![n] = axiom_codify_routing_mask(IF_LOOPBACK)]]

\* discover_phase returns on board b (break or end of the loop)
LeavePhase(b) ==
  /\ pc' = [pc EXCEPT ![b] = AfterPhase(b)]
  /\ todo' = [todo EXCEPT ![b] = IF b = Master THEN {} ELSE KnownCells(b)]

Init ==
  /\ link \in Cablings
  /\ chan = [p \in Ports |-> <<>>]
  /\ pc = [b \in Boards |-> IF b = Master THEN "boot" ELSE "idle"]
  /\ node_id \in [Boards -> StaleIds]
  /\ next_id = [b \in Boards |-> 0]
  /\ if_idx = [b \in Boards |-> 0]
  /\ start_node_index = [b \in Boards |-> 0]
  /\ src_interface = [b \in Boards |-> 0]
  /\ topology = [b \in Boards |-> axiom_topology_init]
  /\ routing = [b \in Boards |-> axiom_routing_init]
  /\ todo = [b \in Boards |-> {}]
  /\ faults = 0
  /\ waitFault = FALSE

-----------------------------------------------------------------------------
(* discover_phase, run by the board that holds the token *)

\* axiom_master_node_discovery up to the loop of discover_phase
MasterStart ==
  /\ pc[Master] = "boot"
  /\ topology' = [topology EXCEPT ![Master] = axiom_topology_init]
  /\ node_id' = [node_id EXCEPT ![Master] = MASTER_ID]
  /\ next_id' = [next_id EXCEPT ![Master] = MASTER_ID]
  /\ EnterPhase(Master, MASTER_ID, axiom_routing_init)
  /\ UNCHANGED <<link, chan, start_node_index, src_interface, todo, faults, waitFault>>

\* Mutant of MustAsk: neighbours already known are asked again.
MustAsk_Always(b) == Connected(b, if_idx[b])

\* the neighbour behind the interface must be asked for its id
MustAsk(b) ==
  /\ Connected(b, if_idx[b])
  /\ topology[b][<<node_id[b], if_idx[b]>>] = NULL_NODE

SkipInterface(b) ==
  /\ pc[b] = "scan" /\ if_idx[b] < IFNUM /\ ~MustAsk(b)
  /\ if_idx' = [if_idx EXCEPT ![b] = @ + 1]
  /\ UNCHANGED <<link, chan, pc, node_id, next_id, start_node_index, src_interface,
                 topology, routing, todo, faults, waitFault>>

AskNeighbour(b) ==
  /\ pc[b] = "scan" /\ if_idx[b] < IFNUM /\ MustAsk(b)
  /\ chan' = Send(chan, b, if_idx[b], Msg("REQ_ID", node_id[b], 0, 0, 0))
  /\ pc' = [pc EXCEPT ![b] = "waitRsp"]
  /\ UNCHANGED <<link, node_id, next_id, if_idx, start_node_index, src_interface,
                 topology, routing, todo, faults, waitFault>>

EndOfScan(b) ==
  /\ pc[b] = "scan" /\ if_idx[b] = IFNUM
  /\ LeavePhase(b)
  /\ UNCHANGED <<link, chan, node_id, next_id, if_idx, start_node_index, src_interface,
                 topology, routing, faults, waitFault>>

\* "I am node X, I'm on interface Y"
RecvRspId(b, i) ==
  /\ pc[b] = "waitRsp" /\ Waiting(b, i) /\ First(b, i).command = "RSP_ID"
  /\ topology' = [topology EXCEPT ![b] =
       RecordLink(@, node_id[b], i, First(b, i).src_node, First(b, i).src_if)]
  /\ chan' = Drop(b, i)
  /\ pc' = [pc EXCEPT ![b] = "scan"]
  /\ if_idx' = [if_idx EXCEPT ![b] = @ + 1]
  /\ UNCHANGED <<link, node_id, next_id, start_node_index, src_interface, routing, todo,
                 faults, waitFault>>

\* "I do not know, I'm on interface Y": the neighbour gets the next id
RecvRspNoId(b, i) ==
  /\ pc[b] = "waitRsp" /\ Waiting(b, i) /\ First(b, i).command = "RSP_NOID"
  /\ LET new == IncId(next_id[b]) IN
       /\ next_id' = [next_id EXCEPT ![b] = new]
       /\ chan' = Send(Drop(b, i), b, if_idx[b], Msg("SETID", node_id[b], new, 0, 0))
       /\ routing' = [routing EXCEPT ![b][new] = axiom_codify_routing_mask(if_idx[b])]
       /\ topology' = [topology EXCEPT ![b] =
            RecordLink(@, node_id[b], if_idx[b], new, First(b, i).src_if)]
  /\ pc' = [pc EXCEPT ![b] = "sendStart"]
  /\ UNCHANGED <<link, node_id, if_idx, start_node_index, src_interface, todo, faults,
                 waitFault>>

\* any other command: the loop over the interfaces is left
RecvUnexpected(b, i) ==
  /\ pc[b] = "waitRsp" /\ Waiting(b, i)
  /\ First(b, i).command \notin {"RSP_ID", "RSP_NOID"}
  /\ chan' = Drop(b, i)
  /\ LeavePhase(b)
  /\ UNCHANGED <<link, node_id, next_id, if_idx, start_node_index, src_interface,
                 topology, routing, faults, waitFault>>

\* Mutant of SendStart: the loop goes on without waiting for the neighbour.
SendStart_NoWait(b) ==
  /\ pc[b] = "sendStart"
  /\ chan' = Send(chan, b, if_idx[b], Msg("START", node_id[b], next_id[b], 0, 0))
  /\ pc' = [pc EXCEPT ![b] = "scan"]
  /\ if_idx' = [if_idx EXCEPT ![b] = @ + 1]
  /\ UNCHANGED <<link, node_id, next_id, start_node_index, src_interface, topology, routing,
                 todo, faults, waitFault>>

SendStart(b) ==
  /\ pc[b] = "sendStart"
  /\ chan' = Send(chan, b, if_idx[b], Msg("START", node_id[b], next_id[b], 0, 0))
  /\ start_node_index' = [start_node_index EXCEPT ![b] = next_id[b]]
  /\ pc' = [pc EXCEPT ![b] = "waitTopo"]
  /\ UNCHANGED <<link, node_id, next_id, if_idx, src_interface, topology, routing, todo,
                 faults, waitFault>>

-----------------------------------------------------------------------------
(* discover_phase, the loop that waits until the neighbour has finished *)

\* Mutant of AnswerRequest: a board that waits does not answer.
AnswerRequest_Silent(b, i) ==
  /\ pc[b] = "waitTopo" /\ Waiting(b, i) /\ First(b, i).command = "REQ_ID"
  /\ chan' = Drop(b, i)
  /\ UNCHANGED <<link, pc, node_id, next_id, if_idx, start_node_index, src_interface,
                 topology, routing, todo, faults, waitFault>>

\* a board further down asks who is behind one of its interfaces
AnswerRequest(b, i) ==
  /\ pc[b] = "waitTopo" /\ Waiting(b, i) /\ First(b, i).command = "REQ_ID"
  /\ chan' = Send(Drop(b, i), b, i, Msg("RSP_ID", node_id[b], First(b, i).src_node, i, 0))
  /\ UNCHANGED <<link, pc, node_id, next_id, if_idx, start_node_index, src_interface,
                 topology, routing, todo, faults, waitFault>>

RecvTopology(b, i) ==
  /\ pc[b] = "waitTopo" /\ Waiting(b, i) /\ First(b, i).command = "TOPOLOGY"
  /\ LET m == First(b, i) IN
       topology' = [topology EXCEPT ![b] =
         RecordLink(@, m.src_node, m.src_if, m.dst_node, m.dst_if)]
  /\ chan' = Drop(b, i)
  /\ UNCHANGED <<link, pc, node_id, next_id, if_idx, start_node_index, src_interface,
                 routing, todo, faults, waitFault>>

\* Mutant of RecvEndTopology: the last id handed out is not taken over.
RecvEndTopology_KeepId(b, i) ==
  /\ pc[b] = "waitTopo" /\ Waiting(b, i) /\ First(b, i).command = "END_TOPOLOGY"
  /\ routing' = [routing EXCEPT ![b] =
       RouteRange(@, start_node_index[b], First(b, i).src_node, if_idx[b])]
  /\ chan' = Drop(b, i)
  /\ pc' = [pc EXCEPT ![b] = "scan"]
  /\ if_idx' = [if_idx EXCEPT ![b] = @ + 1]
  /\ UNCHANGED <<link, node_id, next_id, start_node_index, src_interface, topology, todo,
                 faults, waitFault>>

\* the token comes back with the last id handed out
RecvEndTopology(b, i) ==
  /\ pc[b] = "waitTopo" /\ Waiting(b, i) /\ First(b, i).command = "END_TOPOLOGY"
  /\ LET last == First(b, i).src_node IN
       /\ next_id' = [next_id EXCEPT ![b] = last]
       /\ routing' = [routing EXCEPT ![b] =
            RouteRange(@, start_node_index[b], last, if_idx[b])]
  /\ chan' = Drop(b, i)
  /\ pc' = [pc EXCEPT ![b] = "scan"]
  /\ if_idx' = [if_idx EXCEPT ![b] = @ + 1]
  /\ UNCHANGED <<link, node_id, start_node_index, src_interface, topology, todo, faults,
                 waitFault>>

RecvIgnored(b, i) ==
  /\ pc[b] = "waitTopo" /\ Waiting(b, i)
  /\ First(b, i).command \notin {"REQ_ID", "TOPOLOGY", "END_TOPOLOGY"}
  /\ chan' = Drop(b, i)
  /\ UNCHANGED <<link, pc, node_id, next_id, if_idx, start_node_index, src_interface,
                 topology, routing, todo, faults, waitFault>>

-----------------------------------------------------------------------------
(* axiom_slave_node_discovery, entered from the main loop on REQ_ID *)

\* The id is reset before it is looked at, so the answer is always RSP_NOID.
SlaveReqId(b, i) ==
  /\ pc[b] = "idle" /\ Waiting(b, i) /\ First(b, i).command = "REQ_ID"
  /\ LET src == First(b, i).src_node IN
       /\ routing' = [routing EXCEPT ![b] =
            RouteRange(axiom_routing_init, MASTER_ID, src, i)]
       /\ chan' = Send(Drop(b, i), b, i, Msg("RSP_NOID", 0, src, i, 0))
  /\ topology' = [topology EXCEPT ![b] = axiom_topology_init]
  /\ node_id' = [node_id EXCEPT ![b] = 0]
  /\ pc' = [pc EXCEPT ![b] = "waitSetId"]
  /\ UNCHANGED <<link, next_id, if_idx, start_node_index, src_interface, todo, faults,
                 waitFault>>

SlaveSetId(b, i) ==
  /\ pc[b] = "waitSetId" /\ Waiting(b, i) /\ First(b, i).command = "SETID"
  /\ node_id' = [node_id EXCEPT ![b] = First(b, i).dst_node]
  /\ chan' = Drop(b, i)
  /\ pc' = [pc EXCEPT ![b] = "waitStart"]
  /\ UNCHANGED <<link, next_id, if_idx, start_node_index, src_interface, topology,
                 routing, todo, faults, waitFault>>

SlaveStart(b, i) ==
  /\ pc[b] = "waitStart" /\ Waiting(b, i) /\ First(b, i).command = "START"
  /\ next_id' = [next_id EXCEPT ![b] = First(b, i).dst_node]
  /\ src_interface' = [src_interface EXCEPT ![b] = i]
  /\ chan' = Drop(b, i)
  /\ EnterPhase(b, node_id[b], routing[b])
  /\ UNCHANGED <<link, node_id, start_node_index, topology, todo, faults, waitFault>>

\* the two waiting loops, and the main loop, throw other messages away
SlaveDiscard(b, i) ==
  /\ Waiting(b, i)
  /\ \/ pc[b] = "waitSetId" /\ First(b, i).command # "SETID"
     \/ pc[b] = "waitStart" /\ First(b, i).command # "START"
     \/ pc[b] = "idle" /\ First(b, i).command # "REQ_ID"
  /\ chan' = Drop(b, i)
  /\ UNCHANGED <<link, pc, node_id, next_id, if_idx, start_node_index, src_interface,
                 topology, routing, todo, faults, waitFault>>

\* order in which the two nested loops visit the topology matrix
Before(c, d) == c[1] < d[1] \/ (c[1] = d[1] /\ c[2] < d[2])

\* w is the first interface of node m that leads to node n
FirstIf(t, n, m, w) ==
  t[<<m, w>>] = n /\ \A v \in Ifs : t[<<m, v>>] = n => w <= v

\* the interface found by the search loop, IFNUM if there is none
RemoteIf(t, n, m) ==
  IF \E w \in Ifs : FirstIf(t, n, m, w) THEN CHOOSE w \in Ifs : FirstIf(t, n, m, w)
  ELSE IFNUM

SendTopology(b) ==
  /\ pc[b] = "sendTopo"
  /\ \E c \in todo[b] :
       /\ \A d \in todo[b] \ {c} : Before(c, d)
       /\ LET m == topology[b][c] IN
            chan' = Send(chan, b, src_interface[b],
              Msg("TOPOLOGY", c[1], m, c[2], RemoteIf(topology[b], c[1], m)))
       /\ todo' = [todo EXCEPT ![b] = @ \ {c}]
  /\ UNCHANGED <<link, pc, node_id, next_id, if_idx, start_node_index, src_interface,
                 topology, routing, faults, waitFault>>

SendEndTopology(b) ==
  /\ pc[b] = "sendTopo" /\ todo[b] = {}
  /\ chan' = Send(chan, b, src_interface[b], Msg("END_TOPOLOGY", next_id[b], 0, 0, 0))
  /\ pc' = [pc EXCEPT ![b] = "done"]
  /\ UNCHANGED <<link, node_id, next_id, if_idx, start_node_index, src_interface,
                 topology, routing, todo, faults, waitFault>>

-----------------------------------------------------------------------------
(* A send or receive call that returns an error. Every error path of the   *)
(* two functions is here; discover_phase hides all of them from its caller. *)

CountFault == faults < MaxFaults /\ faults' = faults + 1

\* REQ_ID or START cannot be sent, or no response received: break
FailPhase(b) ==
  /\ \/ pc[b] = "scan" /\ if_idx[b] < IFNUM /\ MustAsk(b)
     \/ pc[b] \in {"waitRsp", "sendStart"}
  /\ LeavePhase(b)
  /\ CountFault
  /\ UNCHANGED <<link, chan, node_id, next_id, if_idx, start_node_index, src_interface,
                 topology, routing, waitFault>>

\* SETID cannot be sent: break, with next_id already incremented
FailSetId(b, i) ==
  /\ pc[b] = "waitRsp" /\ Waiting(b, i) /\ First(b, i).command = "RSP_NOID"
  /\ next_id' = [next_id EXCEPT ![b] = IncId(@)]
  /\ chan' = Drop(b, i)
  /\ LeavePhase(b)
  /\ CountFault
  /\ UNCHANGED <<link, node_id, if_idx, start_node_index, src_interface, topology,
                 routing, waitFault>>

\* Receiving fails, or RSP_ID cannot be sent, while the neighbour works: the
\* break only leaves the inner loop, and the next interface is polled.
FailWait(b) ==
  /\ pc[b] = "waitTopo"
  /\ \/ UNCHANGED chan
     \/ \E i \in Ifs : /\ Waiting(b, i) /\ First(b, i).command = "REQ_ID"
                       /\ chan' = Drop(b, i)
  /\ pc' = [pc EXCEPT ![b] = "scan"]
  /\ if_idx' = [if_idx EXCEPT ![b] = @ + 1]
  /\ CountFault
  /\ waitFault' = TRUE
  /\ UNCHANGED <<link, node_id, next_id, start_node_index, src_interface, topology,
                 routing, todo>>

\* RSP_NOID cannot be sent: back to the main loop, with everything reset
FailNoId(b, i) ==
  /\ pc[b] = "idle" /\ Waiting(b, i) /\ First(b, i).command = "REQ_ID"
  /\ routing' = [routing EXCEPT ![b] =
       RouteRange(axiom_routing_init, MASTER_ID, First(b, i).src_node, i)]
  /\ topology' = [topology EXCEPT ![b] = axiom_topology_init]
  /\ node_id' = [node_id EXCEPT ![b] = 0]
  /\ chan' = Drop(b, i)
  /\ CountFault
  /\ UNCHANGED <<link, pc, next_id, if_idx, start_node_index, src_interface, todo,
                 waitFault>>

\* the slave function returns an error: back to the main loop
FailSlave(b) ==
  /\ pc[b] \in {"waitSetId", "waitStart", "sendTopo"}
  /\ pc' = [pc EXCEPT ![b] = "idle"]
  /\ CountFault
  /\ UNCHANGED <<link, chan, node_id, next_id, if_idx, start_node_index, src_interface,
                 topology, routing, todo, waitFault>>

-----------------------------------------------------------------------------
Receive(b, i) ==
  \/ RecvRspId(b, i) \/ RecvRspNoId(b, i) \/ RecvUnexpected(b, i)
  \/ AnswerRequest(b, i) \/ RecvTopology(b, i) \/ RecvEndTopology(b, i)
  \/ RecvIgnored(b, i)
  \/ SlaveReqId(b, i) \/ SlaveSetId(b, i) \/ SlaveStart(b, i) \/ SlaveDiscard(b, i)

BoardStep(b) ==
  \/ SkipInterface(b) \/ AskNeighbour(b) \/ EndOfScan(b) \/ SendStart(b)
  \/ SendTopology(b) \/ SendEndTopology(b)
  \/ \E i \in Ifs : Receive(b, i)

Fault(b) ==
  \/ FailPhase(b) \/ FailWait(b) \/ FailSlave(b)
  \/ \E i \in Ifs : FailSetId(b, i) \/ FailNoId(b, i)

Next == MasterStart \/ \E b \in Boards : BoardStep(b) \/ Fault(b)

\* Every daemon keeps running: a board whose next call can return makes it.
Fairness == WF_vars(MasterStart) /\ \A b \in Boards : WF_vars(BoardStep(b))

Spec == Init /\ [][Next]_vars

FairSpec == Spec /\ Fairness

-----------------------------------------------------------------------------
(* Properties *)

HoldsToken(b) == pc[b] \in {"scan", "waitRsp", "sendStart", "sendTopo"}

\* m hands the token over: START goes down the tree, END_TOPOLOGY up
CarriesToken(m) == m.command \in {"START", "END_TOPOLOGY"}

\* Unless the inner loop of discover_phase has been left by one of its breaks,
\* at most one board of the cluster is at work, whatever other call fails: two
\* boards never scan at the same time, and none scans while the token is in
\* a START or END_TOPOLOGY message (lines 190-266: the sender of START only
\* answers requests until END_TOPOLOGY arrives).
OneToken ==
  ~waitFault =>
    /\ \A b, c \in Boards : HoldsToken(b) /\ HoldsToken(c) => b = c
    /\ \A p \in Ports : \A k \in 1 .. Len(chan[p]) :
         CarriesToken(chan[p][k]) =>
           /\ \A b \in Boards : ~HoldsToken(b)
           /\ \A q \in Ports : \A l \in 1 .. Len(chan[q]) :
                CarriesToken(chan[q][l]) => q = p /\ l = k

\* boards that were given an id by this discovery
Numbered == {b \in Boards : pc[b] \notin {"boot", "idle", "waitSetId"}}

\* Under the same condition two boards never hold the same id (line 155
\* increments a counter that travels with the token).
UniqueIds ==
  ~waitFault =>
    \A b, c \in Numbered : node_id[b] = node_id[c] => b = c

=============================================================================
