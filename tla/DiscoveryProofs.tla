--------------------------- MODULE DiscoveryProofs ---------------------------
(***************************************************************************)
(* Proofs about the discovery protocol, for every number of boards and     *)
(* interfaces and every cabling: type correctness, and that there is never *)
(* more than one token (OneToken).                                         *)
(***************************************************************************)
EXTENDS Discovery, TLAPS

USE MasterAssumption, IfAssumption, IdAssumption, FaultAssumption

-----------------------------------------------------------------------------
(* Types of the helper operators *)

\* The byte-wide increment of an id is an id (axiom_node_id_t, line 155).
LEMMA IncIdType == ASSUME NEW n \in NodeId PROVE IncId(n) \in NodeId
  BY DEF IncId, NodeId

\* A write to the topology matrix hits one of its cells.
LEMMA SlotType ==
  ASSUME NEW n \in NodeId, NEW i \in 0 .. IFNUM
  PROVE  Slot(n, i) \in Cells
  BY DEF Slot, Cells, NodeId, Ifs

\* Recording a link keeps the matrix a matrix of node ids.
LEMMA RecordLinkType ==
  ASSUME NEW t \in [Cells -> NodeId], NEW n \in NodeId, NEW i \in 0 .. IFNUM,
         NEW m \in NodeId, NEW j \in 0 .. IFNUM
  PROVE  RecordLink(t, n, i, m, j) \in [Cells -> NodeId]
  BY SlotType DEF RecordLink

\* Setting a range of routes keeps the table a table of interface sets.
LEMMA RouteRangeType ==
  ASSUME NEW r \in [NodeId -> SUBSET (0 .. IFNUM)], NEW f, NEW l, NEW i \in Ifs
  PROVE  RouteRange(r, f, l, i) \in [NodeId -> SUBSET (0 .. IFNUM)]
  BY DEF RouteRange, axiom_codify_routing_mask, Ifs

\* The message constructor builds messages.
LEMMA MsgType ==
  ASSUME NEW c \in Commands, NEW s \in NodeId, NEW d \in NodeId,
         NEW i \in 0 .. IFNUM, NEW j \in 0 .. IFNUM
  PROVE  Msg(c, s, d, i, j) \in Messages
  BY DEF Msg, Messages

\* Sending and receiving keep the queues queues of messages.
LEMMA SendType ==
  ASSUME NEW ch \in [Ports -> Seq(Messages)], NEW b, NEW i, NEW m \in Messages
  PROVE  Send(ch, b, i, m) \in [Ports -> Seq(Messages)]
<1> DEFINE q == link[<<b, i>>]
<1>1. CASE q \in Ports
  <2>1. Append(ch[q], m) \in Seq(Messages)
    BY <1>1
  <2> QED
    BY Zenon, <2>1 DEF Send
<1>2. CASE q \notin Ports
  BY Zenon, <1>2 DEF Send
<1> QED
  BY <1>1, <1>2

\* What axiom_recv_raw_discovery returns is a message, and the queues stay queues.
LEMMA ReceiveType ==
  ASSUME chan \in [Ports -> Seq(Messages)], NEW b \in Boards, NEW i \in Ifs, Waiting(b, i)
  PROVE  /\ First(b, i) \in Messages
         /\ Drop(b, i) \in [Ports -> Seq(Messages)]
  BY DEF Waiting, First, Drop, Ports

\* The interface found for a link is an interface, or IFNUM.
LEMMA RemoteIfType ==
  ASSUME NEW t, NEW n, NEW m
  PROVE  RemoteIf(t, n, m) \in 0 .. IFNUM
  BY DEF RemoteIf, Ifs

-----------------------------------------------------------------------------
(* Type correctness *)

\* Between the request and the end of the inner loop, i is an interface.
IndexInv ==
  \A b \in Boards : pc[b] \in {"waitRsp", "sendStart", "waitTopo"} => if_idx[b] \in Ifs

TypeInv == TypeOK /\ IndexInv

\* What leaving discover_phase does to pc and todo.
LEMMA LeavePhaseType ==
  ASSUME TypeInv, NEW b \in Boards, LeavePhase(b)
  PROVE  /\ pc' \in [Boards -> PCs]
         /\ todo' \in [Boards -> SUBSET Cells]
         /\ if_idx' = if_idx => IndexInv'
  BY DEF TypeInv, TypeOK, IndexInv, LeavePhase, AfterPhase, KnownCells, PCs

\* The state before discovery is well typed.
LEMMA InitType == Init => TypeInv
<1> SUFFICES ASSUME Init PROVE TypeInv
  OBVIOUS
<1>1. IsCabling(link)
  BY CablingAssumption DEF Init
<1>2. chan \in [Ports -> Seq(Messages)]
  BY DEF Init
<1>3. /\ topology \in [Boards -> [Cells -> NodeId]]
      /\ routing \in [Boards -> [NodeId -> SUBSET (0 .. IFNUM)]]
  BY DEF Init, axiom_topology_init, axiom_routing_init, NodeId, NULL_NODE
<1>4. pc \in [Boards -> PCs] /\ IndexInv
  BY DEF Init, PCs, IndexInv
<1>5. node_id \in [Boards -> NodeId]
  BY DEF Init
<1>6. 0 \in NodeId /\ 0 \in Ifs /\ 0 \in 0 .. IFNUM
  BY DEF NodeId, Ifs
<1>7. /\ next_id \in [Boards -> NodeId]
      /\ start_node_index \in [Boards -> NodeId]
      /\ if_idx \in [Boards -> 0 .. IFNUM]
      /\ src_interface \in [Boards -> Ifs]
  BY <1>6 DEF Init
<1>8. todo \in [Boards -> SUBSET Cells] /\ faults \in 0 .. MaxFaults
  BY DEF Init
<1>9. waitFault \in BOOLEAN
  BY Zenon DEF Init
<1> QED
  BY <1>1, <1>2, <1>3, <1>4, <1>5, <1>7, <1>8, <1>9 DEF TypeInv, TypeOK

\* The steps of the board that scans its interfaces.
LEMMA ScanType ==
  ASSUME TypeInv, NEW b \in Boards,
         SkipInterface(b) \/ AskNeighbour(b) \/ EndOfScan(b) \/ SendStart(b)
  PROVE  TypeInv'
<1> USE DEF TypeInv, TypeOK
<1>1. CASE SkipInterface(b)
  BY <1>1 DEF SkipInterface, IndexInv
<1>2. CASE AskNeighbour(b)
  <2>1. Msg("REQ_ID", node_id[b], 0, 0, 0) \in Messages
    <3>1. "REQ_ID" \in Commands /\ node_id[b] \in NodeId /\ 0 \in NodeId /\ 0 \in 0 .. IFNUM
      BY DEF Commands, NodeId
    <3> QED
      BY Zenon, <3>1, MsgType
  <2>2. chan' \in [Ports -> Seq(Messages)]
    BY Zenon, <1>2, <2>1, SendType DEF AskNeighbour
  <2>3. pc' \in [Boards -> PCs] /\ IndexInv'
    BY <1>2 DEF AskNeighbour, IndexInv, Ifs, PCs
  <2> QED
    BY <1>2, <2>2, <2>3 DEF AskNeighbour
<1>3. CASE EndOfScan(b)
  BY <1>3, LeavePhaseType DEF EndOfScan
<1>4. CASE SendStart(b)
  <2>1. Msg("START", node_id[b], next_id[b], 0, 0) \in Messages
    BY MsgType DEF Commands
  <2>2. chan' \in [Ports -> Seq(Messages)]
    BY Zenon, <1>4, <2>1, SendType DEF SendStart
  <2>3. pc' \in [Boards -> PCs] /\ IndexInv'
    BY <1>4 DEF SendStart, IndexInv, PCs
  <2> QED
    BY <1>4, <2>2, <2>3 DEF SendStart
<1> QED
  BY Zenon, <1>1, <1>2, <1>3, <1>4

\* The answers of a neighbour to REQ_ID.
LEMMA ResponseType ==
  ASSUME TypeInv, NEW b \in Boards, NEW i \in Ifs,
         RecvRspId(b, i) \/ RecvRspNoId(b, i) \/ RecvUnexpected(b, i) \/ FailSetId(b, i)
  PROVE  TypeInv'
<1> USE DEF TypeInv, TypeOK
<1>1. Waiting(b, i)
  BY DEF RecvRspId, RecvRspNoId, RecvUnexpected, FailSetId
<1> DEFINE m == First(b, i)
<1>m. /\ m \in Messages /\ Drop(b, i) \in [Ports -> Seq(Messages)]
      /\ m.src_node \in NodeId /\ m.src_if \in 0 .. IFNUM
  BY Zenon, <1>1, ReceiveType DEF Messages
<1>i. Ifs \subseteq 0 .. IFNUM
  BY DEF Ifs
<1>2. CASE RecvRspId(b, i)
  <2>1. topology' \in [Boards -> [Cells -> NodeId]]
    <3>1. RecordLink(topology[b], node_id[b], i, m.src_node, m.src_if) \in [Cells -> NodeId]
      BY Zenon, <1>m, <1>i, RecordLinkType
    <3> QED
      BY <1>2, <3>1 DEF RecvRspId
  <2>2. pc' \in [Boards -> PCs] /\ if_idx' \in [Boards -> 0 .. IFNUM] /\ IndexInv'
    BY <1>2 DEF RecvRspId, IndexInv, PCs, Ifs
  <2> QED
    BY <1>2, <1>m, <2>1, <2>2 DEF RecvRspId
<1>3. CASE RecvRspNoId(b, i)
  <2> DEFINE new == IncId(next_id[b])
  <2>n. new \in NodeId /\ if_idx[b] \in Ifs
    BY <1>3, IncIdType DEF RecvRspNoId, IndexInv
  <2>1. topology' \in [Boards -> [Cells -> NodeId]]
    <3>1. RecordLink(topology[b], node_id[b], if_idx[b], new, m.src_if) \in [Cells -> NodeId]
      BY Zenon, <1>m, <1>i, <2>n, RecordLinkType
    <3> QED
      BY <1>3, <3>1 DEF RecvRspNoId
  <2>2. chan' \in [Ports -> Seq(Messages)]
    <3>1. Msg("SETID", node_id[b], new, 0, 0) \in Messages
      BY <2>n, MsgType DEF Commands
    <3> QED
      BY Zenon, <1>3, <1>m, <3>1, SendType DEF RecvRspNoId
  <2>3. routing' \in [Boards -> [NodeId -> SUBSET (0 .. IFNUM)]]
    BY <1>3, <2>n, <1>i DEF RecvRspNoId, axiom_codify_routing_mask
  <2>4. pc' \in [Boards -> PCs] /\ IndexInv'
    BY <1>3 DEF RecvRspNoId, IndexInv, PCs
  <2> QED
    BY SMTT(30), <1>3, <2>n, <2>1, <2>2, <2>3, <2>4 DEF RecvRspNoId
<1>4. CASE RecvUnexpected(b, i)
  BY <1>4, <1>m, LeavePhaseType DEF RecvUnexpected
<1>5. CASE FailSetId(b, i)
  <2>1. next_id' \in [Boards -> NodeId]
    BY <1>5, IncIdType DEF FailSetId
  <2> QED
    BY <1>5, <1>m, <2>1, LeavePhaseType DEF FailSetId, CountFault
<1> QED
  BY Zenon, <1>2, <1>3, <1>4, <1>5

\* The loop that waits for END_TOPOLOGY.
LEMMA WaitType ==
  ASSUME TypeInv, NEW b \in Boards, NEW i \in Ifs,
         \/ AnswerRequest(b, i) \/ RecvTopology(b, i) \/ RecvEndTopology(b, i)
         \/ RecvIgnored(b, i)
  PROVE  TypeInv'
<1> USE DEF TypeInv, TypeOK
<1>1. Waiting(b, i)
  BY DEF AnswerRequest, RecvTopology, RecvEndTopology, RecvIgnored
<1> DEFINE m == First(b, i)
<1>m. /\ m \in Messages /\ Drop(b, i) \in [Ports -> Seq(Messages)]
      /\ m.src_node \in NodeId /\ m.src_if \in 0 .. IFNUM
      /\ m.dst_node \in NodeId /\ m.dst_if \in 0 .. IFNUM
  BY Zenon, <1>1, ReceiveType DEF Messages
<1>i. i \in 0 .. IFNUM /\ 0 \in 0 .. IFNUM
  BY DEF Ifs
<1>2. CASE AnswerRequest(b, i)
  <2>1. Msg("RSP_ID", node_id[b], m.src_node, i, 0) \in Messages
    <3>1. node_id[b] \in NodeId /\ "RSP_ID" \in Commands
      BY DEF Commands
    <3> QED
      BY Zenon, <3>1, <1>m, <1>i, MsgType
  <2>2. chan' \in [Ports -> Seq(Messages)]
    BY Zenon, <1>2, <1>m, <2>1, SendType DEF AnswerRequest
  <2> QED
    BY <1>2, <2>2 DEF AnswerRequest, IndexInv
<1>3. CASE RecvTopology(b, i)
  <2>1. RecordLink(topology[b], m.src_node, m.src_if, m.dst_node, m.dst_if)
          \in [Cells -> NodeId]
    BY Zenon, <1>m, RecordLinkType
  <2>2. topology' \in [Boards -> [Cells -> NodeId]]
    BY <1>3, <2>1 DEF RecvTopology
  <2> QED
    BY SMTT(30), <1>3, <1>m, <2>2 DEF RecvTopology, IndexInv
<1>4. CASE RecvEndTopology(b, i)
  <2>1. if_idx[b] \in Ifs
    BY <1>4 DEF RecvEndTopology, IndexInv
  <2>2. routing' \in [Boards -> [NodeId -> SUBSET (0 .. IFNUM)]]
    <3> DEFINE r == routing[b]
               n == start_node_index[b]
               l == m.src_node
               j == if_idx[b]
    <3>1. r \in [NodeId -> SUBSET (0 .. IFNUM)]
      OBVIOUS
    <3>2. RouteRange(r, n, l, j) \in [NodeId -> SUBSET (0 .. IFNUM)]
      <4> HIDE DEF r, n, l
      <4> QED
        BY <2>1, <3>1, RouteRangeType
    <3> QED
      BY <1>4, <3>2 DEF RecvEndTopology
  <2>3. pc' \in [Boards -> PCs] /\ if_idx' \in [Boards -> 0 .. IFNUM] /\ IndexInv'
    BY <1>4, <2>1 DEF RecvEndTopology, IndexInv, PCs, Ifs
  <2> QED
    BY SMTT(30), <1>4, <1>m, <2>2, <2>3 DEF RecvEndTopology
<1>5. CASE RecvIgnored(b, i)
  BY SMTT(30), <1>5, <1>m DEF RecvIgnored, IndexInv
<1> QED
  BY Zenon, <1>2, <1>3, <1>4, <1>5

\* The slave's side of the protocol.
LEMMA SlaveType ==
  ASSUME TypeInv, NEW b \in Boards, NEW i \in Ifs,
         \/ SlaveReqId(b, i) \/ SlaveSetId(b, i) \/ SlaveStart(b, i)
         \/ SlaveDiscard(b, i) \/ FailNoId(b, i)
  PROVE  TypeInv'
<1> USE DEF TypeInv, TypeOK
<1>1. Waiting(b, i)
  BY SMTT(30) DEF SlaveReqId, SlaveSetId, SlaveStart, SlaveDiscard, FailNoId
<1> DEFINE m == First(b, i)
<1>m. /\ m \in Messages /\ Drop(b, i) \in [Ports -> Seq(Messages)]
      /\ m.src_node \in NodeId /\ m.dst_node \in NodeId
  BY Zenon, <1>1, ReceiveType DEF Messages
<1>i. 0 \in NodeId /\ i \in 0 .. IFNUM /\ 0 \in 0 .. IFNUM
  BY DEF Ifs, NodeId
<1>r. RouteRange(axiom_routing_init, MASTER_ID, m.src_node, i)
        \in [NodeId -> SUBSET (0 .. IFNUM)]
  <2>1. axiom_routing_init \in [NodeId -> SUBSET (0 .. IFNUM)]
    BY DEF axiom_routing_init
  <2> QED
    BY <2>1, RouteRangeType
<1>t. axiom_topology_init \in [Cells -> NodeId]
  BY DEF axiom_topology_init, NULL_NODE, NodeId
<1>2. CASE SlaveReqId(b, i)
  <2>1. Msg("RSP_NOID", 0, m.src_node, i, 0) \in Messages
    BY <1>m, <1>i, MsgType DEF Commands
  <2>2. chan' \in [Ports -> Seq(Messages)]
    BY Zenon, <1>2, <1>m, <2>1, SendType DEF SlaveReqId
  <2>3. /\ routing' \in [Boards -> [NodeId -> SUBSET (0 .. IFNUM)]]
        /\ topology' \in [Boards -> [Cells -> NodeId]]
        /\ node_id' \in [Boards -> NodeId]
    BY <1>2, <1>r, <1>t, <1>i DEF SlaveReqId
  <2>4. pc' \in [Boards -> PCs] /\ IndexInv'
    BY <1>2 DEF SlaveReqId, IndexInv, PCs
  <2> QED
    BY Zenon, <1>2, <2>2, <2>3, <2>4 DEF SlaveReqId
<1>3. CASE SlaveSetId(b, i)
  BY SMTT(30), <1>3, <1>m DEF SlaveSetId, IndexInv, PCs
<1>4. CASE SlaveStart(b, i)
  <2>1. routing' \in [Boards -> [NodeId -> SUBSET (0 .. IFNUM)]]
    BY <1>4 DEF SlaveStart, EnterPhase, axiom_codify_routing_mask, IF_LOOPBACK
  <2>2. /\ pc' \in [Boards -> PCs] /\ if_idx' \in [Boards -> 0 .. IFNUM] /\ IndexInv'
        /\ next_id' \in [Boards -> NodeId] /\ src_interface' \in [Boards -> Ifs]
    BY <1>4, <1>m, <1>i DEF SlaveStart, EnterPhase, IndexInv, PCs
  <2> QED
    BY SMTT(30), <1>4, <1>m, <2>1, <2>2 DEF SlaveStart
<1>5. CASE SlaveDiscard(b, i)
  BY SMTT(30), <1>5, <1>m DEF SlaveDiscard, IndexInv
<1>6. CASE FailNoId(b, i)
  <2>1. /\ routing' \in [Boards -> [NodeId -> SUBSET (0 .. IFNUM)]]
        /\ topology' \in [Boards -> [Cells -> NodeId]]
        /\ node_id' \in [Boards -> NodeId]
    BY <1>6, <1>r, <1>t, <1>i DEF FailNoId
  <2> QED
    BY <1>6, <1>m, <2>1 DEF FailNoId, IndexInv, CountFault
<1> QED
  BY Zenon, <1>2, <1>3, <1>4, <1>5, <1>6

\* The master's entry into discover_phase.
LEMMA MasterStartType == ASSUME TypeInv, MasterStart PROVE TypeInv'
<1> USE DEF TypeInv, TypeOK
<1>1. topology' \in [Boards -> [Cells -> NodeId]]
  BY DEF MasterStart, axiom_topology_init, NULL_NODE, NodeId
<1>2. routing' \in [Boards -> [NodeId -> SUBSET (0 .. IFNUM)]]
  <2> DEFINE r == [axiom_routing_init EXCEPT ![MASTER_ID] = {IFNUM}]
  <2>1. r \in [NodeId -> SUBSET (0 .. IFNUM)]
    <3>1. axiom_routing_init \in [NodeId -> SUBSET (0 .. IFNUM)]
      BY DEF axiom_routing_init
    <3>2. {IFNUM} \in SUBSET (0 .. IFNUM)
      OBVIOUS
    <3> QED
      BY Zenon, <3>1, <3>2
  <2>2. routing' = [routing EXCEPT ![Master] = r]
    BY DEF MasterStart, EnterPhase, axiom_codify_routing_mask, IF_LOOPBACK
  <2> HIDE DEF r
  <2> QED
    BY <2>1, <2>2
<1>3. node_id' \in [Boards -> NodeId] /\ next_id' \in [Boards -> NodeId]
  BY DEF MasterStart, NodeId
<1>4. pc' \in [Boards -> PCs] /\ if_idx' \in [Boards -> 0 .. IFNUM] /\ IndexInv'
  BY DEF MasterStart, EnterPhase, IndexInv, PCs
<1> QED
  BY <1>1, <1>2, <1>3, <1>4 DEF MasterStart

\* The slave sends its part of the topology back.
LEMMA SendBackType ==
  ASSUME TypeInv, NEW b \in Boards, SendTopology(b) \/ SendEndTopology(b)
  PROVE  TypeInv'
<1> USE DEF TypeInv, TypeOK
<1>1. 0 \in NodeId /\ 0 \in 0 .. IFNUM
  BY DEF NodeId
<1>2. CASE SendTopology(b)
  <2>1. PICK c \in todo[b] :
          /\ LET m == topology[b][c] IN
               chan' = Send(chan, b, src_interface[b],
                 Msg("TOPOLOGY", c[1], m, c[2], RemoteIf(topology[b], c[1], m)))
          /\ todo' = [todo EXCEPT ![b] = @ \ {c}]
    BY Zenon, <1>2 DEF SendTopology
  <2> DEFINE m == topology[b][c]
  <2>2. c \in Cells /\ m \in NodeId
    OBVIOUS
  <2>3. c[1] \in NodeId /\ c[2] \in 0 .. IFNUM
    BY <2>2 DEF Cells, Ifs
  <2>4. Msg("TOPOLOGY", c[1], m, c[2], RemoteIf(topology[b], c[1], m)) \in Messages
    <3>1. "TOPOLOGY" \in Commands
      BY DEF Commands
    <3>2. RemoteIf(topology[b], c[1], m) \in 0 .. IFNUM
      BY Zenon, <2>2, <2>3, RemoteIfType
    <3> QED
      BY Zenon, <2>2, <2>3, <3>1, <3>2, MsgType
  <2>5. chan' \in [Ports -> Seq(Messages)]
    BY Zenon, <2>1, <2>4, SendType
  <2>6. todo' \in [Boards -> SUBSET Cells]
    BY <2>1
  <2> QED
    BY <1>2, <2>5, <2>6 DEF SendTopology, IndexInv
<1>3. CASE SendEndTopology(b)
  <2>1. Msg("END_TOPOLOGY", next_id[b], 0, 0, 0) \in Messages
    BY <1>1, MsgType DEF Commands
  <2>2. chan' \in [Ports -> Seq(Messages)]
    BY Zenon, <1>3, <2>1, SendType DEF SendEndTopology
  <2>3. pc' \in [Boards -> PCs] /\ IndexInv'
    BY <1>3 DEF SendEndTopology, IndexInv, PCs
  <2> QED
    BY SMTT(30), <1>3, <2>2, <2>3 DEF SendEndTopology
<1> QED
  BY <1>2, <1>3

\* The failing calls that do not belong to a received message.
LEMMA FailType ==
  ASSUME TypeInv, NEW b \in Boards, FailPhase(b) \/ FailWait(b) \/ FailSlave(b)
  PROVE  TypeInv'
<1> USE DEF TypeInv, TypeOK
<1>1. CASE FailPhase(b)
  BY <1>1, LeavePhaseType DEF FailPhase, CountFault
<1>2. CASE FailWait(b)
  <2>1. chan' \in [Ports -> Seq(Messages)]
    BY <1>2, ReceiveType DEF FailWait
  <2>2. pc' \in [Boards -> PCs] /\ if_idx' \in [Boards -> 0 .. IFNUM] /\ IndexInv'
    BY <1>2 DEF FailWait, IndexInv, PCs, Ifs
  <2> QED
    BY SMTT(30), <1>2, <2>1, <2>2 DEF FailWait, CountFault
<1>3. CASE FailSlave(b)
  BY <1>3 DEF FailSlave, CountFault, IndexInv, PCs
<1> QED
  BY <1>1, <1>2, <1>3

\* Every step of discovery keeps the types.
LEMMA NextType == TypeInv /\ [Next]_vars => TypeInv'
<1> SUFFICES ASSUME TypeInv, [Next]_vars PROVE TypeInv'
  OBVIOUS
<1>1. CASE MasterStart
  BY <1>1, MasterStartType
<1>2. ASSUME NEW b \in Boards, BoardStep(b) PROVE TypeInv'
  BY <1>2, ScanType, SendBackType, ResponseType, WaitType, SlaveType
  DEF BoardStep, Receive
<1>3. ASSUME NEW b \in Boards, Fault(b) PROVE TypeInv'
  BY <1>3, FailType, ResponseType, SlaveType DEF Fault
<1>4. CASE UNCHANGED vars
  BY <1>4 DEF vars, TypeInv, TypeOK, IndexInv
<1> QED
  BY <1>1, <1>2, <1>3, <1>4 DEF Next

\* Type correctness: ids stay one byte wide and no index leaves the matrix,
\* in axiom_discovery_protocol.c, with any number of failing calls.
THEOREM TypeCorrect == Spec => []TypeOK
<1>1. TypeInv => TypeOK
  BY DEF TypeInv
<1> QED
  BY <1>1, InitType, NextType, PTL DEF Spec

-----------------------------------------------------------------------------
(* One token *)

\* no message of ch hands the token over; at most one does
Quiet(ch) == \A p \in Ports : \A k \in 1 .. Len(ch[p]) : ~CarriesToken(ch[p][k])

AtMostOne(ch) ==
  \A p, q \in Ports : \A k \in 1 .. Len(ch[p]), l \in 1 .. Len(ch[q]) :
    CarriesToken(ch[p][k]) /\ CarriesToken(ch[q][l]) => p = q /\ k = l

NoHolder == \A b \in Boards : ~HoldsToken(b)

OneHolder == \A b, c \in Boards : HoldsToken(b) /\ HoldsToken(c) => b = c

\* OneToken, in the form in which the steps preserve it
TokenInv == ~waitFault => OneHolder /\ AtMostOne(chan) /\ (Quiet(chan) \/ NoHolder)

\* Before the master starts nothing is under way.
BootInv ==
  pc[Master] = "boot" =>
    (\A p \in Ports : chan[p] = <<>>) /\ (\A b \in Boards \ {Master} : pc[b] = "idle")

Inv == TypeInv /\ BootInv /\ TokenInv

\* Receiving a message from interface i of b shifts that queue by one place.
LEMMA DropShifts ==
  ASSUME TypeOK, NEW b \in Boards, NEW i \in Ifs, Waiting(b, i),
         NEW p \in Ports, NEW k \in 1 .. Len(Drop(b, i)[p])
  PROVE  \/ p = <<b, i>> /\ k + 1 \in 1 .. Len(chan[p]) /\ Drop(b, i)[p][k] = chan[p][k + 1]
         \/ p # <<b, i>> /\ k \in 1 .. Len(chan[p]) /\ Drop(b, i)[p][k] = chan[p][k]
<1>1. chan[p] \in Seq(Messages)
  BY DEF TypeOK
<1>2. CASE p = <<b, i>>
  <2>1. Drop(b, i)[p] = Tail(chan[p]) /\ chan[p] # <<>>
    BY <1>2 DEF Drop, TypeOK, Waiting
  <2> QED
    BY <1>1, <1>2, <2>1
<1>3. CASE p # <<b, i>>
  <2>1. Drop(b, i)[p] = chan[p]
    BY <1>3 DEF Drop, TypeOK
  <2> QED
    BY <1>3, <2>1
<1> QED
  BY <1>2, <1>3

\* Sending a message appends it to one queue.
LEMMA SendAppends ==
  ASSUME NEW ch \in [Ports -> Seq(Messages)], NEW b, NEW i, NEW m,
         NEW p \in Ports, NEW k \in 1 .. Len(Send(ch, b, i, m)[p])
  PROVE  \/ k \in 1 .. Len(ch[p]) /\ Send(ch, b, i, m)[p][k] = ch[p][k]
         \/ /\ p = link[<<b, i>>] /\ k = Len(ch[p]) + 1 /\ Send(ch, b, i, m)[p][k] = m
<1> DEFINE q == link[<<b, i>>]
<1>1. ch[p] \in Seq(Messages)
  OBVIOUS
<1>2. CASE p = q
  <2>1. Send(ch, b, i, m)[p] = Append(ch[p], m)
    BY <1>2 DEF Send
  <2> QED
    BY <1>1, <1>2, <2>1
<1>3. CASE p # q
  <2>1. Send(ch, b, i, m)[p] = ch[p]
    BY <1>3 DEF Send
  <2> QED
    BY <2>1
<1> QED
  BY <1>2, <1>3

\* What receiving does to the tokens in the queues.
LEMMA DropTokens ==
  ASSUME TypeOK, NEW b \in Boards, NEW i \in Ifs, Waiting(b, i)
  PROVE  /\ Quiet(chan) => Quiet(Drop(b, i)) /\ ~CarriesToken(First(b, i))
         /\ AtMostOne(chan) => AtMostOne(Drop(b, i))
         /\ AtMostOne(chan) /\ CarriesToken(First(b, i)) => Quiet(Drop(b, i))
<1> DEFINE d == Drop(b, i)
<1>1. /\ <<b, i>> \in Ports /\ 1 \in 1 .. Len(chan[<<b, i>>])
      /\ First(b, i) = chan[<<b, i>>][1]
  BY DEF TypeOK, Waiting, First, Ports
<1>2. \A p \in Ports : \A k \in 1 .. Len(d[p]) :
        \/ p = <<b, i>> /\ k + 1 \in 1 .. Len(chan[p]) /\ d[p][k] = chan[p][k + 1]
        \/ p # <<b, i>> /\ k \in 1 .. Len(chan[p]) /\ d[p][k] = chan[p][k]
  BY SMTT(30), DropShifts
<1> HIDE DEF d
<1>3. Quiet(chan) => Quiet(d) /\ ~CarriesToken(First(b, i))
  BY <1>1, <1>2 DEF Quiet
<1>4. ASSUME AtMostOne(chan) PROVE AtMostOne(d)
  <2> SUFFICES ASSUME NEW p \in Ports, NEW q \in Ports,
                      NEW k \in 1 .. Len(d[p]), NEW l \in 1 .. Len(d[q]),
                      CarriesToken(d[p][k]), CarriesToken(d[q][l])
               PROVE  p = q /\ k = l
    BY DEF AtMostOne
  <2>1. PICK K \in 1 .. Len(chan[p]) :
          d[p][k] = chan[p][K] /\ K = IF p = <<b, i>> THEN k + 1 ELSE k
    BY Zenon, <1>2
  <2>2. PICK M \in 1 .. Len(chan[q]) :
          d[q][l] = chan[q][M] /\ M = IF q = <<b, i>> THEN l + 1 ELSE l
    BY Zenon, <1>2
  <2>3. p = q /\ K = M
    <3>1. CarriesToken(chan[p][K]) /\ CarriesToken(chan[q][M])
      BY Zenon, <2>1, <2>2
    <3> QED
      BY Zenon, <1>4, <3>1 DEF AtMostOne
  <2> QED
    BY <2>1, <2>2, <2>3
<1>5. ASSUME AtMostOne(chan), CarriesToken(First(b, i)) PROVE Quiet(d)
  BY SMTT(30), <1>1, <1>2, <1>5 DEF AtMostOne, Quiet
<1> QED
  BY <1>3, <1>4, <1>5 DEF d

\* What sending does to the tokens in the queues.
LEMMA SendTokens ==
  ASSUME NEW ch \in [Ports -> Seq(Messages)], NEW b, NEW i, NEW m
  PROVE  /\ Quiet(ch) /\ ~CarriesToken(m) => Quiet(Send(ch, b, i, m))
         /\ AtMostOne(ch) /\ ~CarriesToken(m) => AtMostOne(Send(ch, b, i, m))
         /\ Quiet(ch) => AtMostOne(Send(ch, b, i, m))
<1> DEFINE s == Send(ch, b, i, m)
<1>1. \A p \in Ports : \A k \in 1 .. Len(s[p]) :
        \/ k \in 1 .. Len(ch[p]) /\ s[p][k] = ch[p][k]
        \/ p = link[<<b, i>>] /\ k = Len(ch[p]) + 1 /\ s[p][k] = m
  BY SendAppends
<1> HIDE DEF s
<1>2. Quiet(ch) /\ ~CarriesToken(m) => Quiet(s)
  BY <1>1 DEF Quiet
<1>3. ASSUME AtMostOne(ch), ~CarriesToken(m)
      PROVE  AtMostOne(s)
  <2> SUFFICES ASSUME NEW p \in Ports, NEW q \in Ports,
                      NEW k \in 1 .. Len(s[p]), NEW l \in 1 .. Len(s[q]),
                      CarriesToken(s[p][k]), CarriesToken(s[q][l])
               PROVE  p = q /\ k = l
    BY DEF AtMostOne
  <2>1. /\ k \in 1 .. Len(ch[p]) /\ s[p][k] = ch[p][k]
        /\ l \in 1 .. Len(ch[q]) /\ s[q][l] = ch[q][l]
    BY Zenon, <1>1, <1>3
  <2> QED
    BY Zenon, <1>3, <2>1 DEF AtMostOne
<1>4. ASSUME Quiet(ch)
      PROVE  AtMostOne(s)
  <2> SUFFICES ASSUME NEW p \in Ports, NEW q \in Ports,
                      NEW k \in 1 .. Len(s[p]), NEW l \in 1 .. Len(s[q]),
                      CarriesToken(s[p][k]), CarriesToken(s[q][l])
               PROVE  p = q /\ k = l
    BY DEF AtMostOne
  <2>1. /\ p = link[<<b, i>>] /\ k = Len(ch[p]) + 1
        /\ q = link[<<b, i>>] /\ l = Len(ch[q]) + 1
    BY Zenon, <1>1, <1>4 DEF Quiet
  <2> QED
    BY Zenon, <2>1
<1> QED
  BY <1>2, <1>3, <1>4 DEF s

\* No board but the master can take a step before the master starts.
LEMMA NotBoot ==
  ASSUME TypeOK, BootInv, NEW b \in Boards, BoardStep(b) \/ Fault(b)
  PROVE  pc[Master] # "boot"
<1> SUFFICES ASSUME pc[Master] = "boot" PROVE FALSE
  OBVIOUS
<1>1. pc[b] \in {"boot", "idle"}
  BY DEF BootInv
<1>2. \A i \in Ifs : ~Waiting(b, i)
  BY DEF BootInv, Waiting, Ports
<1>3. ~Fault(b)
  BY SMTT(30), <1>1, <1>2 DEF Fault, FailPhase, FailWait, FailSlave, FailSetId, FailNoId
<1>4. \A i \in Ifs : ~Receive(b, i)
  BY Zenon, <1>2 DEF Receive, RecvRspId, RecvRspNoId, RecvUnexpected, AnswerRequest,
       RecvTopology, RecvEndTopology, RecvIgnored, SlaveReqId, SlaveSetId, SlaveStart,
       SlaveDiscard
<1>5. ~BoardStep(b)
  BY Zenon, <1>1, <1>4 DEF BoardStep, SkipInterface, AskNeighbour, EndOfScan, SendStart,
       SendTopology, SendEndTopology
<1> QED
  BY <1>3, <1>5

\* A step of board b moves its own program counter only, never back to "boot".
LEMMA OwnPc ==
  ASSUME TypeOK, NEW b \in Boards, BoardStep(b) \/ Fault(b)
  PROVE  \E x \in PCs \ {"boot"} : pc' = pc \/ pc' = [pc EXCEPT ![b] = x]
<1>1. /\ AfterPhase(b) \in PCs \ {"boot"}
      /\ "idle" \in PCs \ {"boot"} /\ "scan" \in PCs \ {"boot"}
  BY DEF AfterPhase, PCs
<1>2. CASE Fault(b)
  <2>1. \/ pc' = pc \/ pc' = [pc EXCEPT ![b] = AfterPhase(b)]
        \/ pc' = [pc EXCEPT ![b] = "scan"] \/ pc' = [pc EXCEPT ![b] = "idle"]
    BY Zenon, <1>2 DEF Fault, FailPhase, FailWait, FailSlave, FailSetId, FailNoId, LeavePhase
  <2> QED
    BY Zenon, <1>1, <2>1
<1>3. ASSUME NEW i \in Ifs, Receive(b, i)
      PROVE  \E x \in PCs \ {"boot"} : pc' = pc \/ pc' = [pc EXCEPT ![b] = x]
  BY Zenon, <1>3 DEF Receive, RecvRspId, RecvRspNoId, RecvUnexpected, AnswerRequest,
       RecvTopology, RecvEndTopology, RecvIgnored, SlaveReqId, SlaveSetId, SlaveStart,
       SlaveDiscard, LeavePhase, EnterPhase, AfterPhase, PCs
<1>4. CASE BoardStep(b)
  BY Zenon, <1>3, <1>4 DEF BoardStep, SkipInterface, AskNeighbour, EndOfScan, SendStart,
       SendTopology, SendEndTopology, LeavePhase, AfterPhase, PCs
<1> QED
  BY <1>2, <1>4

\* Until the master has started, the cluster stays empty of messages, whatever step a board takes.
LEMMA BootStep ==
  ASSUME TypeOK, BootInv, NEW b \in Boards, BoardStep(b) \/ Fault(b)
  PROVE  BootInv'
<1>1. pc'[Master] # "boot"
  BY NotBoot, OwnPc DEF TypeOK
<1> QED
  BY <1>1 DEF BootInv

-----------------------------------------------------------------------------
(* How a step moves the token *)

\* b keeps the token, or a board without it does something else
LEMMA TokenStays ==
  ASSUME TypeOK, TokenInv, waitFault' = waitFault, NEW b \in Boards, NEW x,
         pc' = pc \/ pc' = [pc EXCEPT ![b] = x],
         pc' # pc /\ x \in {"scan", "waitRsp", "sendStart", "sendTopo"} => HoldsToken(b),
         AtMostOne(chan) => AtMostOne(chan'), Quiet(chan) => Quiet(chan')
  PROVE  TokenInv'
<1>1. OneHolder => OneHolder'
  BY DEF TypeOK, OneHolder, HoldsToken
<1>2. NoHolder => NoHolder'
  BY DEF TypeOK, NoHolder, HoldsToken
<1> QED
  BY <1>1, <1>2 DEF TokenInv, Quiet, AtMostOne

\* b gives the token away in a message
LEMMA TokenSent ==
  ASSUME TypeOK, TokenInv, waitFault' = waitFault, NEW b \in Boards, NEW x, HoldsToken(b),
         pc' = [pc EXCEPT ![b] = x], x \notin {"scan", "waitRsp", "sendStart", "sendTopo"},
         Quiet(chan) => AtMostOne(chan')
  PROVE  TokenInv'
<1>1. OneHolder => OneHolder' /\ NoHolder'
  BY DEF TypeOK, OneHolder, NoHolder, HoldsToken
<1> QED
  BY <1>1 DEF TokenInv, NoHolder, AtMostOne

\* b takes the token from a message
LEMMA TokenTaken ==
  ASSUME TypeOK, TokenInv, waitFault' = waitFault, NEW b \in Boards, NEW x,
         pc' = [pc EXCEPT ![b] = x], ~Quiet(chan),
         AtMostOne(chan) => AtMostOne(chan') /\ Quiet(chan')
  PROVE  TokenInv'
<1>1. NoHolder => OneHolder'
  BY DEF TypeOK, OneHolder, NoHolder, HoldsToken
<1> QED
  BY Zenon, <1>1 DEF TokenInv, AtMostOne, Quiet

\* The steps that receive a message of another kind, and answer it or not.
LEMMA ReceiveToken ==
  ASSUME TypeInv, TokenInv, NEW b \in Boards, NEW i \in Ifs,
         Receive(b, i) \/ FailSetId(b, i) \/ FailNoId(b, i)
  PROVE  TokenInv'
<1> DEFINE d == Drop(b, i)
<1>1. Waiting(b, i) /\ waitFault' = waitFault
  BY Zenon DEF Receive, RecvRspId, RecvRspNoId, RecvUnexpected, AnswerRequest, RecvTopology,
     RecvEndTopology, RecvIgnored, SlaveReqId, SlaveSetId, SlaveStart, SlaveDiscard,
     FailSetId, FailNoId
<1>t. TypeOK
  BY DEF TypeInv
<1>d. d \in [Ports -> Seq(Messages)]
  BY <1>1, <1>t, ReceiveType DEF TypeOK
<1>2. /\ Quiet(chan) => Quiet(d) /\ ~CarriesToken(First(b, i))
      /\ AtMostOne(chan) => AtMostOne(d)
      /\ AtMostOne(chan) /\ CarriesToken(First(b, i)) => Quiet(d)
  BY <1>1, <1>t, DropTokens
<1>s. ASSUME NEW m, NEW j, ~CarriesToken(m)
      PROVE  /\ Quiet(d) => Quiet(Send(d, b, j, m))
             /\ AtMostOne(d) => AtMostOne(Send(d, b, j, m))
  BY <1>d, <1>s, SendTokens
<1> HIDE DEF d
<1>3. CASE RecvRspNoId(b, i) \/ AnswerRequest(b, i) \/ SlaveReqId(b, i)
  <2>1. PICK m, j : ~CarriesToken(m) /\ chan' = Send(d, b, j, m)
    BY SMTT(30), <1>3 DEF RecvRspNoId, AnswerRequest, SlaveReqId, CarriesToken, Msg, d
  <2>2. (AtMostOne(chan) => AtMostOne(chan')) /\ (Quiet(chan) => Quiet(chan'))
    BY <1>2, <1>s, <2>1
  <2>3. PICK x : /\ pc' = pc \/ pc' = [pc EXCEPT ![b] = x]
                 /\ pc' # pc /\ x \in {"scan", "waitRsp", "sendStart", "sendTopo"}
                      => HoldsToken(b)
    <3>1. \/ pc[b] = "waitRsp" /\ pc' = [pc EXCEPT ![b] = "sendStart"]
          \/ pc' = pc \/ pc' = [pc EXCEPT ![b] = "waitSetId"]
      BY Zenon, <1>3 DEF RecvRspNoId, AnswerRequest, SlaveReqId
    <3>2. pc[b] = "waitRsp" => HoldsToken(b)
      BY DEF HoldsToken
    <3>3. "waitSetId" \notin {"scan", "waitRsp", "sendStart", "sendTopo"}
      OBVIOUS
    <3> QED
      BY Zenon, <3>1, <3>2, <3>3
  <2> QED
    BY Zenon, <1>1, <1>t, <2>2, <2>3, TokenStays
<1>4. CASE RecvEndTopology(b, i) \/ SlaveStart(b, i)
  <2>1. CarriesToken(First(b, i)) /\ chan' = d
    BY Zenon, <1>4 DEF RecvEndTopology, SlaveStart, CarriesToken, d
  <2>2. ~Quiet(chan) /\ (AtMostOne(chan) => AtMostOne(chan') /\ Quiet(chan'))
    BY <1>2, <2>1
  <2>3. pc' = [pc EXCEPT ![b] = "scan"]
    BY <1>4 DEF RecvEndTopology, SlaveStart, EnterPhase
  <2> QED
    BY Zenon, <1>1, <1>t, <2>2, <2>3, TokenTaken
<1>5. CASE \/ RecvRspId(b, i) \/ RecvUnexpected(b, i) \/ RecvTopology(b, i)
           \/ RecvIgnored(b, i) \/ SlaveSetId(b, i) \/ SlaveDiscard(b, i)
           \/ FailSetId(b, i) \/ FailNoId(b, i)
  <2>1. chan' = d
    BY Zenon, <1>5 DEF RecvRspId, RecvUnexpected, RecvTopology, RecvIgnored, SlaveSetId,
       SlaveDiscard, FailSetId, FailNoId, d
  <2>2. (AtMostOne(chan) => AtMostOne(chan')) /\ (Quiet(chan) => Quiet(chan'))
    BY <1>2, <2>1
  <2>3. PICK x : /\ pc' = pc \/ pc' = [pc EXCEPT ![b] = x]
                 /\ pc' # pc /\ x \in {"scan", "waitRsp", "sendStart", "sendTopo"}
                      => HoldsToken(b)
    BY Zenon, <1>5 DEF RecvRspId, RecvUnexpected, RecvTopology, RecvIgnored, SlaveSetId,
       SlaveDiscard, FailSetId, FailNoId, LeavePhase, HoldsToken
  <2> QED
    BY Zenon, <1>1, <1>t, <2>2, <2>3, TokenStays
<1> QED
  BY <1>3, <1>4, <1>5 DEF Receive

\* The steps that send a message or none.
LEMMA SendToken ==
  ASSUME TypeInv, TokenInv, NEW b \in Boards,
         \/ SkipInterface(b) \/ AskNeighbour(b) \/ EndOfScan(b) \/ SendStart(b)
         \/ SendTopology(b) \/ SendEndTopology(b) \/ FailPhase(b) \/ FailSlave(b)
  PROVE  TokenInv'
<1>t. TypeOK /\ waitFault' = waitFault
  BY Zenon DEF TypeInv, SkipInterface, AskNeighbour, EndOfScan, SendStart, SendTopology,
     SendEndTopology, FailPhase, FailSlave
<1>s. ASSUME NEW m, NEW j
      PROVE  /\ ~CarriesToken(m) /\ Quiet(chan) => Quiet(Send(chan, b, j, m))
             /\ ~CarriesToken(m) /\ AtMostOne(chan) => AtMostOne(Send(chan, b, j, m))
             /\ Quiet(chan) => AtMostOne(Send(chan, b, j, m))
  <2>1. chan \in [Ports -> Seq(Messages)]
    BY <1>t DEF TypeOK
  <2> QED
    BY <2>1, SendTokens
<1>1. CASE SkipInterface(b) \/ EndOfScan(b) \/ FailPhase(b) \/ FailSlave(b)
  <2>1. PICK x : /\ pc' = pc \/ pc' = [pc EXCEPT ![b] = x]
                 /\ pc' # pc /\ x \in {"scan", "waitRsp", "sendStart", "sendTopo"}
                      => HoldsToken(b)
    BY SMTT(30), <1>1 DEF SkipInterface, EndOfScan, FailPhase, FailSlave, LeavePhase, HoldsToken
  <2>2. chan' = chan
    BY SMTT(30), <1>1 DEF SkipInterface, EndOfScan, FailPhase, FailSlave
  <2> QED
    BY Zenon, <1>t, <2>1, <2>2, TokenStays
<1>2. CASE AskNeighbour(b) \/ SendTopology(b)
  <2>1. PICK m, j : ~CarriesToken(m) /\ chan' = Send(chan, b, j, m)
    BY Zenon, <1>2 DEF AskNeighbour, SendTopology, CarriesToken, Msg
  <2>2. (AtMostOne(chan) => AtMostOne(chan')) /\ (Quiet(chan) => Quiet(chan'))
    BY <1>s, <2>1
  <2>3. (pc' = pc \/ pc' = [pc EXCEPT ![b] = "waitRsp"]) /\ HoldsToken(b)
    BY Zenon, <1>2 DEF AskNeighbour, SendTopology, HoldsToken
  <2> QED
    BY <1>t, <2>2, <2>3, TokenStays
<1>3. CASE SendStart(b) \/ SendEndTopology(b)
  <2>1. PICK m, j : chan' = Send(chan, b, j, m)
    BY Zenon, <1>3 DEF SendStart, SendEndTopology
  <2>2. Quiet(chan) => AtMostOne(chan')
    BY <1>s, <2>1
  <2>3. HoldsToken(b)
    BY Zenon, <1>3 DEF SendStart, SendEndTopology, HoldsToken
  <2>4. CASE SendStart(b)
    <3>1. pc' = [pc EXCEPT ![b] = "waitTopo"]
      BY Zenon, <2>4 DEF SendStart
    <3> QED
      BY Zenon, <1>t, <2>2, <2>3, <3>1, TokenSent
  <2>5. CASE SendEndTopology(b)
    <3>1. pc' = [pc EXCEPT ![b] = "done"]
      BY Zenon, <2>5 DEF SendEndTopology
    <3> QED
      BY Zenon, <1>t, <2>2, <2>3, <3>1, TokenSent
  <2> QED
    BY <1>3, <2>4, <2>5
<1> QED
  BY <1>1, <1>2, <1>3

\* Before discovery there is no token.
LEMMA InitInv == Init => Inv
<1> SUFFICES ASSUME Init PROVE Inv
  OBVIOUS
<1>1. TypeInv
  BY InitType
<1>2. BootInv
  BY DEF Init, BootInv
<1>3. Quiet(chan) /\ AtMostOne(chan)
  BY DEF Init, Quiet, AtMostOne
<1>4. OneHolder
  BY DEF Init, OneHolder, HoldsToken
<1> QED
  BY <1>1, <1>2, <1>3, <1>4 DEF Inv, TokenInv

\* The master's start creates the first and only token.
LEMMA MasterStartInv == ASSUME Inv, MasterStart PROVE BootInv' /\ TokenInv'
<1>1. \A c \in Boards : c # Master => pc'[c] = "idle"
  BY DEF Inv, BootInv, MasterStart, EnterPhase, TypeInv, TypeOK
<1>2. pc'[Master] = "scan" /\ chan' = chan /\ \A p \in Ports : chan[p] = <<>>
  BY DEF Inv, BootInv, MasterStart, EnterPhase, TypeInv, TypeOK
<1>3. Quiet(chan)' /\ AtMostOne(chan)'
  BY <1>2 DEF Quiet, AtMostOne
<1>4. OneHolder'
  BY <1>1 DEF OneHolder, HoldsToken
<1> QED
  BY <1>2, <1>3, <1>4 DEF BootInv, TokenInv

\* Every step of discovery keeps the token unique.
LEMMA NextInv == Inv /\ [Next]_vars => Inv'
<1> SUFFICES ASSUME Inv, [Next]_vars PROVE Inv'
  OBVIOUS
<1>t. TypeInv /\ TypeOK /\ BootInv /\ TokenInv
  BY DEF Inv, TypeInv
<1>1. TypeInv'
  BY <1>t, NextType
<1>2. CASE MasterStart
  BY <1>1, <1>2, MasterStartInv DEF Inv
<1>3. ASSUME NEW b \in Boards, BoardStep(b) \/ Fault(b) PROVE Inv'
  <2>1. BootInv'
    BY <1>t, <1>3, BootStep
  <2>2. CASE BoardStep(b)
    <3>1. TokenInv'
      BY <1>t, <2>2, ReceiveToken, SendToken DEF BoardStep
    <3> QED
      BY <1>1, <2>1, <3>1 DEF Inv
  <2>3. CASE FailWait(b)
    <3>1. TokenInv'
      BY <2>3 DEF TokenInv, FailWait
    <3> QED
      BY <1>1, <2>1, <3>1 DEF Inv
  <2>4. CASE Fault(b) /\ ~FailWait(b)
    <3>1. TokenInv'
      BY <1>t, <2>4, ReceiveToken, SendToken DEF Fault
    <3> QED
      BY <1>1, <2>1, <3>1 DEF Inv
  <2> QED
    BY <1>3, <2>2, <2>3, <2>4
<1>4. CASE UNCHANGED vars
  <2>1. BootInv' /\ TokenInv'
    BY <1>t, <1>4 DEF vars, BootInv, TokenInv, OneHolder, NoHolder, HoldsToken, Quiet,
       AtMostOne
  <2> QED
    BY <1>1, <2>1 DEF Inv
<1> QED
  BY <1>2, <1>3, <1>4 DEF Next

\* At most one board is at work, whatever calls fail outside the inner loop
\* of discover_phase (axiom_discovery_protocol.c, lines 190-266).
THEOREM OneTokenHolds == Spec => []OneToken
<1>1. Inv => OneToken
  BY DEF Inv, TokenInv, OneToken, OneHolder, NoHolder, AtMostOne, Quiet
<1> QED
  BY <1>1, InitInv, NextInv, PTL DEF Spec
=============================================================================
