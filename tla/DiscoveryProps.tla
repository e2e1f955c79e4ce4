--------------------------- MODULE DiscoveryProps ----------------------------
(***************************************************************************)
(* What the discovery protocol achieves. All of it is about discoveries in *)
(* which no call has failed (faults = 0) unless it says otherwise.         *)
(***************************************************************************)
EXTENDS Discovery

\* the board that holds id n, for the ids in use
BoardOf(n) == CHOOSE b \in Numbered : node_id[b] = n

InUse(n) == \E b \in Numbered : node_id[b] = n

\* Every link a board has noted down, at any time, exists: node n really is
\* cabled on interface i to the node recorded (lines 139-141, 178-181, 235-237).
\* The far end of a link may still be waiting for its SETID.
TopologyTrue ==
  faults = 0 =>
    \A b \in Numbered : \A c \in Cells :
      LET n == c[1]
          m == topology[b][c]
      IN m # NULL_NODE /\ InUse(n) /\ InUse(m) =>
           /\ Connected(BoardOf(n), c[2])
           /\ link[<<BoardOf(n), c[2]>>][1] = BoardOf(m)

\* The search for the remote interface of a link (lines 419-422) always finds
\* one, so the receiver of TOPOLOGY never writes beyond a row of its matrix.
RemoteInterfaceFound ==
  faults = 0 =>
    \A p \in Ports : \A k \in 1 .. Len(chan[p]) : chan[p][k].dst_if \in Ifs

\* Nobody talks to a board that has ended its protocol: such a message would
\* not be answered and its sender would block (comment at lines 93-99).
FinishedLeftAlone ==
  faults = 0 =>
    \A p \in Ports : pc[p[1]] = "done" => chan[p] = <<>>

\* topology[n][i] of the cabled cluster, seen through the ids handed out
TrueTopology ==
  [c \in Cells |->
     IF InUse(c[1]) /\ Connected(BoardOf(c[1]), c[2])
     THEN node_id[link[<<BoardOf(c[1]), c[2]>>][1]]
     ELSE NULL_NODE]

\* every board that can be reached is numbered, the ids are
\* MASTER_ID .. last_node - 1, and the master's matrix is the cabling
Complete ==
  /\ \A p \in DOMAIN link : p[1] \in Numbered => link[p][1] \in Numbered
  /\ {node_id[b] : b \in Numbered} = MASTER_ID .. next_id[Master]
  /\ topology[Master] = TrueTopology

\* When axiom_master_node_discovery returns and no call has failed, it has
\* found every reachable board and every link and invented none, also where
\* boards held ids of an earlier discovery (line 324).
MasterComplete == pc[Master] = "done" /\ faults = 0 => Complete

\* "\return AXIOM_RET_OK on success, otherwise AXIOM_RET_ERROR"
\* (axiom_discovery_protocol.h:35). discover_phase always returns AXIOM_RET_OK.
OkMeansSuccess == pc[Master] = "done" => Complete

\* the board reached from b after k hops of a message addressed to node n
Hop(b, n) ==
  IF node_id[b] = n \/ routing[b][n] \cap Ifs = {} THEN b
  ELSE link[<<b, CHOOSE i \in routing[b][n] : TRUE>>][1]

Reaches(b, n) ==
  LET after[k \in 0 .. Cardinality(Boards)] ==
        IF k = 0 THEN b ELSE Hop(after[k - 1], n)
  IN node_id[after[Cardinality(Boards)]] = n

\* The provisional tables written during discovery carry the messages of the
\* delivery phase: hop by hop, the master reaches every board and every board
\* reaches the master (lines 170-174, 252-259, 331-338).
InterimRoutes ==
  pc[Master] = "done" /\ faults = 0 =>
    \A b \in Numbered : Reaches(Master, node_id[b]) /\ Reaches(b, MASTER_ID)

\* "We can reach all nodes <= src_node_id through src_interface" (line 333),
\* for the board src_node_id that sent the first REQ_ID.
LowerIdsReachable ==
  pc[Master] = "done" /\ faults = 0 =>
    \A b \in Numbered \ {Master} :
      \A n \in MASTER_ID .. node_id[link[<<b, src_interface[b]>>][1]] : Reaches(b, n)

\* No interleaving blocks the cluster: the master gets through discovery.
MasterFinishes == <>(pc[Master] = "done" \/ faults > 0)

\* As long as no call fails, the token protocol implements the sequential
\* depth-first numbering.
DFS == INSTANCE DfsNumbering WITH
         id <- [b \in Boards |-> IF b \in Numbered THEN node_id[b] ELSE 0],
         open <- {b \in Boards :
                    pc[b] \in {"waitStart", "scan", "waitRsp", "sendStart", "waitTopo"}}
DfsSpec == DFS!Init /\ [][faults' = 0 => DFS!Next \/ UNCHANGED DFS!vars]_vars
=============================================================================
