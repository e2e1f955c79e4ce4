--------------------------- MODULE RoutingDelivery ---------------------------
(***************************************************************************)
(* The whole of axiom_discovery_master and axiom_discovery_slave           *)
(* (axiom_discovery_node.c): discovery, then the computation of the tables *)
(* by the master, their delivery, and the switch of every board to its     *)
(* final table (axiom_routing.c from line 211).                            *)
(*                                                                         *)
(* The tables travel in raw messages that the NICs route hop by hop with   *)
(* the provisional tables left by discovery, which the last phase          *)
(* overwrites. SET_ROUTING is a neighbour message: it is flooded from      *)
(* board to board and crosses every cable once in each direction.          *)
(***************************************************************************)
EXTENDS Discovery

CONSTANT MaxErrors   \* bound on the failing calls of the delivery phase

ASSUME ErrorAssumption == MaxErrors \in Nat

RT == INSTANCE RoutingTables

VARIABLES
  stage,    \* where each board is after its part of discovery
  tables,   \* master: the tables of all nodes
  pending,  \* master: rows <<node, row>> still to be sent
  ends,     \* master: nodes to which END_INFO has not been sent
  replies,  \* master: nodes that have replied
  table,    \* final_routing_table of each board
  toSend,   \* interfaces on which SET_ROUTING has not been sent
  expect,   \* number of SET_ROUTING messages still to be received
  net,      \* net[<<b, i>>]: packets on the cable to interface i of board b
  inbox,    \* packets the NIC of each board has queued for axiom-init
  errors    \* number of calls of this phase that have failed so far

delivery == <<stage, tables, pending, ends, replies, table, toSend, expect, net, inbox,
              errors>>
discovery == <<link, chan, pc, node_id, next_id, if_idx, start_node_index, src_interface,
               topology, todo, faults, waitFault>>
allVars == <<vars, delivery>>

Nodes == RT!RtNodes
last_node == next_id[Master] + 1

\* a SET_ROUTING message is addressed to the neighbour, not to a node
Neighbour == NULL_NODE

Packet(cmd, dst, src, node, ifs) ==
  [cmd |-> cmd, dst |-> dst, src |-> src, node |-> node, ifs |-> ifs]

NoTable == [n \in Nodes |-> {}]

DeliveryInit ==
  /\ Init
  /\ stage = [b \in Boards |-> "discovery"]
  /\ tables = [n \in Nodes |-> NoTable]
  /\ pending = {} /\ ends = {} /\ replies = {}
  /\ table = [b \in Boards |-> NoTable]
  /\ toSend = [b \in Boards |-> {}]
  /\ expect = [b \in Boards |-> 0]
  /\ net = [p \in Ports |-> <<>>]
  /\ inbox = [b \in Boards |-> <<>>]
  /\ errors = 0

ConnectedIfs(b) == {i \in Ifs : Connected(b, i)}

SetStage(b, s) == stage' = [stage EXCEPT ![b] = s]

-----------------------------------------------------------------------------
(* The NIC *)

\* Board b puts packet p on the wire, as its routing table says; a packet
\* without a route is lost.
NicSend(b, p) ==
  IF routing[b][p.dst] \cap Ifs = {} THEN net' = net
  ELSE \E i \in routing[b][p.dst] \cap Ifs :
         net' = [net EXCEPT ![link[<<b, i>>]] = Append(@, p)]

\* the packet at the head of port <<b, i>> is for board b
ForMe(b, p) == p.dst = Neighbour \/ IF_LOOPBACK \in routing[b][p.dst]

NicDeliver(b, i) ==
  /\ net[<<b, i>>] # <<>> /\ ForMe(b, Head(net[<<b, i>>]))
  /\ inbox' = [inbox EXCEPT ![b] = Append(@, Head(net[<<b, i>>]))]
  /\ net' = [net EXCEPT ![<<b, i>>] = Tail(@)]
  /\ UNCHANGED <<discovery, routing, errors, stage, tables, pending, ends, replies, table,
                 toSend, expect>>

NicForward(b, i) ==
  /\ net[<<b, i>>] # <<>> /\ ~ForMe(b, Head(net[<<b, i>>]))
  /\ LET p == Head(net[<<b, i>>])
         rest == [net EXCEPT ![<<b, i>>] = Tail(@)]
     IN IF routing[b][p.dst] \cap Ifs = {} THEN net' = rest
        ELSE \E j \in routing[b][p.dst] \cap Ifs :
               net' = [rest EXCEPT ![link[<<b, j>>]] = Append(@, p)]
  /\ UNCHANGED <<discovery, routing, errors, stage, tables, pending, ends, replies, table,
                 toSend, expect, inbox>>

\* receive calls of the software on board b
Got(b) == inbox[b] # <<>>
Mail(b) == Head(inbox[b])
Read(b) == inbox' = [inbox EXCEPT ![b] = Tail(@)]

-----------------------------------------------------------------------------
(* The master *)

\* the search for the table of node a when its do ... while loop has ended, or
\* after so many passes that it never will
Search(a) ==
  LET t == topology[Master]
      pass[k \in 0 .. NODES_NUM] ==
        IF k = 0 THEN RT!FirstLevel(t, a)
        ELSE LET s == pass[k - 1] IN
             IF k = 1 \/ RT!MoreLevels(last_node, s) THEN RT!NextLevel(t, a, last_node, s)
             ELSE s
  IN pass[NODES_NUM]

Net == MASTER_ID .. (last_node - 1)

\* Mutant of Compute: the row of the last node is not sent.
Compute_RowMissing ==
  /\ pc[Master] = "done" /\ stage[Master] = "discovery"
  /\ \A a \in Net : ~RT!MoreLevels(last_node, Search(a))
  /\ tables' = [n \in Nodes |-> IF n \in Net THEN Search(n).rt ELSE NoTable]
  /\ table' = [table EXCEPT ![Master] = tables'[MASTER_ID]]
  /\ pending' = {c \in (Net \ {MASTER_ID}) \X (0 .. (last_node - 2)) : tables'[c[1]][c[2]] # {}}
  /\ ends' = Net \ {MASTER_ID}
  /\ SetStage(Master, "info")
  /\ UNCHANGED <<discovery, routing, errors, replies, toSend, expect, net, inbox>>

Compute ==
  /\ pc[Master] = "done" /\ stage[Master] = "discovery"
  /\ \A a \in Net : ~RT!MoreLevels(last_node, Search(a))
  /\ tables' = [n \in Nodes |-> IF n \in Net THEN Search(n).rt ELSE NoTable]
  /\ table' = [table EXCEPT ![Master] = tables'[MASTER_ID]]
  /\ pending' = {c \in (Net \ {MASTER_ID}) \X (0 .. (last_node - 1)) : tables'[c[1]][c[2]] # {}}
  /\ ends' = Net \ {MASTER_ID}
  /\ SetStage(Master, "info")
  /\ UNCHANGED <<discovery, routing, errors, replies, toSend, expect, net, inbox>>

\* one row of one table
SendInfo ==
  /\ stage[Master] = "info"
  /\ \E c \in pending :
       /\ \A d \in pending \ {c} : Before(c, d)
       /\ NicSend(Master, Packet("INFO", c[1], MASTER_ID, c[2], tables[c[1]][c[2]]))
       /\ pending' = pending \ {c}
  /\ UNCHANGED <<discovery, routing, errors, stage, tables, ends, replies, table, toSend,
                 expect, inbox>>

\* Mutant of SendEndInfo: not all rows have been sent.
SendEndInfo_Early ==
  /\ stage[Master] = "info"
  /\ \E n \in ends :
       /\ \A m \in ends : n <= m
       /\ NicSend(Master, Packet("END_INFO", n, MASTER_ID, 0, {}))
       /\ ends' = ends \ {n}
  /\ UNCHANGED <<discovery, routing, errors, stage, tables, pending, replies, table, toSend,
                 expect, inbox>>

\* "end of delivery phase", to every node once all rows are sent
SendEndInfo ==
  /\ stage[Master] = "info" /\ pending = {}
  /\ \E n \in ends :
       /\ \A m \in ends : n <= m
       /\ NicSend(Master, Packet("END_INFO", n, MASTER_ID, 0, {}))
       /\ ends' = ends \ {n}
  /\ UNCHANGED <<discovery, routing, errors, stage, tables, pending, replies, table, toSend,
                 expect, inbox>>

AllReplied == Cardinality(replies) = last_node - MASTER_ID - 1

\* axiom_wait_rt_received: any other message ends the discovery of the master
RecvReply ==
  /\ stage[Master] = "info" /\ pending = {} /\ ends = {} /\ ~AllReplied
  /\ Got(Master) /\ Read(Master)
  /\ IF Mail(Master).cmd = "RT_REPLY"
     THEN replies' = replies \cup {Mail(Master).node} /\ UNCHANGED stage
     ELSE SetStage(Master, "failed") /\ UNCHANGED replies
  /\ UNCHANGED <<discovery, routing, errors, tables, pending, ends, table, toSend, expect, net>>

-----------------------------------------------------------------------------
(* axiom_set_routing_table *)

\* The board's own entry is set to loopback and the whole table is written.
WriteTable(b) ==
  LET own == [table[b] EXCEPT ![node_id[b]] = {IF_LOOPBACK}] IN
  /\ table' = [table EXCEPT ![b] = own]
  /\ routing' = [routing EXCEPT ![b] = [n \in NodeId |-> IF n \in Nodes THEN own[n] ELSE @[n]]]

\* Mutant of MasterSwitch: the replies are not awaited.
MasterSwitch_NoWait ==
  /\ stage[Master] = "info" /\ pending = {} /\ ends = {}
  /\ WriteTable(Master)
  /\ SetStage(Master, "flood")
  /\ toSend' = [toSend EXCEPT ![Master] = ConnectedIfs(Master)]
  /\ expect' = [expect EXCEPT ![Master] = Cardinality(ConnectedIfs(Master))]
  /\ UNCHANGED <<discovery, errors, tables, pending, ends, replies, net, inbox>>

\* the master switches when all slaves have replied
MasterSwitch ==
  /\ stage[Master] = "info" /\ pending = {} /\ ends = {} /\ AllReplied
  /\ WriteTable(Master)
  /\ SetStage(Master, "flood")
  /\ toSend' = [toSend EXCEPT ![Master] = ConnectedIfs(Master)]
  /\ expect' = [expect EXCEPT ![Master] = Cardinality(ConnectedIfs(Master))]
  /\ UNCHANGED <<discovery, errors, tables, pending, ends, replies, net, inbox>>

\* Mutants of SlaveSwitch: one message too few is awaited; interface 0 is
\* left out of the flood.
SlaveSwitch_OneLess(b) ==
  /\ stage[b] = "waitSet" /\ Got(b) /\ Read(b) /\ Mail(b).cmd = "SET_ROUTING"
  /\ WriteTable(b)
  /\ SetStage(b, "flood")
  /\ toSend' = [toSend EXCEPT ![b] = ConnectedIfs(b)]
  /\ expect' = [expect EXCEPT ![b] = Cardinality(ConnectedIfs(b)) - 2]
  /\ UNCHANGED <<discovery, errors, tables, pending, ends, replies, net>>
SlaveSwitch_SkipFirst(b) ==
  /\ stage[b] = "waitSet" /\ Got(b) /\ Read(b) /\ Mail(b).cmd = "SET_ROUTING"
  /\ WriteTable(b)
  /\ SetStage(b, "flood")
  /\ toSend' = [toSend EXCEPT ![b] = ConnectedIfs(b) \ {0}]
  /\ expect' = [expect EXCEPT ![b] = Cardinality(ConnectedIfs(b)) - 1]
  /\ UNCHANGED <<discovery, errors, tables, pending, ends, replies, net>>

\* a slave switches on the first SET_ROUTING and ignores anything else
SlaveSwitch(b) ==
  /\ stage[b] = "waitSet" /\ Got(b) /\ Read(b)
  /\ IF Mail(b).cmd = "SET_ROUTING"
     THEN /\ WriteTable(b)
          /\ SetStage(b, "flood")
          /\ toSend' = [toSend EXCEPT ![b] = ConnectedIfs(b)]
          /\ expect' = [expect EXCEPT ![b] = Cardinality(ConnectedIfs(b)) - 1]
     ELSE UNCHANGED <<routing, table, stage, toSend, expect>>
  /\ UNCHANGED <<discovery, errors, tables, pending, ends, replies, net>>

FloodSend(b) ==
  /\ stage[b] = "flood"
  /\ \E i \in toSend[b] :
       /\ \A j \in toSend[b] : i <= j
       /\ net' = [net EXCEPT ![link[<<b, i>>]] =
            Append(@, Packet("SET_ROUTING", Neighbour, node_id[b], 0, {}))]
       /\ toSend' = [toSend EXCEPT ![b] = @ \ {i}]
  /\ UNCHANGED <<discovery, routing, errors, stage, tables, pending, ends, replies, table,
                 expect, inbox>>

FloodSent(b) ==
  /\ stage[b] = "flood" /\ toSend[b] = {}
  /\ SetStage(b, IF expect[b] > 0 THEN "collect" ELSE "end")
  /\ UNCHANGED <<discovery, routing, errors, tables, pending, ends, replies, table, toSend,
                 expect, net, inbox>>

\* one message per cabled interface, whatever it says
Collect(b) ==
  /\ stage[b] = "collect" /\ Got(b) /\ Read(b)
  /\ expect' = [expect EXCEPT ![b] = @ - 1]
  /\ SetStage(b, IF expect[b] = 1 THEN "end" ELSE "collect")
  /\ UNCHANGED <<discovery, routing, errors, tables, pending, ends, replies, table, toSend, net>>

-----------------------------------------------------------------------------
(* The slave *)

\* axiom_receive_routing_tables, from the end of the slave's discovery on
RecvTable(b) ==
  /\ b # Master /\ pc[b] = "done" /\ stage[b] = "discovery" /\ Got(b) /\ Read(b)
  /\ LET m == Mail(b) IN
       /\ table' = IF m.cmd = "INFO" THEN [table EXCEPT ![b][m.node] = m.ifs] ELSE table
       /\ IF m.cmd = "END_INFO"
          THEN /\ NicSend(b, Packet("RT_REPLY", m.src, node_id[b], node_id[b], {}))
               /\ SetStage(b, "waitSet")
          ELSE UNCHANGED <<net, stage>>
  /\ UNCHANGED <<discovery, routing, errors, tables, pending, ends, replies, toSend, expect>>

\* back in the main loop of axiom-init: the message is discarded
MainLoopDiscard(b) ==
  /\ stage[b] \in {"end", "failed"} /\ Got(b) /\ Read(b)
  /\ UNCHANGED <<discovery, routing, errors, stage, tables, pending, ends, replies, table,
                 toSend, expect, net>>

\* A send or receive call returns an error: the function of the board
\* returns at once.
DeliveryFault(b) ==
  /\ errors < MaxErrors /\ errors' = errors + 1
  /\ \/ stage[b] = "info" /\ ~(pending = {} /\ ends = {} /\ AllReplied)
     \/ stage[b] \in {"waitSet", "collect"}
     \/ stage[b] = "flood" /\ toSend[b] # {}
     \/ b # Master /\ pc[b] = "done" /\ stage[b] = "discovery"
  /\ SetStage(b, "failed")
  /\ UNCHANGED <<discovery, routing, tables, pending, ends, replies, table, toSend, expect,
                 net, inbox>>

-----------------------------------------------------------------------------
Software(b) ==
  \/ b = Master /\ (Compute \/ SendInfo \/ SendEndInfo \/ RecvReply \/ MasterSwitch)
  \/ RecvTable(b) \/ SlaveSwitch(b) \/ FloodSend(b) \/ FloodSent(b) \/ Collect(b)
  \/ MainLoopDiscard(b)

Nic(b) == \E i \in Ifs : NicDeliver(b, i) \/ NicForward(b, i)

DeliveryStep(b) == Software(b) \/ Nic(b) \/ DeliveryFault(b)

DeliveryNext ==
  \/ Next /\ UNCHANGED delivery
  \/ \E b \in Boards : DeliveryStep(b)

DeliverySpec == DeliveryInit /\ [][DeliveryNext]_allVars

\* Every daemon keeps running and every NIC keeps moving packets.
DeliveryFairSpec ==
  /\ DeliverySpec
  /\ WF_allVars(MasterStart /\ UNCHANGED delivery)
  /\ \A b \in Boards :
       /\ WF_allVars(BoardStep(b) /\ UNCHANGED delivery)
       /\ WF_allVars(Software(b))
       /\ WF_allVars(Nic(b))

-----------------------------------------------------------------------------
(* Properties *)

Switched(b) == stage[b] \in {"flood", "collect", "end"}

\* the packets on the cables and in the queues of the boards
OnTheWay ==
  UNION ({{net[p][k] : k \in 1 .. Len(net[p])} : p \in Ports}
         \cup {{inbox[b][k] : k \in 1 .. Len(inbox[b])} : b \in Boards})

\* No table is replaced under a packet that it has to route: once a board has
\* switched, only SET_ROUTING messages are on the way (the master waits for
\* all replies, axiom_discovery_node.c:126, before it sends the first one).
NoPacketUnderSwitch ==
  faults = 0 /\ (\E b \in Boards : Switched(b)) => \A p \in OnTheWay : p.cmd = "SET_ROUTING"

\* A board switches to exactly the table the master computed for its id, with
\* loopback for itself: no row is missing, late or another board's.
SwitchesToComputed ==
  faults = 0 =>
  \A b \in Boards : Switched(b) =>
    \A n \in Nodes : routing[b][n] = IF n = node_id[b] THEN {IF_LOOPBACK}
                                     ELSE tables[node_id[b]][n]

\* A board that has ended has taken in every SET_ROUTING sent to it: nothing
\* is left for the main loop of axiom-init to discard.
NothingLeftOver ==
  faults = 0 /\ errors = 0 =>
    \A b \in Boards : stage[b] = "end" =>
      inbox[b] = <<>> /\ \A i \in Ifs : net[<<b, i>>] = <<>>

\* the boards a packet for node n visits from board b on, with the NIC tables
Path(b, n) ==
  LET at[k \in 0 .. Cardinality(Boards)] ==
        IF k = 0 THEN b
        ELSE LET c == at[k - 1] IN
             IF routing[c][n] \cap Ifs = {} THEN c
             ELSE link[<<c, CHOOSE i \in routing[c][n] : TRUE>>][1]
  IN at

\* When every board has ended, the NICs carry a packet from every board to
\* every other board of the network.
AllReachAll ==
  faults = 0 /\ errors = 0 /\ (\A b \in Numbered : stage[b] = "end") /\ Numbered # {} =>
    \A b, c \in Numbered : Path(b, node_id[c])[Cardinality(Boards)] = c

\* Every board that was found ends with its final table, unless a call fails.
AllEnd == <>(errors > 0 \/ (pc[Master] = "done" /\ \A b \in Numbered : stage[b] = "end"))
=============================================================================
