--------------------------- MODULE RoutingCompute ---------------------------
(***************************************************************************)
(* axiom_compute_routing_tables as a state machine: one step per pass of   *)
(* the do ... while loop.                                                  *)
(***************************************************************************)
EXTENDS RoutingTables

CONSTANT Networks   \* pairs <<topology matrix, last_node>> left by a discovery

VARIABLES
  topology,         \* the matrix
  last_node,        \* one more than the largest id
  actual_node_id,   \* the node whose table is being computed
  search,           \* the state of its search
  routing_tables,   \* the tables, as far as they are computed
  pc

vars == <<topology, last_node, actual_node_id, search, routing_tables, pc>>

\* the nodes of the network
Net == MASTER_ID .. (last_node - 1)

\* A matrix as discovery leaves it: links lie between different nodes of
\* the network and are recorded at both ends.
IsNetwork(t, last) ==
  /\ last \in (MASTER_ID + 1) .. NODES_NUM
  /\ t \in [RtNodes \X RtIfs -> RtNodes \cup {NoNode}]
  /\ \A n \in RtNodes, i \in RtIfs :
       LET m == t[<<n, i>>] IN
       m # NoNode => /\ n \in MASTER_ID .. (last - 1) /\ m \in MASTER_ID .. (last - 1)
                     /\ n # m /\ Adjacent(t, m, n)

ASSUME RoutingAssumption ==
  /\ IFNUM \in Nat \ {0} /\ NODES_NUM \in Nat /\ MASTER_ID \in 0 .. (NODES_NUM - 1)
  /\ \A w \in Networks : IsNetwork(w[1], w[2])

Init ==
  /\ \E w \in Networks : topology = w[1] /\ last_node = w[2]
  /\ actual_node_id = MASTER_ID
  /\ search = [rt |-> [n \in RtNodes |-> {}], nt0 |-> {}, nt1 |-> {}, counter |-> 0]
  /\ routing_tables = [a \in RtNodes |-> [n \in RtNodes |-> {}]]
  /\ pc = "node"

StartNode ==
  /\ pc = "node" /\ actual_node_id < last_node
  /\ LET s == FirstLevel(topology, actual_node_id) IN
       /\ search' = s
       /\ routing_tables' = [routing_tables EXCEPT ![actual_node_id] = s.rt]
  /\ pc' = "level"
  /\ UNCHANGED <<topology, last_node, actual_node_id>>

Level ==
  /\ pc = "level"
  /\ LET s == NextLevel(topology, actual_node_id, last_node, search) IN
       /\ search' = s
       /\ routing_tables' = [routing_tables EXCEPT ![actual_node_id] = s.rt]
       /\ IF MoreLevels(last_node, s)
          THEN UNCHANGED <<actual_node_id, pc>>
          ELSE actual_node_id' = actual_node_id + 1 /\ pc' = "node"
  /\ UNCHANGED <<topology, last_node>>

Finish ==
  /\ pc = "node" /\ actual_node_id = last_node
  /\ pc' = "done"
  /\ UNCHANGED <<topology, last_node, actual_node_id, search, routing_tables>>

Next == StartNode \/ Level \/ Finish

Spec == Init /\ [][Next]_vars

\* The computation is a sequential program that is not blocked by anything.
FairSpec == Spec /\ WF_vars(Next)

-----------------------------------------------------------------------------
(* Properties *)

\* Ball(t, V, a)[k]: the nodes of V within k hops of node a
Ball(t, V, a) ==
  LET ball[k \in 0 .. NODES_NUM] ==
        IF k = 0 THEN {a}
        ELSE LET inner == ball[k - 1]
             IN inner \cup {n \in V : \E m \in inner : Adjacent(t, m, n)}
  IN ball

\* number of hops from a to n, NODES_NUM when there is no path
Distance(t, V, a, n) ==
  LET ball == Ball(t, V, a)
      near == {k \in 0 .. NODES_NUM : n \in ball[k]}
  IN IF near = {} THEN NODES_NUM ELSE CHOOSE k \in near : \A j \in near : k <= j

\* no two nodes are joined by more than one cable
NoParallelLinks ==
  \A n, m \in Net : Cardinality(IfsTo(topology, n, m)) <= 1

\* Every interface in a table leads one hop nearer to the destination, at
\* every moment of the computation, also for nodes joined by several cables:
\* "the shortest path from Y to each network node is computed" (axiom_routing.c:37).
RoutesShorten ==
  \A a \in Net : \A n \in Net \ {a} : \A i \in routing_tables[a][n] :
    /\ topology[<<a, i>>] # NoNode
    /\ Distance(topology, Net, topology[<<a, i>>], n) = Distance(topology, Net, a, n) - 1

\* Each table that has been computed has a route to every other node, when
\* no two nodes are joined by more than one cable.
TablesComplete ==
  NoParallelLinks =>
    \A a \in MASTER_ID .. (actual_node_id - 1) : \A n \in Net \ {a} :
      routing_tables[a][n] # {}

\* "exit from cycle when 'actual_node_id' routing table has been completed"
\* (axiom_routing.c:191), with no condition on the cables.
CompletedOnExit ==
  \A a \in MASTER_ID .. (actual_node_id - 1) : \A n \in Net \ {a} :
    routing_tables[a][n] # {}

\* After k passes the nodes that have a route are those within k + 1 hops:
\* the order of the search by neighborhood level (axiom_routing.c:35).
LevelByLevel ==
  pc = "level" =>
    LET ball == Ball(topology, Net, actual_node_id) IN
    \E k \in 1 .. NODES_NUM :
      {n \in Net : search.rt[n] # {}} = ball[k] \ {actual_node_id}

\* The computation ends for every network that discovery can leave.
Terminates == <>(pc = "done")
=============================================================================
