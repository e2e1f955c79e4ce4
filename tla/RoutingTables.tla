---------------------------- MODULE RoutingTables ----------------------------
(***************************************************************************)
(* The computation of the routing tables by the master                     *)
(* (axiom-init/axiom-discovery/axiom_routing.c,                            *)
(* axiom_compute_routing_tables): a breadth-first search from every node   *)
(* over the topology matrix found by discovery.                            *)
(*                                                                         *)
(* A byte of interface bits is a set of interfaces, and a neighbour table, *)
(* in which entry n is n or AXIOM_NULL_NODE, is a set of nodes.            *)
(***************************************************************************)
EXTENDS Integers, FiniteSets

CONSTANTS
  IFNUM,       \* AXIOM_INTERFACES_NUM
  NODES_NUM,   \* AXIOM_NODES_NUM; also AXIOM_NULL_NODE
  MASTER_ID    \* AXIOM_INIT_MASTER_NODE

RtIfs == 0 .. (IFNUM - 1)
RtNodes == 0 .. (NODES_NUM - 1)
NoNode == NODES_NUM

\* t[<<n, i>>] is the node behind interface i of node n, or NoNode
Adjacent(t, n, m) == \E i \in RtIfs : t[<<n, i>>] = m

\* the interfaces of node n that are cabled to node m
IfsTo(t, n, m) == {i \in RtIfs : t[<<n, i>>] = m}

\* neighbours_counter is uint8_t
Byte(n) == n % (NODES_NUM + 1)

(***************************************************************************)
(* The state of the search for the table of one node: rt the table, nt0    *)
(* and nt1 the two neighbour tables, counter the neighbours_counter.       *)
(***************************************************************************)

\* axiom_init_routing_neighbour, then axiom_compute_neighbours_route: each
\* cabled interface is added to the entry of its neighbour and counted
FirstLevel(t, a) ==
  [rt |-> [n \in RtNodes |-> IfsTo(t, a, n)],
   nt0 |-> {n \in RtNodes : Adjacent(t, a, n)},
   nt1 |-> {},
   counter |-> Byte(Cardinality({i \in RtIfs : t[<<a, i>>] # NoNode}))]

\* Mutants of Found: routes that exist are replaced; the loop over the nodes
\* ends one node too early.
Found_Replace(t, a, last, s) ==
  {n \in RtNodes \ {a} :
     \E f \in s.nt0 \cap (MASTER_ID .. (last - 1)) : Adjacent(t, f, n)}
Found_Short(t, a, last, s) ==
  {n \in RtNodes \ {a} :
     s.rt[n] = {} /\ \E f \in s.nt0 \cap (MASTER_ID .. (last - 2)) : Adjacent(t, f, n)}

\* the unrouted nodes found behind the nodes of neighbour table 0
Found(t, a, last, s) ==
  {n \in RtNodes \ {a} :
     s.rt[n] = {} /\ \E f \in s.nt0 \cap (MASTER_ID .. (last - 1)) : Adjacent(t, f, n)}

\* the node of table 0 through which n is found first
Via(t, last, s, n) ==
  CHOOSE f \in s.nt0 \cap (MASTER_ID .. (last - 1)) :
    /\ Adjacent(t, f, n)
    /\ \A g \in s.nt0 \cap (MASTER_ID .. (last - 1)) : Adjacent(t, g, n) => f <= g

\* Mutant of NextLevel: the memcpy of the neighbour table is missing.
NextLevel_NoCopy(t, a, last, s) ==
  LET new == Found(t, a, last, s) IN
  [rt |-> [n \in RtNodes |-> IF n \in new THEN s.rt[Via(t, last, s, n)] ELSE s.rt[n]],
   nt0 |-> s.nt0,
   nt1 |-> s.nt1 \cup new,
   counter |-> Byte(s.counter + Cardinality(new))]

\* the body of the do ... while loop
NextLevel(t, a, last, s) ==
  LET new == Found(t, a, last, s) IN
  [rt |-> [n \in RtNodes |-> IF n \in new THEN s.rt[Via(t, last, s, n)] ELSE s.rt[n]],
   nt0 |-> s.nt1 \cup new,
   nt1 |-> s.nt1 \cup new,
   counter |-> Byte(s.counter + Cardinality(new))]

\* Mutant of MoreLevels: off by one.
MoreLevels_OneLess(last, s) == s.counter < last - MASTER_ID - 2

\* the condition of the do ... while loop
MoreLevels(last, s) == s.counter < last - MASTER_ID - 1
=============================================================================
