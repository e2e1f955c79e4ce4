------------------------------ MODULE MCRouting ------------------------------
(***************************************************************************)
(* Model checking of the routing-table computation over the networks that  *)
(* discovery leaves, numbered depth first: the connected part of every     *)
(* graph on a few boards, with parallel cables on some of them. Each board *)
(* uses its interfaces in the order of its neighbours.                     *)
(***************************************************************************)
EXTENDS RoutingCompute, Cablings, FiniteSetsExt

CONSTANTS Boards, Master, MultiBoards, MaxCables

\* the matrix and last_node that discovery leaves in cabling c
NetworkOf(c) ==
  LET order == Visit(c, Master, 0, IFNUM, <<Master>>)
      last == MASTER_ID + Len(order)
      board(n) == order[n - MASTER_ID + 1]
      number(b) == CHOOSE n \in MASTER_ID .. (last - 1) : board(n) = b
  IN <<[x \in RtNodes \X RtIfs |->
          IF x[1] \in MASTER_ID .. (last - 1) /\ <<board(x[1]), x[2]>> \in DOMAIN c
          THEN number(c[<<board(x[1]), x[2]>>][1]) ELSE NoNode],
       last>>

Pairs == {{b, c} : b, c \in Boards} \ {{b} : b \in Boards}

\* w[{b, c}] cables join b and c
Degree(w, b) == MapThenSumSet(LAMBDA c : w[{b, c}], Boards \ {b})

\* the first interface of b that is cabled to c
FirstPort(w, b, c) == MapThenSumSet(LAMBDA d : w[{b, d}], {d \in Boards \ {b} : d < c})

GraphCabling(w) ==
  AsCabling(UNION {{{<<e[1], FirstPort(w, e[1], e[2]) + k>>,
                      <<e[2], FirstPort(w, e[2], e[1]) + k>>} :
                      k \in 0 .. (w[{e[1], e[2]}] - 1)} :
                   e \in {d \in Boards \X Boards : d[1] < d[2]}})

\* every simple graph on Boards, and every graph on MultiBoards with up to
\* MaxCables cables between two of them
Graphs ==
  [Pairs -> 0 .. 1] \cup
  {[p \in Pairs |-> IF p \subseteq MultiBoards THEN v[p] ELSE 0] :
     v \in [{p \in Pairs : p \subseteq MultiBoards} -> 0 .. MaxCables]}

AllNetworks ==
  {NetworkOf(GraphCabling(w)) : w \in {v \in Graphs : \A b \in Boards : Degree(v, b) <= IFNUM}}
=============================================================================
