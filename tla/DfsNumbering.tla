---------------------------- MODULE DfsNumbering ----------------------------
(***************************************************************************)
(* What discovery promises: the boards reachable from the master are       *)
(* numbered in the order of a sequential depth-first visit that takes the  *)
(* interfaces of a board in increasing order. This is the numbering that   *)
(* axiom_compute_intermediate_final_topology of the repository's own       *)
(* discovery test computes (test/axiom_discovery_protocol_test.c).         *)
(***************************************************************************)
EXTENDS Integers

CONSTANTS Boards, Master, Ifs, MASTER_ID

VARIABLES
  link,   \* the cabling
  id,     \* id[b]: number of board b, 0 when it has none
  open    \* boards whose interfaces have not all been visited

\* the board at which the visit stands: the open board numbered last
Current == CHOOSE b \in open : \A c \in open : id[c] <= id[b]

LastId == CHOOSE n \in {id[b] : b \in Boards} : \A b \in Boards : id[b] <= n

\* interfaces of b behind which there is a board without a number
NewBehind(b) ==
  {i \in Ifs : <<b, i>> \in DOMAIN link /\ id[link[<<b, i>>][1]] = 0}

Init ==
  /\ id = [b \in Boards |-> 0]
  /\ open = {}

Begin ==
  /\ open = {} /\ id[Master] = 0
  /\ id' = [id EXCEPT ![Master] = MASTER_ID]
  /\ open' = {Master}

Visit ==
  /\ open # {}
  /\ \E i \in NewBehind(Current) :
       /\ \A j \in NewBehind(Current) : i <= j
       /\ LET b == link[<<Current, i>>][1] IN
            /\ id' = [id EXCEPT ![b] = LastId + 1]
            /\ open' = open \cup {b}

Return ==
  /\ open # {} /\ NewBehind(Current) = {}
  /\ open' = open \ {Current}
  /\ UNCHANGED id

Next == (Begin \/ Visit \/ Return) /\ UNCHANGED link

vars == <<link, id, open>>

Spec == Init /\ [][Next]_vars
=============================================================================
