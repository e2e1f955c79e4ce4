----------------------------- MODULE MCDiscovery -----------------------------
(***************************************************************************)
(* Model checking of the discovery protocol over families of cablings.     *)
(***************************************************************************)
EXTENDS DiscoveryProps, Cablings

CONSTANT Family   \* which cablings are checked

\* the master and the other boards in some order
InOrder ==
  CHOOSE f \in [1 .. Cardinality(Boards) -> Boards] :
    /\ f[1] = Master
    /\ \A i, j \in 1 .. Cardinality(Boards) : f[i] = f[j] => i = j

\* The master, two boards x and y that are also cabled to each other, and one
\* board behind x, on the interface that x polls first.
Kite ==
  LET m == InOrder[1]
      x == InOrder[2]
      y == InOrder[3]
      z == InOrder[4]
  IN AsCabling({{<<m, 0>>, <<x, 1>>}, {<<m, 1>>, <<y, 0>>}, {<<x, 2>>, <<y, 1>>},
                {<<x, 0>>, <<z, 0>>}})

Three == {InOrder[k] : k \in 1 .. 3}

\* parallel cables and unreachable boards included
FourByTwo == CablingsOf(Boards, {0, 1})
ThreeByThree == CablingsOf(Three, 0 .. 2)
ThreeByTwo == CablingsOf(Three, {0, 1})

\* "every": the cablings of four boards with two interfaces, those of three
\* boards with three, and the kite; "all": those of all boards and interfaces
CablingFamily ==
  CASE Family = "all" -> CablingsOf(Boards, Ifs)
    [] Family = "every" -> FourByTwo \cup ThreeByThree \cup {Kite}

\* Boards with ids of an earlier discovery, on the cablings of three boards
\* with three interfaces; failing calls, on those with two interfaces and on
\* the kite.
MCInit ==
  Init /\ \A b \in Boards : node_id[b] # 0 => b \in Three /\ link \in ThreeByThree \ ThreeByTwo
MCNext == Next /\ (faults' > 0 => link \in ThreeByTwo \cup {Kite})

\* fairness is needed as long as nothing fails
MCSpec ==
  /\ MCInit /\ [][MCNext]_vars
  /\ WF_vars(MasterStart) /\ \A b \in Boards : WF_vars(faults = 0 /\ BoardStep(b))
=============================================================================
