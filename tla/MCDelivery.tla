----------------------------- MODULE MCDelivery -----------------------------
(***************************************************************************)
(* Model checking of discovery, delivery and switch.                       *)
(***************************************************************************)
EXTENDS RoutingDelivery, Cablings

\* the master and the other boards in some order
InOrder ==
  CHOOSE f \in [1 .. Cardinality(Boards) -> Boards] :
    /\ f[1] = Master
    /\ \A i, j \in 1 .. Cardinality(Boards) : f[i] = f[j] => i = j

Cable(x, i, y, j) == {<<InOrder[x], i>>, <<InOrder[y], j>>}

ThreeByTwo == CablingsOf({InOrder[k] : k \in 1 .. 3}, {0, 1})

\* every cabling of three boards with two interfaces, four boards in a ring,
\* and four boards of which one, not the master, is cabled to the three others
CablingFamily ==
  ThreeByTwo \cup
  {AsCabling({Cable(1, 0, 2, 1), Cable(2, 0, 3, 1), Cable(3, 0, 4, 1), Cable(4, 0, 1, 1)}),
   AsCabling({Cable(1, 0, 2, 1), Cable(2, 0, 3, 0), Cable(2, 2, 4, 0)})}

\* Calls of the delivery phase fail on three boards. Fairness is needed as long
\* as nothing fails.
MCNext == DeliveryNext /\ (errors' > 0 => link \in ThreeByTwo)

MCSpec ==
  /\ DeliveryInit /\ [][MCNext]_allVars
  /\ WF_allVars(MasterStart /\ UNCHANGED delivery)
  /\ \A b \in Boards :
       /\ WF_allVars(errors = 0 /\ BoardStep(b) /\ UNCHANGED delivery)
       /\ WF_allVars(errors = 0 /\ Software(b))
       /\ WF_allVars(errors = 0 /\ Nic(b))
=============================================================================
