------------------------------ MODULE Cablings ------------------------------
(***************************************************************************)
(* Ways of cabling boards together, for the model-checking modules. A      *)
(* cabling is a partial function from ports <<board, interface>> to ports. *)
(***************************************************************************)
EXTENDS Integers, Sequences, TLC

\* the sets of disjoint cables that use only ports of S
RECURSIVE Matchings(_)
Matchings(S) ==
  IF S = {} THEN {{}}
  ELSE LET p == CHOOSE x \in S : TRUE
           rest == S \ {p}
       IN Matchings(rest) \cup
          UNION {{{{p, q}} \cup m : m \in Matchings(rest \ {q})} :
                 q \in {x \in rest : x[1] # p[1]}}

\* the partial function that maps each end of a cable to the other end
RECURSIVE AsCabling(_)
AsCabling(m) ==
  IF m = {} THEN <<>>
  ELSE LET e == CHOOSE x \in m : TRUE
           p == CHOOSE x \in e : TRUE
           q == CHOOSE x \in e : x # p
       IN p :> q @@ q :> p @@ AsCabling(m \ {e})

\* every cabling of boards B with interfaces I, parallel cables included
CablingsOf(B, I) == {AsCabling(m) : m \in Matchings(B \X I)}

\* the boards of cabling c in depth-first order: visited is what has been
\* visited before interface i of board b is looked at
RECURSIVE Visit(_, _, _, _, _)
Visit(c, b, i, ifnum, visited) ==
  IF i = ifnum THEN visited
  ELSE LET new == <<b, i>> \in DOMAIN c
                  /\ \A k \in 1 .. Len(visited) : visited[k] # c[<<b, i>>][1]
           then == IF new THEN Visit(c, c[<<b, i>>][1], 0, ifnum, Append(visited, c[<<b, i>>][1]))
                   ELSE visited
       IN Visit(c, b, i + 1, ifnum, then)
=============================================================================
