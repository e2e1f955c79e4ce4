----------------------------- MODULE MCSessions -----------------------------
(***************************************************************************)
(* Model checking of remote execution: three clients at once, more than an *)
(* axiom-init has slots. A client in AllNodes calls with                   *)
(* AXINIT_EXEC_BROADCAST and AXINIT_EXEC_NOSELF from node 1.               *)
(***************************************************************************)
EXTENDS Sessions, TLC

CONSTANTS c1, c2, c3, AllNodes

SelfOf == [c \in Clients |-> IF c \in AllNodes THEN 1 ELSE 0]
FirstOf == [c \in Clients |-> 0]
FlagsOf == [c \in Clients |-> IF c \in AllNodes THEN {"BROADCAST", "NOSELF"} ELSE {}]

Alike == Permutations({c1, c2})
=============================================================================
