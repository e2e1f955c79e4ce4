------------------------------ MODULE Barrier ------------------------------
(***************************************************************************)
(* The barrier service of axiom-run: axrun_sync in the application         *)
(* (lib/sync.c), sock_thread and recv_thread of the axiom-run slave of its *)
(* node (slave.c) and master_receiver of the axiom-run master (master.c).  *)
(*                                                                         *)
(* A request goes from the application to its slave through a Unix socket, *)
(* from the slave to the master through the AXIOM network; the release     *)
(* comes back the same way. Requests of different barriers or nodes are    *)
(* independent, so each hop is a counter per node and barrier, which       *)
(* allows every order of arrival.                                          *)
(***************************************************************************)
EXTENDS Integers, FiniteSets

CONSTANTS
  Nodes,      \* the nodes of the run
  Ids,        \* the barriers the applications use, ids up to AXRUN_MAX_BARRIER_ID
  Services,   \* the services of the run
  MaxCalls,   \* bound on the calls of one barrier by one node
  MaxLosses   \* bound on the messages that are lost

ASSUME BarrierAssumption ==
  /\ IsFiniteSet(Nodes) /\ Nodes # {}
  /\ MaxCalls \in Nat /\ MaxLosses \in Nat
  /\ Services \subseteq {"redirect", "exit", "kill", "barrier", "rpc"}

VARIABLES
  ready,    \* ready[n]: sock_thread of node n has bound its socket
  bound,    \* bound[e]: the socket the call of caller e waits on exists
  up,       \* up[e]: requests in the socket of the slave
  net,      \* net[e]: requests on their way to the master
  counter,  \* barrier[b].counter of the master
  down,     \* down[e]: releases on their way to the slave
  dgram,    \* dgram[e]: releases in the socket of the application
  calls, rets,   \* history: calls begun and calls returned with success
  arrived,  \* history: the nodes counted by the master in the current round of b
  rounds,   \* history: completed rounds of b
  lost      \* history: requests and releases lost

vars == <<ready, bound, up, net, counter, down, dgram, calls, rets, arrived, rounds, lost>>
hops == <<up, net, counter, down, dgram, arrived, rounds>>

Callers == Nodes \X Ids
NNodes == Cardinality(Nodes)

HasReceiver == Services \cap {"redirect", "exit", "kill"} # {}
HasSocket == Services \cap {"barrier", "rpc"} # {}

Init ==
  /\ ready = [n \in Nodes |-> FALSE]
  /\ bound = [e \in Callers |-> FALSE]
  /\ up = [e \in Callers |-> 0] /\ net = [e \in Callers |-> 0]
  /\ counter = [b \in Ids |-> 0]
  /\ down = [e \in Callers |-> 0] /\ dgram = [e \in Callers |-> 0]
  /\ calls = [e \in Callers |-> 0] /\ rets = [e \in Callers |-> 0]
  /\ arrived = [b \in Ids |-> {}] /\ rounds = [b \in Ids |-> 0]
  /\ lost = 0

\* the child is woken when the threads are counted as started, which
\* sock_thread does before it binds: it may call before there is a socket
StartSocket(n) ==
  /\ HasSocket /\ ~ ready[n]
  /\ ready' = [ready EXCEPT ![n] = TRUE]
  /\ UNCHANGED <<bound, hops, calls, rets, lost>>

\* bind and sendto of axrun_sync; one caller per node and barrier at a time.
\* Without the slave's socket the sendto fails, the call returns -1 and
\* removes its own socket again.
axrun_sync(e) ==
  /\ ~ bound[e] /\ calls[e] < MaxCalls
  /\ ready[e[1]]
  /\ bound' = [bound EXCEPT ![e] = TRUE]
  /\ up' = [up EXCEPT ![e] = @ + 1]
  /\ calls' = [calls EXCEPT ![e] = @ + 1]
  /\ UNCHANGED <<ready, net, counter, down, dgram, rets, arrived, rounds, lost>>

\* a message of one hop is passed on or lost
Lose == lost < MaxLosses /\ lost' = lost + 1

\* sock_thread passes a request on to the master
sock_thread(e) ==
  /\ up[e] > 0
  /\ up' = [up EXCEPT ![e] = @ - 1]
  /\ \/ net' = [net EXCEPT ![e] = @ + 1] /\ UNCHANGED lost
     \/ Lose /\ UNCHANGED net
  /\ UNCHANGED <<ready, bound, counter, down, dgram, calls, rets, arrived, rounds>>

\* mutants: the barrier opens one request too early, or one too late
Counted_Early(c) == (IF c = 0 THEN NNodes - 1 ELSE c) - 1
Counted_OneMore(c) == (IF c = 0 THEN NNodes + 1 ELSE c) - 1

\* the counter of the barrier after one more request
Counted(c) == (IF c = 0 THEN NNodes ELSE c) - 1

\* CMD_BARRIER in master_receiver; the releases R are sent, the others fail
master_receiver(e) ==
  LET b == e[2] IN
  /\ net[e] > 0 /\ "barrier" \in Services
  /\ net' = [net EXCEPT ![e] = @ - 1]
  /\ counter' = [counter EXCEPT ![b] = Counted(@)]
  /\ IF Counted(counter[b]) = 0
     THEN /\ arrived' = [arrived EXCEPT ![b] = {}]
          /\ rounds' = [rounds EXCEPT ![b] = @ + 1]
          /\ \E R \in SUBSET Nodes :
               /\ lost' = lost + Cardinality(Nodes \ R) /\ lost' <= MaxLosses
               /\ down' = [f \in Callers |->
                             IF f[2] = b /\ f[1] \in R THEN down[f] + 1 ELSE down[f]]
     ELSE /\ arrived' = [arrived EXCEPT ![b] = @ \cup {e[1]}]
          /\ UNCHANGED <<rounds, down, lost>>
  /\ UNCHANGED <<ready, bound, up, dgram, calls, rets>>

\* recv_thread passes the release on to the socket of the call, if it is
\* still there; the datagram has one byte, the command
recv_thread(e) ==
  /\ down[e] > 0 /\ HasReceiver
  /\ down' = [down EXCEPT ![e] = @ - 1]
  /\ dgram' = [dgram EXCEPT ![e] = IF bound[e] THEN @ + 1 ELSE @]
  /\ UNCHANGED <<ready, bound, up, net, counter, calls, rets, arrived, rounds, lost>>

\* the end of axrun_sync: the id compared is the one the call has itself
\* stored, as one byte does not reach it; then the socket is removed
SyncReturns(e) ==
  /\ bound[e] /\ dgram[e] > 0
  /\ bound' = [bound EXCEPT ![e] = FALSE]
  /\ dgram' = [dgram EXCEPT ![e] = 0]
  /\ rets' = [rets EXCEPT ![e] = @ + 1]
  /\ UNCHANGED <<ready, up, net, counter, down, calls, arrived, rounds, lost>>

Next ==
  \/ \E n \in Nodes : StartSocket(n)
  \/ \E e \in Callers : \/ axrun_sync(e) \/ sock_thread(e) \/ master_receiver(e)
                        \/ recv_thread(e) \/ SyncReturns(e)

\* the threads of master and slaves run again and again; no application has to call
Fairness ==
  /\ \A n \in Nodes : WF_vars(StartSocket(n))
  /\ \A e \in Callers : /\ WF_vars(sock_thread(e)) /\ WF_vars(master_receiver(e))
                        /\ WF_vars(recv_thread(e)) /\ WF_vars(SyncReturns(e))

Spec == Init /\ [][Next]_vars /\ Fairness
-----------------------------------------------------------------------------
TypeOK ==
  /\ ready \in [Nodes -> BOOLEAN] /\ bound \in [Callers -> BOOLEAN]
  /\ up \in [Callers -> Nat] /\ net \in [Callers -> Nat]
  /\ counter \in [Ids -> Nat]
  /\ down \in [Callers -> Nat] /\ dgram \in [Callers -> Nat]
  /\ calls \in [Callers -> Nat] /\ rets \in [Callers -> Nat]
  /\ arrived \in [Ids -> SUBSET Nodes] /\ rounds \in [Ids -> Nat]
  /\ lost \in Nat

\* the messages of caller e, with the request the master has counted
Tokens(e) == up[e] + net[e] + down[e] + dgram[e]
             + (IF e[1] \in arrived[e[2]] THEN 1 ELSE 0)

\* where a caller stands against the rounds of its barrier
InRound(e) ==
  /\ calls[e] = rets[e] + (IF bound[e] THEN 1 ELSE 0)
  /\ Tokens(e) <= IF bound[e] THEN 1 ELSE 0
  /\ calls[e] \in {rounds[e[2]], rounds[e[2]] + 1}
  /\ ~ bound[e] => calls[e] = rounds[e[2]]
  /\ (up[e] + net[e] > 0 \/ e[1] \in arrived[e[2]]) => calls[e] = rounds[e[2]] + 1
  /\ down[e] + dgram[e] > 0 => calls[e] = rounds[e[2]]

\* the counter of a barrier tells how many nodes are still missing
CounterTrue(b) ==
  /\ arrived[b] # Nodes
  /\ counter[b] = IF arrived[b] = {} THEN 0 ELSE NNodes - Cardinality(arrived[b])

\* a call has at most one message under way, in either direction, and a call
\* is never more than one round ahead of what the master has released: with
\* one counter per barrier the master cannot mix up two rounds, although a
\* fast node starts the next round while slow ones have not been released
RoundInv ==
  /\ TypeOK
  /\ \A b \in Ids : CounterTrue(b)
  /\ \A e \in Callers : InRound(e)

\* nobody leaves a barrier before everybody has reached it: the number of
\* calls of barrier b that have returned on one node never exceeds the
\* number of calls begun on another, also when a fast node is already in
\* the next round and whatever messages are lost (axrun_sync)
NobodyAhead ==
  \A n, m \in Nodes : \A b \in Ids : rets[<<n, b>>] <= calls[<<m, b>>]

\* the service implements the abstract barrier
Abstract == INSTANCE BarrierSpec
AbstractBarrier == Abstract!Spec

\* once every node has made its k-th call of a barrier and no message has
\* been lost, every one of these calls returns
SyncEnds ==
  \A b \in Ids : \A k \in 1 .. MaxCalls :
    (\A n \in Nodes : calls[<<n, b>>] >= k)
      ~> (lost > 0 \/ \A n \in Nodes : rets[<<n, b>>] >= k)
=============================================================================
