----------------------------- MODULE MCServices -----------------------------
(***************************************************************************)
(* Model checking of what the applications of a cluster use: the services  *)
(* of axiom-run (barrier, remote procedure calls, redirected output) and   *)
(* the tools axiom-rdma, axiom-ping, axiom-traceroute, axiom-netperf,      *)
(* axiom-send and axiom-recv. Their state is disjoint; each initial state  *)
(* starts one of them.                                                     *)
(***************************************************************************)
EXTENDS Barrier, Rpc, RdmaTool, LineOutput, NetTools, Netperf, SendRecv

CONSTANT Parts   \* the parts that are checked

VARIABLE part    \* the part that runs

-----------------------------------------------------------------------------
(* Command lines *)

\* -m, -N, -n, -O, -o, -s and the bytes of axiom-rdma; node 9 is not in the run
CommandLines ==
  {o \in [mode : {"READ", "WRITE", "STORE", "DUMP"}, master : {1, 4, 9, Null}, slave : {1, 4, Null},
          moff : {0, 1}, soff : {0, 2}, size : {2, 3}, bytes : {<<5>>, <<5, 6>>}] :
     Len(o.bytes) <= o.size}

\* all texts of up to two characters
ShortPieces == UNION {[1 .. k -> {"x", "nl"}] : k \in 1 .. 2}

\* next hops from node 1 to node 4: directly, over nodes 2 and 3, or not at all
NextHops ==
  {[n \in 1 .. 4 |-> CASE n = 1 -> a [] n = 2 -> b [] n = 3 -> 4 [] OTHER -> 4] :
     a \in {2, 3, 4, Unreachable}, b \in {3, 4, Unreachable}}

\* two threads serve a stream of one LONG packet or of two RDMA writes
ThreadedServer ==
  [type : {"long", "rdma"}, letter : {"B"}, length : {3}, payload : {0}, threads : {{1}},
   servers : {{1, 2}}]

\* -t, -l, -L and -n of axiom-netperf; 1G is the length that wraps to 0
Cut == [raw |-> 2, long |-> 3, rdma |-> 2, srdma |-> 2]
ClientStreams ==
  {s \in [type : DOMAIN Cut, letter : {"B", "K", "G"}, length : {1, 2, 3}, payload : {0, 1, 3},
          threads : {{1}, {1, 2}}, servers : {{1}}] :
     /\ <<s.letter, s.length>> \in {<<"B", 3>>, <<"K", 2>>, <<"G", 1>>}
     /\ Cardinality(s.threads) = 2 => s.letter = "B" /\ s.payload = 1}
    \cup ThreadedServer

\* axiom-send and axiom-recv
Payloads == {<<>>, <<7>>, <<7, 8, 9>>, <<7, 8, 9, 7, 8, 9, 7>>}
Sends == [type : {"raw", "any"}, bytes : Payloads, repeat : {0, 3}, iov : {0, 2, 9}, count : {2}]
Recvs ==
  {r \in [type : {"raw", "any"}, once : BOOLEAN, noblock : BOOLEAN, flush : BOOLEAN,
          iov : {0, 3}, max : {5, 6}] : r.iov = 0 <=> r.max = 6}

-----------------------------------------------------------------------------
\* the variables of the other parts start with any one of their values
Fixed(p, choice) == part # p => choice

MCInit ==
  /\ part \in Parts
  /\ Init /\ RpcInit
  /\ RdmaInit /\ Fixed("rdma", opt = CHOOSE o \in Options : TRUE)
  /\ LineInit /\ Fixed("lines", ident /\ other)
  /\ PingInit /\ Fixed("ping", count = (CHOOSE c \in Counts : TRUE) /\ port = {})
  /\ TraceInit /\ Fixed("trace", route = CHOOSE r \in Routes : TRUE)
  /\ netLost = 0
  /\ NetperfInit /\ Fixed("netperf", stream = CHOOSE s \in Streams : TRUE)
  /\ SendRecvInit /\ Fixed("send", /\ snd = CHOOSE s \in SendLines : TRUE
                                   /\ rcv = CHOOSE r \in RecvLines : TRUE)

barrierVars == vars
all == <<part, barrierVars, rpcVars, rdmaVars, lineVars, netVars, npVars, srVars>>

BarrierPart(A) ==
  part = "barrier" /\ A /\ UNCHANGED <<part, rpcVars, rdmaVars, lineVars, netVars, npVars, srVars>>
RpcPart(A) ==
  part = "rpc" /\ A /\ UNCHANGED <<part, vars, rdmaVars, lineVars, netVars, npVars, srVars>>
RdmaPart(A) ==
  part = "rdma" /\ A /\ UNCHANGED <<part, vars, rpcVars, lineVars, netVars, npVars, srVars>>
LinePart(A) ==
  part = "lines" /\ A /\ UNCHANGED <<part, vars, rpcVars, rdmaVars, netVars, npVars, srVars>>
NetPart(p, A) ==
  part = p /\ A /\ UNCHANGED <<part, vars, rpcVars, rdmaVars, lineVars, npVars, srVars>>
NetperfPart(A) ==
  part = "netperf" /\ A /\ UNCHANGED <<part, vars, rpcVars, rdmaVars, lineVars, netVars, srVars>>
SendPart(A) ==
  part = "send" /\ A /\ UNCHANGED <<part, vars, rpcVars, rdmaVars, lineVars, netVars, npVars>>

MCNext ==
  \/ BarrierPart(Next) \/ RpcPart(RpcNext) \/ RdmaPart(RdmaNext) \/ LinePart(LineNext)
  \/ NetPart("ping", PingNext) \/ NetPart("trace", TraceStep) \/ NetperfPart(NetperfNext)
  \/ SendPart(SendRecvNext)

\* every thread and process goes on as long as it can; calls need not fail
MCSpec ==
  /\ MCInit /\ [][MCNext]_all
  /\ \A n \in Nodes : WF_all(BarrierPart(StartSocket(n)))
  /\ \A e \in Callers : /\ WF_all(BarrierPart(sock_thread(e)))
                        /\ WF_all(BarrierPart(master_receiver(e)))
                        /\ WF_all(BarrierPart(recv_thread(e)))
                        /\ WF_all(BarrierPart(SyncReturns(e)))
  /\ WF_all(RpcPart(RpcServer))
  /\ \A n \in Pair : WF_all(RdmaPart(RdmaStep(n)))
  /\ WF_all(NetPart("ping", SenderThread)) /\ WF_all(NetPart("ping", axiom_pong))
  /\ WF_all(NetPart("ping", MainThread))
  /\ WF_all(NetPart("trace", TraceStart \/ axiom_traceroute_reply))
  /\ WF_all(NetPart("trace", recv_tracereoute_reply))
  /\ \A t \in NpThreads : WF_all(NetperfPart(Works /\ ClientStep(t)))
  /\ WF_all(NetperfPart(\E f \in flying : RdmaWritten(f)))
  /\ \A w \in NpServers :
       WF_all(NetperfPart(Works /\ (axnetperf_server(w) \/ axiom_netperf_reply(w))))

\* The two processes of axiom-rdma end.
RdmaEnds == part = "rdma" => BothEnd

\* axiom-ping -c, axiom-traceroute and the client of axiom-netperf end as
\* long as nothing is lost and no call fails (none of them has a timeout),
\* axiom-netperf for a stream that is not empty and a server of one thread.
ToolsEnd ==
  <>CASE part = "ping" -> PingDone
      [] part = "trace" -> TraceDone
      [] part = "netperf" ->
           (stream \in NotEmpty /\ Cardinality(stream.servers) = 1 => NetperfDone)
      [] OTHER -> TRUE
=============================================================================
