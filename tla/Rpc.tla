-------------------------------- MODULE Rpc --------------------------------
(***************************************************************************)
(* The RPC service of axiom-run: axrun_rpc in a thread of the application  *)
(* (lib/rpc.c), sock_thread and recv_thread of its slave (slave.c) and     *)
(* rpc_service of the master (rpcfuncs.c), with the level-2 allocator it   *)
(* calls and the allocator of axiom-init behind that (both libraries).     *)
(*                                                                         *)
(* A reply finds its caller by node and thread id alone, so a thread       *)
(* stands for both; the number of the call is history.                     *)
(***************************************************************************)
EXTENDS Integers, Sequences, FiniteSets

CONSTANTS
  Threads,      \* the threads of the applications that call axrun_rpc
  Allocators,   \* the threads that call AXRUN_RPC_ALLOC
  Hasty,        \* the threads that also call without a buffer for the reply
  NoRequest,    \* rpc_reply before the first postponed request
  MaxRpcs,      \* bound on the calls of one thread
  MaxRpcLosses  \* bound on lost messages

VARIABLES
  nth,       \* nth[t]: history, the calls thread t has made
  socket,    \* socket[t]: the reply socket of thread t is bound
  box,       \* box[t]: replies in that socket
  queued,    \* requests in the sockets of the slaves
  sent,      \* requests on their way to the master
  rpc_reply, \* the request whose reply the master has postponed
  pending,   \* requests the allocator of axiom-init has not answered yet
  replies,   \* replies on their way to the slaves
  astray,    \* history: the threads that returned with the reply to another request
  mixed,     \* history: a request was postponed while another one was
  rpcLost    \* history: messages lost

rpcVars == <<nth, socket, box, queued, sent, rpc_reply, pending, replies,
             astray, mixed, rpcLost>>

\* AXRUN_RPC_GET_REGIONS and ALLOC_SHBLOCK are answered like a PING
Functions == {"PING", "ALLOC"}

RpcInit ==
  /\ nth = [t \in Threads |-> 0] /\ socket = [t \in Threads |-> FALSE]
  /\ box = [t \in Threads |-> << >>]
  /\ queued = {} /\ sent = {} /\ replies = {} /\ astray = {}
  /\ rpc_reply = NoRequest /\ pending = << >>
  /\ mixed = FALSE /\ rpcLost = 0

LoseRpc == rpcLost < MaxRpcLosses /\ rpcLost' = rpcLost + 1

\* bind, sendmsg, and for a call without a buffer the end of it, which
\* closes and removes the socket at once
axrun_rpc(t, f, waits) ==
  /\ ~ socket[t] /\ nth[t] < MaxRpcs
  /\ f = "ALLOC" => t \in Allocators
  /\ ~ waits => t \in Hasty
  /\ nth' = [nth EXCEPT ![t] = @ + 1]
  /\ socket' = [socket EXCEPT ![t] = waits]
  /\ queued' = queued \cup {[t |-> t, k |-> nth[t] + 1, f |-> f]}
  /\ UNCHANGED <<box, sent, rpc_reply, pending, replies, astray, mixed, rpcLost>>

\* sock_thread of the slave
PassRequest(r) ==
  /\ queued' = queued \ {r}
  /\ \/ sent' = sent \cup {r} /\ UNCHANGED rpcLost
     \/ LoseRpc /\ UNCHANGED sent
  /\ UNCHANGED <<nth, socket, box, rpc_reply, pending, replies, astray, mixed>>

Answer(to, q) == replies' = replies \cup {[to |-> to, q |-> q]}

\* only the request of the last caller is kept
rpc_postpone_reply(r) == rpc_reply' = r

\* mutant: the request is kept also when it is answered at once
AllocServed_Always(r, reply) ==
  /\ rpc_postpone_reply(r)
  /\ IF reply THEN Answer(r.t, r) /\ UNCHANGED <<pending, mixed>>
     ELSE /\ pending' = Append(pending, r) /\ mixed' = (mixed \/ pending # << >>)
          /\ UNCHANGED replies

\* mutant: a request that is answered at once gets no reply
AllocServed_Silent(r, reply) ==
  IF reply
  THEN UNCHANGED <<rpc_reply, pending, mixed, replies>>
  ELSE /\ rpc_postpone_reply(r)
       /\ pending' = Append(pending, r) /\ mixed' = (mixed \/ pending # << >>)
       /\ UNCHANGED replies

\* what the master does with the answer of axiom_al2_alloc: reply is true
\* when the library has answered the request itself
AllocServed(r, reply) ==
  IF reply
  THEN /\ Answer(r.t, r)
       /\ UNCHANGED <<rpc_reply, pending, mixed>>
  ELSE /\ rpc_postpone_reply(r)
       /\ pending' = Append(pending, r)
       /\ mixed' = (mixed \/ pending # << >>)
       /\ UNCHANGED replies

\* CMD_RPC at the master; PING and GET_REGIONS are answered at once
rpc_service(r) ==
  /\ sent' = sent \ {r}
  /\ IF r.f = "ALLOC"
     THEN \E reply \in BOOLEAN : AllocServed(r, reply)
     ELSE /\ Answer(r.t, r)
          /\ UNCHANGED <<rpc_reply, pending, mixed>>
  /\ UNCHANGED <<nth, socket, box, queued, astray, rpcLost>>

\* AXIOM_CMD_ALLOC_REPLY at the master: the reply goes to the request kept
\* last, which stays there. A reply may be lost on the way, or be one that
\* axiom_al2_alloc_reply refuses.
AllocReply ==
  /\ pending # << >>
  /\ pending' = Tail(pending)
  /\ \/ Answer(rpc_reply.t, Head(pending)) /\ UNCHANGED rpcLost
     \/ LoseRpc /\ UNCHANGED replies
  /\ UNCHANGED <<nth, socket, box, queued, sent, rpc_reply, astray, mixed>>

\* recv_thread of the slave passes a reply on to the socket named after the
\* thread, if there is one
PassReply(m) ==
  /\ replies' = replies \ {m}
  /\ box' = [box EXCEPT ![m.to] = IF socket[m.to] THEN Append(@, m.q) ELSE @]
  /\ UNCHANGED <<nth, socket, queued, sent, rpc_reply, pending, astray, mixed, rpcLost>>

\* the end of axrun_rpc: one datagram is taken, the socket is removed
RpcReturns(t) ==
  /\ socket[t] /\ box[t] # << >>
  /\ astray' = IF Head(box[t]).t = t /\ Head(box[t]).k = nth[t] THEN astray ELSE astray \cup {t}
  /\ socket' = [socket EXCEPT ![t] = FALSE]
  /\ box' = [box EXCEPT ![t] = << >>]
  /\ UNCHANGED <<nth, queued, sent, rpc_reply, pending, replies, mixed, rpcLost>>

RpcServer ==
  \/ \E r \in queued : PassRequest(r)
  \/ \E r \in sent : rpc_service(r)
  \/ AllocReply
  \/ \E m \in replies : PassReply(m)
  \/ \E t \in Threads : RpcReturns(t)

RpcNext ==
  \/ \E t \in Threads : \E f \in Functions : \E w \in BOOLEAN : axrun_rpc(t, f, w)
  \/ RpcServer
-----------------------------------------------------------------------------
\* a call returns with the reply to its own request, however the replies of
\* several threads overtake one another, as long as one request at a time
\* waits for the allocator (the one slot of rpc_postpone_reply) and the
\* thread has not left a reply behind with a call without a buffer
OwnReply == mixed \/ astray \subseteq Hasty

\* every call that waits gets a reply under the same conditions, if no
\* message is lost
RpcEnds == \A t \in Threads : socket[t] ~> (~ socket[t] \/ mixed \/ rpcLost > 0)
=============================================================================
