--------------------------- MODULE ServicesProofs ---------------------------
(***************************************************************************)
(* Proofs about two services that axiom-run offers to the application: the *)
(* barrier and the remote procedure call, for any nodes, barriers, threads *)
(* and numbers of calls and lost messages.                                 *)
(***************************************************************************)
EXTENDS Barrier, Rpc, FiniteSetTheorems, TLAPS

-----------------------------------------------------------------------------
(* The barrier service *)

\* the run has at least one node (info->nnodes)
LEMMA NNodesPositive == NNodes \in Nat /\ NNodes > 0
<1>1. NNodes \in Nat
  BY BarrierAssumption, FS_CardinalityType DEF NNodes
<1>2. NNodes # 0
  BY BarrierAssumption, FS_EmptySet DEF NNodes
<1> QED
  BY <1>1, <1>2

\* the master counts a node that is not yet in the round: the counter
\* reaches zero exactly when it was the last one missing
LEMMA CountedLast ==
  ASSUME NEW b \in Ids, CounterTrue(b), arrived[b] \subseteq Nodes,
         NEW n \in Nodes, n \notin arrived[b]
  PROVE  /\ Counted(counter[b]) = 0 <=> arrived[b] \cup {n} = Nodes
         /\ Counted(counter[b]) = NNodes - Cardinality(arrived[b] \cup {n})
         /\ Counted(counter[b]) \in Nat
<1> DEFINE A == arrived[b]
<1>1. IsFiniteSet(A) /\ Cardinality(A) \in Nat
  BY BarrierAssumption, FS_Subset, FS_CardinalityType
<1>2. Cardinality(A \cup {n}) = Cardinality(A) + 1 /\ IsFiniteSet(A \cup {n})
  BY <1>1, FS_AddElement
<1>3. /\ Cardinality(A \cup {n}) <= NNodes
      /\ Cardinality(A \cup {n}) = NNodes => A \cup {n} = Nodes
  BY BarrierAssumption, FS_Subset, A \cup {n} \subseteq Nodes DEF NNodes
<1>4. A = {} => Cardinality(A) = 0
  BY FS_EmptySet
<1>5. A # {} => Cardinality(A) # 0
  BY <1>1, FS_EmptySet
<1>6. counter[b] = NNodes - Cardinality(A) \/ (counter[b] = 0 /\ Cardinality(A) = 0)
  BY <1>4 DEF CounterTrue
<1>7. A # {} => counter[b] # 0
  BY <1>2, <1>3, <1>1, NNodesPositive DEF CounterTrue
<1>8. A = {} => counter[b] = 0
  BY DEF CounterTrue
<1>9. Counted(counter[b]) = NNodes - Cardinality(A \cup {n})
  BY <1>1, <1>2, <1>4, <1>6, <1>7, <1>8, NNodesPositive DEF Counted
<1>10. A \cup {n} = Nodes => Cardinality(A \cup {n}) = NNodes
  BY DEF NNodes
<1> QED
  BY <1>1, <1>2, <1>3, <1>9, <1>10, NNodesPositive

\* a caller is a node and a barrier id
LEMMA CallerPair ==
  ASSUME NEW e \in Callers
  PROVE  e[1] \in Nodes /\ e[2] \in Ids /\ e = <<e[1], e[2]>>
BY DEF Callers

\* the round invariant holds before any call
LEMMA RoundInit == Init => RoundInv
<1> SUFFICES ASSUME Init PROVE RoundInv
  OBVIOUS
<1>1. TypeOK
  BY DEF Init, TypeOK
<1>2. ASSUME NEW b \in Ids PROVE CounterTrue(b)
  BY BarrierAssumption DEF Init, CounterTrue
<1>3. ASSUME NEW e \in Callers PROVE InRound(e)
  BY CallerPair DEF Init, InRound, Tokens
<1> QED
  BY <1>1, <1>2, <1>3 DEF RoundInv

\* starting a socket, calling, passing on and returning touch one caller and
\* leave the counters of the master alone
LEMMA StartSocketKeeps ==
  ASSUME RoundInv, NEW n \in Nodes, StartSocket(n)
  PROVE  RoundInv'
BY DEF RoundInv, StartSocket, hops, TypeOK, CounterTrue, InRound, Tokens

\* a call of axrun_sync joins the round its barrier is in
LEMMA SyncKeeps ==
  ASSUME RoundInv, NEW e \in Callers, axrun_sync(e)
  PROVE  RoundInv'
<1>1. TypeOK'
  BY DEF RoundInv, TypeOK, axrun_sync
<1>2. ASSUME NEW b \in Ids PROVE CounterTrue(b)'
  BY DEF RoundInv, CounterTrue, axrun_sync
<1>3. ASSUME NEW f \in Callers PROVE InRound(f)'
  BY CallerPair DEF RoundInv, TypeOK, InRound, Tokens, axrun_sync
<1> QED
  BY <1>1, <1>2, <1>3 DEF RoundInv

\* sock_thread moves or loses the one request of a call
LEMMA SockThreadKeeps ==
  ASSUME RoundInv, NEW e \in Callers, sock_thread(e)
  PROVE  RoundInv'
<1>1. TypeOK'
  BY DEF RoundInv, TypeOK, sock_thread, Lose
<1>2. ASSUME NEW b \in Ids PROVE CounterTrue(b)'
  BY DEF RoundInv, CounterTrue, sock_thread
<1>3. ASSUME NEW f \in Callers PROVE InRound(f)'
  BY CallerPair DEF RoundInv, TypeOK, InRound, Tokens, sock_thread, Lose
<1> QED
  BY <1>1, <1>2, <1>3 DEF RoundInv

\* recv_thread moves the one release of a call to its socket
LEMMA RecvThreadKeeps ==
  ASSUME RoundInv, NEW e \in Callers, recv_thread(e)
  PROVE  RoundInv'
<1>1. TypeOK'
  BY DEF RoundInv, TypeOK, recv_thread
<1>2. ASSUME NEW b \in Ids PROVE CounterTrue(b)'
  BY DEF RoundInv, CounterTrue, recv_thread
<1>3. ASSUME NEW f \in Callers PROVE InRound(f)'
  BY CallerPair DEF RoundInv, TypeOK, InRound, Tokens, recv_thread
<1> QED
  BY <1>1, <1>2, <1>3 DEF RoundInv

\* the return of axrun_sync takes the release of its own round
LEMMA SyncReturnsKeeps ==
  ASSUME RoundInv, NEW e \in Callers, SyncReturns(e)
  PROVE  RoundInv'
<1>1. TypeOK'
  BY DEF RoundInv, TypeOK, SyncReturns
<1>2. ASSUME NEW b \in Ids PROVE CounterTrue(b)'
  BY DEF RoundInv, CounterTrue, SyncReturns
<1>3. ASSUME NEW f \in Callers PROVE InRound(f)'
  BY CallerPair DEF RoundInv, TypeOK, InRound, Tokens, SyncReturns
<1> QED
  BY <1>1, <1>2, <1>3 DEF RoundInv

\* the node of a request that the master receives is not yet in the round
LEMMA RequestIsNew ==
  ASSUME RoundInv, NEW e \in Callers, net[e] > 0
  PROVE  e[1] \notin arrived[e[2]]
<1>1. InRound(e) /\ net[e] \in Nat /\ down[e] \in Nat /\ dgram[e] \in Nat /\ up[e] \in Nat
  BY DEF RoundInv, TypeOK
<1>2. e = <<e[1], e[2]>>
  BY CallerPair
<1> QED
  BY <1>1, <1>2 DEF InRound, Tokens

\* master_receiver counts a request that is not the last of its round
LEMMA MasterCounts ==
  ASSUME RoundInv, NEW e \in Callers, master_receiver(e), Counted(counter[e[2]]) # 0
  PROVE  RoundInv'
<1> DEFINE b == e[2]
<1>1. b \in Ids /\ e[1] \in Nodes /\ e[1] \notin arrived[b]
  BY CallerPair, RequestIsNew DEF master_receiver
<1>2. /\ arrived[b] \cup {e[1]} # Nodes
      /\ Counted(counter[b]) = NNodes - Cardinality(arrived[b] \cup {e[1]})
      /\ Counted(counter[b]) \in Nat
  BY <1>1, CountedLast, Zenon DEF RoundInv, TypeOK
<1>3. TypeOK'
  BY <1>1, <1>2 DEF RoundInv, TypeOK, master_receiver
<1>4. ASSUME NEW c \in Ids PROVE CounterTrue(c)'
  <2>1. CASE c # b
    BY <1>1, <2>1 DEF RoundInv, TypeOK, CounterTrue, master_receiver
  <2>2. CASE c = b
    <3>1. arrived'[b] = arrived[b] \cup {e[1]} /\ counter'[b] = Counted(counter[b])
      BY <1>1 DEF RoundInv, TypeOK, master_receiver
    <3> QED
      BY <1>2, <2>2, <3>1 DEF CounterTrue
  <2> QED
    BY <2>1, <2>2
<1>5. ASSUME NEW f \in Callers PROVE InRound(f)'
  <2>1. f[1] \in Nodes /\ f[2] \in Ids /\ f = <<f[1], f[2]>> /\ e = <<e[1], e[2]>>
    BY CallerPair
  <2>2. CASE f = e
    BY <1>1, <2>1, <2>2 DEF RoundInv, TypeOK, InRound, Tokens, master_receiver
  <2>3. CASE f # e
    <3>1. f[1] \in arrived[f[2]]' <=> f[1] \in arrived[f[2]]
      BY <1>1, <2>1, <2>3 DEF RoundInv, TypeOK, master_receiver
    <3>2. net'[f] = net[f] /\ rounds' = rounds /\ down' = down
      BY <1>1, <2>1, <2>3 DEF RoundInv, TypeOK, master_receiver
    <3> QED
      BY <3>1, <3>2, <2>1 DEF RoundInv, TypeOK, InRound, Tokens, master_receiver
  <2> QED
    BY <2>2, <2>3
<1> QED
  BY <1>3, <1>4, <1>5 DEF RoundInv

\* the last request of a round: all the others are in arrived, so the call of
\* every node is the one of this round
LEMMA MasterReleases ==
  ASSUME RoundInv, NEW e \in Callers, master_receiver(e), Counted(counter[e[2]]) = 0
  PROVE  RoundInv'
<1> DEFINE b == e[2]
<1>1. b \in Ids /\ e[1] \in Nodes /\ e[1] \notin arrived[b]
  BY CallerPair, RequestIsNew DEF master_receiver
<1>2. arrived[b] \cup {e[1]} = Nodes
  BY <1>1, CountedLast, Zenon DEF RoundInv, TypeOK
<1>3. PICK R \in SUBSET Nodes :
        /\ lost' = lost + Cardinality(Nodes \ R)
        /\ down' = [f \in Callers |->
                      IF f[2] = b /\ f[1] \in R THEN down[f] + 1 ELSE down[f]]
  BY Zenon DEF master_receiver
<1>4. Cardinality(Nodes \ R) \in Nat
  BY BarrierAssumption, FS_Subset, FS_CardinalityType, Nodes \ R \subseteq Nodes
<1>5. /\ net' = [net EXCEPT ![e] = @ - 1] /\ net[e] > 0
      /\ counter' = [counter EXCEPT ![b] = 0]
      /\ arrived' = [arrived EXCEPT ![b] = {}]
      /\ rounds' = [rounds EXCEPT ![b] = @ + 1]
      /\ UNCHANGED <<ready, bound, up, dgram, calls, rets>>
  BY Zenon DEF master_receiver
<1>6. TypeOK'
  <2>1. down' \in [Callers -> Nat] /\ lost' \in Nat
    BY <1>3, <1>4 DEF RoundInv, TypeOK
  <2>2. net' \in [Callers -> Nat] /\ counter' \in [Ids -> Nat]
    BY <1>1, <1>5 DEF RoundInv, TypeOK
  <2>3. arrived' \in [Ids -> SUBSET Nodes] /\ rounds' \in [Ids -> Nat]
    BY <1>1, <1>5 DEF RoundInv, TypeOK
  <2> QED
    BY <1>5, <2>1, <2>2, <2>3 DEF RoundInv, TypeOK
<1>7. ASSUME NEW c \in Ids PROVE CounterTrue(c)'
  BY <1>1, <1>5, BarrierAssumption DEF RoundInv, TypeOK, CounterTrue
<1>8. ASSUME NEW f \in Callers PROVE InRound(f)'
  <2>1. f[1] \in Nodes /\ f[2] \in Ids /\ f = <<f[1], f[2]>> /\ e = <<e[1], e[2]>>
    BY CallerPair
  <2>2. CASE f[2] # b
    BY <1>1, <1>5, <1>3, <2>1, <2>2 DEF RoundInv, TypeOK, InRound, Tokens
  <2>3. CASE f = e
    BY <1>1, <1>5, <1>3, <2>1, <2>3 DEF RoundInv, TypeOK, InRound, Tokens
  <2>4. CASE f[2] = b /\ f # e
    <3>1. f[1] \in arrived[b]
      BY <1>2, <2>1, <2>4
    <3> QED
      BY <1>1, <1>5, <1>3, <2>1, <2>4, <3>1 DEF RoundInv, TypeOK, InRound, Tokens
  <2> QED
    BY <2>2, <2>3, <2>4
<1> QED
  BY <1>6, <1>7, <1>8 DEF RoundInv

\* every step of the service keeps the round invariant
LEMMA RoundStep == RoundInv /\ [Next]_vars => RoundInv'
<1> SUFFICES ASSUME RoundInv, [Next]_vars PROVE RoundInv'
  OBVIOUS
<1>1. CASE UNCHANGED vars
  BY <1>1 DEF vars, RoundInv, TypeOK, CounterTrue, InRound, Tokens
<1>2. CASE \E n \in Nodes : StartSocket(n)
  BY <1>2, StartSocketKeeps
<1>3. CASE \E e \in Callers : \/ axrun_sync(e) \/ sock_thread(e) \/ master_receiver(e)
                              \/ recv_thread(e) \/ SyncReturns(e)
  BY <1>3, SyncKeeps, SockThreadKeeps, MasterCounts, MasterReleases,
     RecvThreadKeeps, SyncReturnsKeeps
<1> QED
  BY <1>1, <1>2, <1>3 DEF Next

\* one counter per barrier keeps the rounds apart, for any number of nodes,
\* calls and lost messages (CMD_BARRIER in master_receiver)
THEOREM RoundsKeptApart == Spec => []RoundInv
BY RoundInit, RoundStep, PTL DEF Spec

\* no node has returned from a round that another has not entered, and a
\* release that has reached a call is for a round all nodes have entered
LEMMA CallsOfRound ==
  ASSUME RoundInv, NEW n \in Nodes, NEW m \in Nodes, NEW b \in Ids
  PROVE  /\ rets[<<n, b>>] <= calls[<<m, b>>]
         /\ dgram[<<n, b>>] > 0 => rets[<<n, b>>] < calls[<<m, b>>]
<1>1. <<n, b>> \in Callers /\ <<m, b>> \in Callers
  BY DEF Callers
<1>2. InRound(<<n, b>>) /\ InRound(<<m, b>>)
  BY <1>1 DEF RoundInv
<1>3. rounds[b] <= calls[<<m, b>>]
  BY <1>1, <1>2 DEF RoundInv, TypeOK, InRound
<1>4. rets[<<n, b>>] <= rounds[b]
  BY <1>1, <1>2 DEF RoundInv, TypeOK, InRound
<1>5. dgram[<<n, b>>] > 0 => rets[<<n, b>>] < rounds[b]
  BY <1>1, <1>2 DEF RoundInv, TypeOK, InRound, Tokens
<1> QED
  BY <1>1, <1>3, <1>4, <1>5 DEF RoundInv, TypeOK

\* nobody leaves a barrier before everybody has reached it (axrun_sync)
THEOREM NobodyIsAhead == Spec => []NobodyAhead
<1>1. RoundInv => NobodyAhead
  BY Zenon, CallsOfRound DEF NobodyAhead
<1> QED
  BY <1>1, RoundsKeptApart, PTL

\* every step of the service is a call, a return or a stutter of the barrier
LEMMA BarrierSimulates ==
  RoundInv /\ [Next]_vars => [Abstract!Next]_<<calls, rets>>
<1> SUFFICES ASSUME RoundInv, [Next]_vars PROVE [Abstract!Next]_<<calls, rets>>
  OBVIOUS
<1>1. ASSUME NEW e \in Callers, axrun_sync(e) PROVE Abstract!Arrive(e)
  BY <1>1 DEF axrun_sync, Abstract!Arrive, RoundInv, TypeOK, InRound
<1>2. ASSUME NEW e \in Callers, SyncReturns(e) PROVE Abstract!Leave(e)
  <2>1. ASSUME NEW m \in Nodes PROVE rets[e] < calls[<<m, e[2]>>]
    BY <1>2, CallsOfRound, CallerPair DEF SyncReturns
  <2>2. rets[e] < calls[e]
    BY <1>2, <2>1, CallerPair
  <2> QED
    BY <1>2, <2>1, <2>2 DEF SyncReturns, Abstract!Leave
<1>3. UNCHANGED vars => UNCHANGED <<calls, rets>>
  BY DEF vars
<1>4. ASSUME NEW n \in Nodes, StartSocket(n) PROVE UNCHANGED <<calls, rets>>
  BY <1>4 DEF StartSocket
<1>5. ASSUME NEW e \in Callers, sock_thread(e) \/ master_receiver(e) \/ recv_thread(e)
      PROVE UNCHANGED <<calls, rets>>
  BY <1>5 DEF sock_thread, master_receiver, recv_thread
<1>6. Callers = Abstract!Callers
  BY DEF Callers, Abstract!Callers
<1> QED
  BY <1>1, <1>2, <1>3, <1>4, <1>5, <1>6 DEF Next, Abstract!Next

\* the service over sockets, network, counters and lost messages implements
\* the barrier axiom_run_api.h promises
THEOREM ImplementsBarrier == Spec => AbstractBarrier
<1>1. Init => Abstract!Init
  BY DEF Init, Abstract!Init, Callers, Abstract!Callers
<1> QED
  BY <1>1, BarrierSimulates, RoundsKeptApart, PTL DEF Spec, AbstractBarrier, Abstract!Spec

-----------------------------------------------------------------------------
(* A remote procedure call returns with the reply to its own request *)

RpcSpec == RpcInit /\ [][RpcNext]_rpcVars

Requests == [t : Threads, k : Nat, f : Functions]

RpcTypeOK ==
  /\ nth \in [Threads -> Nat] /\ socket \in [Threads -> BOOLEAN]
  /\ box \in [Threads -> Seq(Requests)]
  /\ queued \subseteq Requests /\ sent \subseteq Requests
  /\ pending \in Seq(Requests)
  /\ replies \subseteq [to : Threads, q : Requests]

\* one request at most waits for the allocator, and it is the one the master
\* keeps in rpc_reply
SlotTrue ==
  pending # << >> => Tail(pending) = << >> /\ Head(pending) = rpc_reply

\* where the request of thread t, or its reply, can be
InQueue(t) == \E r \in queued : r.t = t
InNet(t) == \E r \in sent : r.t = t
Postponed(t) == pending # << >> /\ Head(pending).t = t
Replied(t) == \E m \in replies : m.to = t
Arrived(t) == box[t] # << >>
Nowhere(t) ==
  ~InQueue(t) /\ ~InNet(t) /\ ~Postponed(t) /\ ~Replied(t) /\ ~Arrived(t)

\* request r is that of the call thread t is in
Current(r, t) == r.t = t /\ r.k = nth[t]

\* the one message of a call: it is in one place only, and it is the request
\* of the call the thread is in or the reply to it
OneMessage(t) ==
  /\ ~socket[t] => Nowhere(t)
  /\ InQueue(t) => ~InNet(t) /\ ~Postponed(t) /\ ~Replied(t) /\ ~Arrived(t)
  /\ InNet(t) => ~Postponed(t) /\ ~Replied(t) /\ ~Arrived(t)
  /\ Postponed(t) => ~Replied(t) /\ ~Arrived(t)
  /\ Replied(t) => ~Arrived(t)
  /\ \A r \in queued \cup sent : r.t = t => r.k = nth[t]
  /\ \A r, s \in queued : r.t = t /\ s.t = t => r = s
  /\ \A r, s \in sent : r.t = t /\ s.t = t => r = s
  /\ Postponed(t) => Head(pending).k = nth[t]
  /\ \A m \in replies : m.to = t => Current(m.q, t)
  /\ \A m, l \in replies : m.to = t /\ l.to = t => m = l
  /\ Arrived(t) => Current(Head(box[t]), t)

Good ==
  /\ RpcTypeOK /\ SlotTrue /\ astray \subseteq Hasty
  /\ \A t \in Threads \ Hasty : OneMessage(t)

\* the inductive invariant: as long as no two requests have been postponed at
\* once, every thread that always waits for its replies has one message
RpcInv == mixed \/ Good
-----------------------------------------------------------------------------
\* before the first call there is no message
LEMMA RpcInitGood == RpcInit => RpcInv
BY DEF RpcInit, RpcInv, Good, RpcTypeOK, SlotTrue, OneMessage, Nowhere, InQueue, InNet,
       Postponed, Replied, Arrived, Requests

\* a reply goes to a thread
LEMMA ReplyType ==
  ASSUME NEW r \in Requests
  PROVE  [to |-> r.t, q |-> r] \in [to : Threads, q : Requests]
BY DEF Requests

\* a call starts with no message of its thread under way
LEMMA CallKeeps ==
  ASSUME Good, NEW t \in Threads, NEW f \in Functions, NEW w \in BOOLEAN, axrun_rpc(t, f, w)
  PROVE  Good'
<1> DEFINE new == [t |-> t, k |-> nth[t] + 1, f |-> f]
<1>1. new \in Requests
  BY DEF Good, RpcTypeOK, Requests
<1>2. RpcTypeOK' /\ SlotTrue' /\ (astray \subseteq Hasty)'
  BY <1>1 DEF Good, RpcTypeOK, SlotTrue, axrun_rpc
<1>3. ASSUME NEW u \in Threads \ Hasty PROVE OneMessage(u)'
  <2>1. OneMessage(u)
    BY DEF Good
  <2>2. CASE u = t
    BY <2>1, <2>2 DEF Good, RpcTypeOK, axrun_rpc, OneMessage, Nowhere, InQueue, InNet, Postponed,
          Replied, Arrived, Current
  <2>3. CASE u # t
    BY <2>1, <2>3 DEF Good, RpcTypeOK, axrun_rpc, OneMessage, Nowhere, InQueue, InNet, Postponed,
          Replied, Arrived, Current
  <2> QED
    BY <2>2, <2>3
<1> QED
  BY <1>2, <1>3 DEF Good

\* sock_thread moves a request from the socket to the net, or loses it
LEMMA PassRequestKeeps ==
  ASSUME Good, NEW r \in queued, PassRequest(r)
  PROVE  Good'
<1>1. RpcTypeOK' /\ SlotTrue' /\ (astray \subseteq Hasty)'
  BY DEF Good, RpcTypeOK, SlotTrue, PassRequest
<1>2. ASSUME NEW u \in Threads \ Hasty PROVE OneMessage(u)'
  <2>1. OneMessage(u)
    BY DEF Good
  <2>2. /\ queued' = queued \ {r} /\ (sent' = sent \/ sent' = sent \cup {r})
        /\ UNCHANGED <<nth, socket, box, pending, replies>>
    BY DEF PassRequest
  <2>3. CASE r.t = u
    BY <2>1, <2>2, <2>3 DEF OneMessage, Nowhere, InQueue, InNet, Postponed, Replied, Arrived,
          Current
  <2>4. CASE r.t # u
    BY <2>1, <2>2, <2>4 DEF OneMessage, Nowhere, InQueue, InNet, Postponed, Replied, Arrived,
          Current
  <2> QED
    BY <2>3, <2>4
<1> QED
  BY <1>1, <1>2 DEF Good

\* rpc_service turns a request into its reply
LEMMA AnswerKeeps ==
  ASSUME Good, NEW r \in sent, sent' = sent \ {r}, Answer(r.t, r),
         UNCHANGED <<nth, socket, box, queued, astray, rpc_reply, pending>>
  PROVE  Good'
<1>1. [to |-> r.t, q |-> r] \in [to : Threads, q : Requests]
  BY ReplyType DEF Good, RpcTypeOK
<1>2. RpcTypeOK'
  BY <1>1 DEF Good, RpcTypeOK, Answer
<1>3. SlotTrue' /\ (astray \subseteq Hasty)'
  BY DEF Good, SlotTrue
<1>4. ASSUME NEW u \in Threads \ Hasty PROVE OneMessage(u)'
  <2>1. OneMessage(u)
    BY DEF Good
  <2> QED
    BY <2>1 DEF Good, RpcTypeOK, Answer, OneMessage, Nowhere, InQueue, InNet, Postponed,
          Replied, Arrived, Current
<1> QED
  BY <1>2, <1>4, <1>3 DEF Good

\* rpc_service postpones a request while no other one is postponed
LEMMA PostponeKeeps ==
  ASSUME Good, NEW r \in sent, sent' = sent \ {r}, pending = << >>,
         rpc_postpone_reply(r), pending' = Append(pending, r),
         UNCHANGED <<nth, socket, box, queued, astray, replies>>
  PROVE  Good'
<1>1. r \in Requests
  BY DEF Good, RpcTypeOK
<1>2. pending' \in Seq(Requests) /\ pending' # << >> /\ Head(pending') = r /\ Tail(pending') = << >>
  BY <1>1 DEF Good, RpcTypeOK
<1>3. RpcTypeOK' /\ SlotTrue' /\ (astray \subseteq Hasty)'
  BY <1>2 DEF Good, RpcTypeOK, SlotTrue, rpc_postpone_reply
<1>4. ASSUME NEW u \in Threads \ Hasty PROVE OneMessage(u)'
  <2>1. OneMessage(u)
    BY DEF Good
  <2> QED
    BY <1>2, <2>1 DEF Good, RpcTypeOK, OneMessage, Nowhere, InQueue, InNet, Postponed,
          Replied, Arrived, Current
<1> QED
  BY <1>3, <1>4 DEF Good

\* the answer of the allocator goes to the thread that asked, the one kept in
\* rpc_reply, or is lost
LEMMA AllocReplyKeeps ==
  ASSUME Good, AllocReply
  PROVE  Good'
<1> DEFINE r == Head(pending)
<1>1. r \in Requests /\ rpc_reply = r /\ pending' = << >>
  BY DEF Good, RpcTypeOK, SlotTrue, AllocReply
<1>2. replies' = replies \cup {[to |-> r.t, q |-> r]} \/ replies' = replies
  BY <1>1 DEF AllocReply, Answer
<1> HIDE DEF r
<1>3. [to |-> r.t, q |-> r] \in [to : Threads, q : Requests]
  BY <1>1, ReplyType
<1>4. RpcTypeOK' /\ SlotTrue' /\ (astray \subseteq Hasty)'
  BY <1>1, <1>2, <1>3 DEF Good, RpcTypeOK, SlotTrue, AllocReply
<1>5. /\ pending # << >> /\ r = Head(pending)
      /\ UNCHANGED <<nth, socket, box, queued, sent>>
  BY Zenon DEF AllocReply, r
<1>6. ASSUME NEW u \in Threads \ Hasty PROVE OneMessage(u)'
  <2>1. OneMessage(u)
    BY DEF Good
  <2> QED
    BY ONLY <1>1, <1>2, <1>5, <2>1 DEF OneMessage, Nowhere, InQueue, InNet,
          Postponed, Replied, Arrived, Current
<1> QED
  BY <1>4, <1>6 DEF Good

\* a datagram put into an empty socket is the first one in it
LEMMA FirstDatagram ==
  ASSUME NEW s \in Seq(Requests), NEW q \in Requests
  PROVE  /\ Append(s, q) \in Seq(Requests) /\ Append(s, q) # << >>
         /\ s = << >> => Head(Append(s, q)) = q
<1>1. Append(s, q) \in Seq(Requests)
  OBVIOUS
<1>2. Len(Append(s, q)) = Len(s) + 1 /\ Len(s) \in Nat
  OBVIOUS
<1>3. ASSUME s = << >> PROVE Head(Append(s, q)) = q
  BY <1>3
<1> QED
  BY <1>1, <1>2, <1>3

\* recv_thread puts a reply into the socket of its thread
LEMMA PassReplyKeeps ==
  ASSUME Good, NEW m \in replies, PassReply(m)
  PROVE  Good'
<1>1. m.to \in Threads /\ m.q \in Requests /\ box[m.to] \in Seq(Requests)
  BY DEF Good, RpcTypeOK
<1>2. /\ Append(box[m.to], m.q) \in Seq(Requests)
      /\ Append(box[m.to], m.q) # << >>
      /\ box[m.to] = << >> => Head(Append(box[m.to], m.q)) = m.q
  BY <1>1, FirstDatagram
<1>3. RpcTypeOK' /\ SlotTrue' /\ (astray \subseteq Hasty)'
  BY <1>1, <1>2 DEF Good, RpcTypeOK, SlotTrue, PassReply
<1>4. ASSUME NEW u \in Threads \ Hasty PROVE OneMessage(u)'
  <2>1. OneMessage(u)
    BY DEF Good
  <2>2. CASE u = m.to
    <3>1. box[u] = << >> /\ socket[u] /\ Current(m.q, u)
      BY <2>1, <2>2 DEF OneMessage, Replied, Arrived, Nowhere
    <3>2. box'[u] = Append(box[u], m.q)
      BY <1>1, <2>2, <3>1 DEF PassReply, Good, RpcTypeOK
    <3>3. Arrived(u)' /\ Current(Head(box[u]), u)'
      BY <1>2, <2>2, <3>1, <3>2 DEF Arrived, Current, PassReply
    <3>4. ~InQueue(u)' /\ ~InNet(u)' /\ ~Postponed(u)' /\ ~Replied(u)' /\ socket'[u]
      BY <2>1, <2>2, <3>1 DEF OneMessage, InQueue, InNet, Postponed, Replied, PassReply
    <3> QED
      BY <3>3, <3>4 DEF OneMessage, InQueue, InNet, Postponed, Replied
  <2>3. CASE u # m.to
    <3>1. box'[u] = box[u]
      BY <2>3 DEF PassReply, Good, RpcTypeOK
    <3> QED
      BY <2>1, <2>3, <3>1 DEF PassReply, OneMessage, Nowhere, InQueue, InNet, Postponed,
            Replied, Arrived, Current
  <2> QED
    BY <2>2, <2>3
<1> QED
  BY <1>3, <1>4 DEF Good

\* axrun_rpc returns with the one reply of its thread, so none is left behind
LEMMA ReturnKeeps ==
  ASSUME Good, NEW t \in Threads, RpcReturns(t)
  PROVE  Good'
<1>1. t \in Hasty \/ astray' = astray
  BY DEF Good, RpcReturns, OneMessage, Arrived, Current
<1>2. RpcTypeOK' /\ SlotTrue' /\ (astray \subseteq Hasty)'
  BY <1>1 DEF Good, RpcTypeOK, SlotTrue, RpcReturns
<1>3. ASSUME NEW u \in Threads \ Hasty PROVE OneMessage(u)'
  <2>1. OneMessage(u)
    BY DEF Good
  <2>2. CASE u = t
    BY <2>1, <2>2 DEF Good, RpcTypeOK, RpcReturns, OneMessage, Nowhere, InQueue, InNet,
          Postponed, Replied, Arrived, Current
  <2>3. CASE u # t
    BY <2>1, <2>3 DEF Good, RpcTypeOK, RpcReturns, OneMessage, Nowhere, InQueue, InNet,
          Postponed, Replied, Arrived, Current
  <2> QED
    BY <2>2, <2>3
<1> QED
  BY <1>2, <1>3 DEF Good

\* every step of the service keeps the invariant, or two requests are postponed
LEMMA RpcStep == RpcInv /\ [RpcNext]_rpcVars => RpcInv'
<1> SUFFICES ASSUME RpcInv, [RpcNext]_rpcVars PROVE RpcInv'
  OBVIOUS
<1>1. CASE mixed
  <2>1. mixed'
    BY <1>1, Zenon DEF RpcNext, RpcServer, rpcVars, axrun_rpc, PassRequest, rpc_service,
          AllocServed, AllocReply, PassReply, RpcReturns
  <2> QED
    BY <2>1 DEF RpcInv
<1>2. CASE Good
  <2>1. CASE UNCHANGED rpcVars
    <3>1. RpcTypeOK' /\ SlotTrue' /\ (astray \subseteq Hasty)'
      BY Zenon, <1>2, <2>1 DEF rpcVars, Good, RpcTypeOK, SlotTrue
    <3>2. ASSUME NEW u \in Threads \ Hasty PROVE OneMessage(u)'
      <4>1. OneMessage(u)
        BY Zenon, <1>2 DEF Good
      <4> QED
        BY Zenon, <2>1, <4>1 DEF rpcVars, OneMessage, Nowhere, InQueue, InNet, Postponed,
              Replied, Arrived, Current
    <3> QED
      BY Zenon, <3>1, <3>2 DEF RpcInv, Good
  <2>2. ASSUME NEW t \in Threads, NEW f \in Functions, NEW w \in BOOLEAN, axrun_rpc(t, f, w)
        PROVE  RpcInv'
    BY <1>2, <2>2, CallKeeps DEF RpcInv
  <2>3. ASSUME NEW r \in queued, PassRequest(r) PROVE RpcInv'
    BY <1>2, <2>3, PassRequestKeeps DEF RpcInv
  <2>4. ASSUME NEW r \in sent, rpc_service(r) PROVE RpcInv'
    <3>1. CASE Answer(r.t, r) /\ UNCHANGED <<rpc_reply, pending>>
      <4>1. Good'
        BY <1>2, <2>4, <3>1, AnswerKeeps DEF rpc_service
      <4> QED
        BY <4>1 DEF RpcInv
    <3>2. CASE /\ rpc_postpone_reply(r) /\ pending' = Append(pending, r)
               /\ mixed' = (mixed \/ pending # << >>) /\ UNCHANGED replies
      <4>1. CASE pending = << >>
        <5>1. Good'
          BY <1>2, <2>4, <3>2, <4>1, PostponeKeeps DEF rpc_service
        <5> QED
          BY <5>1 DEF RpcInv
      <4>2. CASE pending # << >>
        BY <3>2, <4>2, Zenon DEF RpcInv
      <4> QED
        BY <4>1, <4>2
    <3> QED
      BY <2>4, <3>1, <3>2, Zenon DEF rpc_service, AllocServed
  <2>5. CASE AllocReply
    BY <1>2, <2>5, AllocReplyKeeps DEF RpcInv
  <2>6. ASSUME NEW m \in replies, PassReply(m) PROVE RpcInv'
    BY <1>2, <2>6, PassReplyKeeps DEF RpcInv
  <2>7. ASSUME NEW t \in Threads, RpcReturns(t) PROVE RpcInv'
    BY <1>2, <2>7, ReturnKeeps DEF RpcInv
  <2> QED
    BY <2>1, <2>2, <2>3, <2>4, <2>5, <2>6, <2>7, Zenon DEF RpcNext, RpcServer
<1> QED
  BY <1>1, <1>2 DEF RpcInv

\* For every set of threads and number of calls and lost messages, a call of
\* axrun_rpc returns with the reply to its own request, unless two requests
\* were postponed at once (rpc_postpone_reply has one slot) or the thread also
\* calls without a buffer for the reply.
THEOREM OwnReplyHolds == RpcSpec => []OwnReply
<1>1. RpcInv => OwnReply
  BY DEF RpcInv, Good, OwnReply
<1> QED
  BY <1>1, RpcInitGood, RpcStep, PTL DEF RpcSpec
=============================================================================
