------------------------------ MODULE Sessions ------------------------------
(***************************************************************************)
(* Remote execution of programs: axinit_execvpe in the client              *)
(* (axiom-init/lib/execvpe.c) and the two handlers of axiom-init that serve *)
(* it, axiom_session (axiom_session.c) and axiom_spawn_req                 *)
(* (axiom_spawn.c), with the daemonize of axiom_common_library.            *)
(*                                                                         *)
(* A client asks a session of the axiom-init of a node, sends the pieces   *)
(* of the program one packet at a time and marks the last one EXEC. The    *)
(* pieces of several clients interleave in the queue of axiom-init; the    *)
(* session number is all that keeps them apart.                            *)
(***************************************************************************)
EXTENDS Integers, Sequences, FiniteSets

CONSTANTS
  Clients,    \* processes that call axinit_execvpe
  NumNodes,   \* axiom_get_num_nodes: the nodes are 0 .. NumNodes - 1
  Self,       \* Self[c]: the node client c runs on
  First,      \* First[c]: argument node of the call of client c
  Flags,      \* Flags[c] \subseteq {"BROADCAST", "NOSELF"}
  NSessions,  \* bits of an unsigned int
  NSlots,     \* MAX_CONCURRENT_SPAWNS
  MaxFaults,  \* bound on the failing calls
  MaxQueue    \* packets a port queues; a sender waits while it is full

ASSUME SessionsAssumption ==
  /\ NumNodes \in Nat \ {0} /\ NSessions \in Nat \ {0} /\ NSlots \in Nat \ {0}
  /\ MaxFaults \in Nat /\ MaxQueue \in Nat \ {0}
  /\ \A c \in Clients : /\ Self[c] \in 0 .. NumNodes - 1
                        /\ First[c] \in 0 .. NumNodes - 1
                        /\ Flags[c] \subseteq {"BROADCAST", "NOSELF"}

Nodes == 0 .. NumNodes - 1
Ids == 0 .. NSessions - 1
EMPTY == NSessions + 1
Nobody == "NULL"

VARIABLES
  free,     \* free[n]: the sessions of axiom-init n that are not in use
  info,     \* info[n][i]: slot i of axiom_spawn_req
  initq,    \* initq[n]: packets queued on the INIT port of node n
  replies,  \* replies[c]: session numbers queued on the port of client c
  pc,       \* where each client is
  node,     \* the node a client is working on
  session,  \* the session it uses there
  todo,     \* spawn packets it still has to send
  started,  \* the nodes on which it counted a start (start_counter)
  ran,      \* ran[n]: the programs daemonize has started on node n
  copies,   \* copies[n]: axiom-init processes that a daemonize without program left
  initSock, \* initSock[n]: AXIOM_INIT_SOCKET_PATHNAME exists on node n
  aligned,  \* whether the session_id fields of the request payloads overlap
  faults, dropped, released   \* history: failed calls; packets without a slot; release taken

server == <<free, info, ran, copies, initSock, dropped>>
client == <<pc, node, session, todo, started>>
vars == <<server, client, initq, replies, aligned, faults, released>>

Slots == 1 .. NSlots
Free == [id |-> EMPTY, exec |-> Nobody, cwd |-> Nobody, args |-> <<>>, env |-> <<>>]

Request(id, c) == [cmd |-> "SESSION_REQ", id |-> id, from |-> c]
Packet(id, type, flag, data) ==
  [cmd |-> "SPAWN_REQ", id |-> id, type |-> type, flag |-> flag, data |-> data]

\* the packets of one spawn; a piece is named by the client it comes from
Packets(c, id) ==
  << Packet(id, "EXE", "RESET", c), Packet(id, "ARG", "NONE", c),
     Packet(id, "ENV", "NONE", c), Packet(id, "CWD", "EXEC", c) >>

Init ==
  /\ free = [n \in Nodes |-> Ids]
  /\ info = [n \in Nodes |-> [i \in Slots |-> Free]]
  /\ initq = [n \in Nodes |-> <<>>] /\ replies = [c \in Clients |-> <<>>]
  /\ pc = [c \in Clients |-> "call"]
  /\ node = [c \in Clients |-> IF "BROADCAST" \in Flags[c] THEN 0 ELSE First[c]]
  /\ session = [c \in Clients |-> EMPTY] /\ todo = [c \in Clients |-> <<>>]
  /\ started = [c \in Clients |-> {}]
  /\ ran = [n \in Nodes |-> {}] /\ copies = [n \in Nodes |-> 0]
  /\ initSock = [n \in Nodes |-> TRUE]
  /\ aligned \in BOOLEAN
  /\ faults = 0 /\ dropped = {} /\ released = {}

\* axiom_send_raw and axiom_send, when they succeed
Send(n, m) == /\ Len(initq[n]) < MaxQueue
              /\ initq' = [initq EXCEPT ![n] = Append(@, m)]

Fault == /\ faults < MaxFaults
         /\ faults' = faults + 1

(***************************************************************************)
(* The client.                                                             *)
(***************************************************************************)

\* the loop of execvpe.c:48-125 from the end of its body for node n; a
\* continue jumps to the same place
NextNode(c, n) ==
  /\ node' = [node EXCEPT ![c] = n + 1]
  /\ pc' = [pc EXCEPT ![c] = IF n + 1 < NumNodes THEN "call" ELSE "done"]

SkipSelf(c) ==
  /\ pc[c] = "call" /\ "NOSELF" \in Flags[c] /\ node[c] = Self[c]
  /\ NextNode(c, node[c])
  /\ UNCHANGED <<server, initq, replies, session, todo, started, aligned, faults, released>>

\* mutant: the session of the last node is left in the request
AskSession_Leftover(c) ==
  /\ pc[c] = "call" /\ ~ ("NOSELF" \in Flags[c] /\ node[c] = Self[c])
  /\ Send(node[c], Request(session[c], c))
  /\ pc' = [pc EXCEPT ![c] = "reply"]
  /\ UNCHANGED <<server, replies, node, session, todo, started, aligned, faults, released>>

AskSession(c) ==
  /\ pc[c] = "call" /\ ~ ("NOSELF" \in Flags[c] /\ node[c] = Self[c])
  /\ \/ /\ Send(node[c], Request(EMPTY, c))
        /\ pc' = [pc EXCEPT ![c] = "reply"]
        /\ UNCHANGED faults
     \/ /\ Fault
        /\ pc' = [pc EXCEPT ![c] = "failed"]
        /\ UNCHANGED initq
  /\ UNCHANGED <<server, replies, node, session, todo, started, aligned, released>>

TakeReply(c) ==
  /\ pc[c] = "reply" /\ replies[c] # <<>>
  /\ replies' = [replies EXCEPT ![c] = Tail(@)]
  /\ session' = [session EXCEPT ![c] = Head(replies[c])]
  /\ pc' = [pc EXCEPT ![c] = IF Head(replies[c]) = EMPTY THEN "failed" ELSE "send"]
  /\ todo' = [todo EXCEPT ![c] = IF Head(replies[c]) = EMPTY THEN <<>>
                                 ELSE Packets(c, Head(replies[c]))]
  /\ UNCHANGED <<server, initq, node, started, aligned, faults, released>>

\* axiom_recv_raw fails: the call returns and keeps the session for ever
ReplyError(c) ==
  /\ pc[c] = "reply" /\ Fault
  /\ pc' = [pc EXCEPT ![c] = "failed"]
  /\ UNCHANGED <<server, initq, replies, node, session, todo, started, aligned, released>>

SendPacket(c) ==
  /\ pc[c] = "send"
  /\ \/ /\ Send(node[c], Head(todo[c]))
        /\ todo' = [todo EXCEPT ![c] = Tail(@)]
        /\ IF Len(todo[c]) > 1 THEN UNCHANGED <<pc, node, started>>
           ELSE /\ started' = [started EXCEPT ![c] = @ \cup {node[c]}]
                /\ IF "BROADCAST" \in Flags[c] THEN NextNode(c, node[c])
                   ELSE pc' = [pc EXCEPT ![c] = "done"] /\ UNCHANGED node
        /\ UNCHANGED faults
     \/ /\ Fault   \* also when getcwd fails before the last packet
        /\ pc' = [pc EXCEPT ![c] = "release"]
        /\ UNCHANGED <<initq, todo, node, started>>
  /\ UNCHANGED <<server, replies, session, aligned, released>>

\* the buffer still holds the last spawn packet: the session_id sent is its
\* session when the two payloads have that field at the same place
Release(c) ==
  /\ pc[c] = "release"
  /\ pc' = [pc EXCEPT ![c] = "failed"]
  /\ \/ /\ \E id \in IF aligned THEN {session[c]} ELSE Ids \cup {EMPTY} :
             Send(node[c], Request(id, c))
        /\ UNCHANGED faults
     \/ Fault /\ UNCHANGED initq
  /\ released' = released \cup {c}
  /\ UNCHANGED <<server, replies, node, session, todo, started, aligned>>

(***************************************************************************)
(* axiom-init: one packet per turn of its main loop.                       *)
(***************************************************************************)
Lowest(S) == CHOOSE x \in S : \A y \in S : x <= y
next(n) == IF free[n] = {} THEN EMPTY ELSE Lowest(free[n])
used(n, id) == id \in Ids /\ id \notin free[n]

\* mutant: the bit of the session is not cleared
axiom_session_KeepFree(n, m) ==
  /\ m.cmd = "SESSION_REQ"
  /\ free' = [free EXCEPT ![n] = IF used(n, m.id) THEN @ \cup {m.id} ELSE @]
  /\ replies' = IF m.id # EMPTY THEN replies
                ELSE [replies EXCEPT ![m.from] = Append(@, next(n))]
  /\ UNCHANGED <<info, ran, copies, initSock, dropped, faults>>

axiom_session(n, m) ==
  /\ m.cmd = "SESSION_REQ"
  /\ IF m.id # EMPTY
     THEN /\ free' = [free EXCEPT ![n] = IF used(n, m.id) THEN @ \cup {m.id} ELSE @]
          /\ UNCHANGED <<replies, faults>>
     ELSE /\ free' = [free EXCEPT ![n] = @ \ {next(n)}]
          /\ \/ replies' = [replies EXCEPT ![m.from] = Append(@, next(n))] /\ UNCHANGED faults
             \/ Fault /\ UNCHANGED replies   \* the error is only logged
  /\ UNCHANGED <<info, ran, copies, initSock, dropped>>

\* the slot of the session, else the last free one
SlotOf(n, id) ==
  LET mine == {i \in Slots : info[n][i].id = id}
      empty == {i \in Slots : info[n][i].id = EMPTY}
  IN IF mine # {} THEN mine
     ELSE IF empty # {} THEN {CHOOSE i \in empty : \A j \in empty : j <= i} ELSE {}

Stored(s, p) ==
  CASE p.type = "EXE" -> [s EXCEPT !.exec = p.data]
    [] p.type = "CWD" -> [s EXCEPT !.cwd = p.data]
    [] p.type = "ARG" -> [s EXCEPT !.args = Append(@, p.data)]
    [] p.type = "ENV" -> [s EXCEPT !.env = Append(@, p.data)]

\* mutant: only a new slot is cleared
ResetBy_NewOnly(s, p) == IF s.id = EMPTY THEN [Free EXCEPT !.id = p.id] ELSE s

\* a free slot is always reset, whatever the packet says
ResetBy(s, p) ==
  IF p.flag = "RESET" \/ s.id = EMPTY THEN [Free EXCEPT !.id = p.id] ELSE s

Started(s) == [exec |-> s.exec, cwd |-> s.cwd, args |-> s.args, env |-> s.env]

\* daemonize: the fork may fail; without a program the child returns into
\* the loop of axiom-init, with every descriptor closed
daemonize(n, s) ==
  \/ /\ ran' = [ran EXCEPT ![n] = @ \cup {Started(s)}]
     /\ copies' = [copies EXCEPT ![n] = IF s.exec = Nobody THEN @ + 1 ELSE @]
     /\ UNCHANGED faults
  \/ Fault /\ UNCHANGED <<ran, copies>>

\* mutant: the session is not released with its slot
SlotDone_KeepSession(n, i, id) ==
  /\ info' = [info EXCEPT ![n][i] = Free]
  /\ free' = free

\* after EXEC the slot is cleared and the session released
SlotDone(n, i, id) ==
  /\ info' = [info EXCEPT ![n][i] = Free]
  /\ free' = [free EXCEPT ![n] = @ \cup {id}]

axiom_spawn_req(n, m) ==
  /\ m.cmd = "SPAWN_REQ"
  /\ IF ~ used(n, m.id) \/ SlotOf(n, m.id) = {}
     THEN /\ dropped' = IF used(n, m.id) THEN dropped \cup {n} ELSE dropped
          /\ UNCHANGED <<free, info, ran, copies, faults>>
     ELSE \E i \in SlotOf(n, m.id) :
            LET s == Stored(ResetBy(info[n][i], m), m)
            IN IF m.flag = "EXEC"
               THEN /\ daemonize(n, s)
                    /\ SlotDone(n, i, m.id)
                    /\ UNCHANGED dropped
               ELSE /\ info' = [info EXCEPT ![n][i] = s]
                    /\ UNCHANGED <<free, ran, copies, dropped, faults>>
  /\ UNCHANGED <<initSock, replies>>

Serve(n) ==
  /\ initq[n] # <<>>
  /\ initq' = [initq EXCEPT ![n] = Tail(@)]
  /\ axiom_session(n, Head(initq[n])) \/ axiom_spawn_req(n, Head(initq[n]))
  /\ UNCHANGED <<client, aligned, released>>

\* such a copy finds its descriptors closed, leaves the loop and unlinks the
\* socket of the axiom-init it was forked from
CopyEnds(n) ==
  /\ copies[n] > 0
  /\ copies' = [copies EXCEPT ![n] = @ - 1]
  /\ initSock' = [initSock EXCEPT ![n] = FALSE]
  /\ UNCHANGED <<free, info, ran, dropped, client, initq, replies, aligned, faults, released>>

ClientStep(c) == \/ SkipSelf(c) \/ AskSession(c) \/ TakeReply(c) \/ ReplyError(c)
                 \/ SendPacket(c) \/ Release(c)
Next == (\E c \in Clients : ClientStep(c)) \/ (\E n \in Nodes : Serve(n) \/ CopyEnds(n))

\* clients and axiom-init are processes that are scheduled again and again;
\* nothing makes a receive fail
Fairness ==
  /\ \A c \in Clients : WF_vars(SkipSelf(c) \/ AskSession(c) \/ TakeReply(c)
                                \/ SendPacket(c) \/ Release(c))
  /\ \A n \in Nodes : WF_vars(Serve(n))

Spec == Init /\ [][Next]_vars /\ Fairness
-----------------------------------------------------------------------------
\* no packet of node n has been turned away for want of a slot, and no
\* release has carried the number of somebody else's session
Undisturbed(n) == n \notin dropped /\ (aligned \/ released = {})

Ended(c) == pc[c] \in {"done", "failed"}
Program(c) == [exec |-> c, cwd |-> c, args |-> <<c>>, env |-> <<c>>]

\* every program daemonize starts on a node is the program of one client,
\* with all of its pieces and none of another client: the pieces that
\* axiom_spawn_req gathers in one slot never come from two calls, not even
\* when a call gave up half way and its session was handed out again
SpawnWhole ==
  \A n \in Nodes : Undisturbed(n) =>
    \A p \in ran[n] : \E c \in Clients : p = Program(c)

\* the sessions held by the clients of node n, or on their way to them
Holders(n) == {c \in Clients : pc[c] \in {"send", "release"} /\ node[c] = n}

\* two clients that send to the same axiom-init use two different sessions,
\* and neither is one axiom_session would give out again
SessionsApart ==
  \A n \in Nodes : Undisturbed(n) =>
    \A c \in Holders(n) :
      /\ session[c] \notin free[n]
      /\ \A d \in Holders(n) : session[c] = session[d] => c = d

\* once everything has been sent and served without an error, every session
\* and every slot is free again and the programs started on a node are
\* exactly those whose clients counted a start there
NothingKept ==
  (faults = 0 /\ dropped = {} /\ \A c \in Clients : Ended(c))
    => \A n \in Nodes : initq[n] = <<>> =>
         /\ free[n] = Ids
         /\ \A i \in Slots : info[n][i] = Free
         /\ ran[n] = {Program(c) : c \in {d \in Clients : n \in started[d]}}

\* a client that waits for a session always has its request or the answer
\* under way, unless a call has failed: axiom_session answers every request,
\* also when it has no session left, and no answer is taken by another call
AnswerComes ==
  \A c \in Clients : (pc[c] = "reply" /\ faults = 0) =>
    Len(replies[c]) + Cardinality({k \in DOMAIN initq[node[c]] :
                                     initq[node[c]][k] = Request(EMPTY, c)}) = 1

\* include/axiom_init_api.h:27 promises that axinit_execvpe executes the
\* program on the node when it reports success: once axiom-init has served
\* every packet, the program counted as started has been started
SuccessMeansStarted ==
  \A c \in Clients : \A n \in started[c] :
    initq[n] = <<>> => Program(c) \in ran[n]
=============================================================================
