------------------------------ MODULE NetTools ------------------------------
(***************************************************************************)
(* axiom-ping and axiom-traceroute, with the handlers of axiom-init that   *)
(* answer them, axiom_pong and axiom_traceroute_reply.                     *)
(***************************************************************************)
EXTENDS Integers, Sequences, FiniteSets

CONSTANTS Counts,       \* arguments of axiom-ping -c; 0 stands for no -c: until SIGINT
          PingMax,      \* bound on the pings sent without -c
          Routes,       \* next hops towards the destination: node -> node
          Here,         \* the node axiom-traceroute runs on
          There,        \* its destination
          NODES_MAX,    \* AXIOM_NODES_MAX: replies axiom-traceroute waits for at most
          Unreachable,  \* axiom_next_hop fails
          MaxLost       \* bound on messages lost and on failing calls

ASSUME NetToolsAssumption ==
  /\ Counts \subseteq Nat /\ PingMax \in Nat /\ NODES_MAX \in Nat /\ MaxLost \in Nat
  /\ \A r \in Routes : Here \in DOMAIN r /\ There \in DOMAIN r

VARIABLES
  count,      \* the argument of -c
  toSend,     \* num_ping of the sender thread
  toRecv,     \* num_ping of the main thread
  sender,     \* "run", "sent" (between axiom_send_raw and sent_packets++) or "end"
  main,       \* "test", "recv", "join" or "end"
  sigint,     \* sigint_received
  seq,        \* seq_num of the last ping
  sent_packets, recv_packets,
  pings,      \* pings on the way to axiom-init
  port,       \* what is on the way to, or queued on, port NETUTILS: <<own unique_id, seq_num>>
  seen,       \* the seq_nums printed
  route,      \* the next hops
  probe,      \* the TRACEROUTE message under way: <<node, step>>, or none
  hopReplies, \* replies on the way: <<node, step>>
  printed,    \* the replies printed
  expected_reply,
  trace,      \* "send", "recv", "done" or "failed"
  netLost     \* messages lost and calls failed

pingVars == <<count, toSend, toRecv, sender, main, sigint, seq, sent_packets, recv_packets, pings,
              port, seen>>
traceVars == <<route, probe, hopReplies, printed, expected_reply, trace>>
netVars == <<pingVars, traceVars, netLost>>

\* num_ping is 1 and never decremented without -c
PingInit ==
  /\ count \in Counts
  /\ toSend = (IF count = 0 THEN 1 ELSE count) /\ toRecv = toSend
  /\ sender = "run" /\ main = "test" /\ sigint = FALSE /\ seq = 0
  /\ sent_packets = 0 /\ recv_packets = 0 /\ pings = {} /\ seen = {}
  /\ port \in {{}, {<<FALSE, 1>>}}   \* perhaps a late answer to an earlier axiom-ping

TraceInit ==
  /\ route \in Routes
  /\ probe = <<>> /\ hopReplies = {} /\ printed = {} /\ expected_reply = NODES_MAX /\ trace = "send"

NetInit == PingInit /\ TraceInit /\ netLost = 0

NetLoses == netLost < MaxLost /\ netLost' = netLost + 1
NetKeeps == UNCHANGED netLost

-----------------------------------------------------------------------------
(* axiom-ping *)

\* the sender thread: axiom_send_raw; NOTREACH counts as sent, another error
\* ends the thread
sender_body ==
  /\ sender = "run" /\ ~sigint /\ toSend > 0 /\ seq < PingMax
  /\ seq' = seq + 1
  /\ \/ pings' = pings \cup {seq + 1} /\ sender' = "sent" /\ NetKeeps
     \/ UNCHANGED pings /\ sender' \in {"sent", "end"} /\ NetLoses
  /\ UNCHANGED <<count, toSend, toRecv, main, sigint, sent_packets, recv_packets, port, seen,
                 traceVars>>

\* sent_packets++, the pause and num_ping--
PingSent ==
  /\ sender = "sent" /\ sender' = "run"
  /\ sent_packets' = sent_packets + 1
  /\ toSend' = IF count > 0 THEN toSend - 1 ELSE toSend
  /\ UNCHANGED <<count, toRecv, main, sigint, seq, recv_packets, pings, port, seen, traceVars,
                 netLost>>

SenderEnds ==
  /\ sender = "run" /\ (sigint \/ toSend = 0) /\ sender' = "end"
  /\ UNCHANGED <<count, toSend, toRecv, main, sigint, seq, sent_packets, recv_packets, pings,
                 port, seen, traceVars, netLost>>

\* axiom-init: the ping goes back with its unique_id and seq_num
axiom_pong ==
  /\ \E p \in pings :
       /\ pings' = pings \ {p}
       /\ \/ port' = port \cup {<<TRUE, p>>} /\ NetKeeps
          \/ UNCHANGED port /\ NetLoses
  /\ UNCHANGED <<count, toSend, toRecv, sender, main, sigint, seq, sent_packets, recv_packets,
                 seen, traceVars>>

\* the conditions of the loops of the main thread
TestLoop ==
  /\ main = "test"
  /\ main' = IF sigint \/ toRecv = 0 THEN "join" ELSE "recv"
  /\ UNCHANGED <<count, toSend, toRecv, sender, sigint, seq, sent_packets, recv_packets, pings,
                 port, seen, traceVars, netLost>>

\* mutant: unique_id is not compared
Mine_Any(m) == TRUE

\* an answer to this axiom-ping
Mine(m) == m[1]

\* one axiom_recv_raw; the answers of others are skipped
RecvPong ==
  /\ main = "recv"
  /\ \E m \in port :
       /\ port' = port \ {m}
       /\ IF Mine(m) /\ ~sigint
          THEN /\ recv_packets' = recv_packets + 1 /\ seen' = seen \cup {m[2]}
               /\ toRecv' = IF count > 0 THEN toRecv - 1 ELSE toRecv
          ELSE UNCHANGED <<recv_packets, seen, toRecv>>
       /\ main' = IF sigint THEN "join" ELSE IF Mine(m) THEN "test" ELSE "recv"
  /\ UNCHANGED <<count, toSend, sender, sigint, seq, sent_packets, pings, traceVars, netLost>>

\* control-C: the flag is set, and a main thread that is inside of
\* axiom_recv_raw gets AXIOM_RET_INTR; one that is about to call it does not
sigint_handler ==
  /\ main \in {"test", "recv"} /\ ~sigint /\ sigint' = TRUE
  /\ main' \in IF main = "recv" THEN {"join", "recv"} ELSE {main}
  /\ UNCHANGED <<count, toSend, toRecv, sender, seq, sent_packets, recv_packets, pings, port,
                 seen, traceVars, netLost>>

\* pthread_join, before the statistics
PingEnd ==
  /\ main = "join" /\ sender = "end" /\ main' = "end"
  /\ UNCHANGED <<count, toSend, toRecv, sender, sigint, seq, sent_packets, recv_packets, pings,
                 port, seen, traceVars, netLost>>

SenderThread == sender_body \/ PingSent \/ SenderEnds
MainThread == TestLoop \/ RecvPong \/ PingEnd
PingNext == SenderThread \/ MainThread \/ axiom_pong \/ sigint_handler

-----------------------------------------------------------------------------
(* axiom-traceroute *)

\* the first message goes to the neighbour on the way to the destination
TraceStart ==
  /\ trace = "send"
  /\ \/ /\ route[Here] # Unreachable /\ NetKeeps
        /\ probe' = <<route[Here], 0>> /\ trace' = "recv"
     \/ /\ IF route[Here] = Unreachable THEN NetKeeps ELSE NetLoses
        /\ trace' = "failed" /\ UNCHANGED probe
  /\ UNCHANGED <<pingVars, route, hopReplies, printed, expected_reply>>

\* mutant: the destination is asked for a next hop too
Forwarded_Always(n, step) == IF route[n] = Unreachable THEN <<>> ELSE <<route[n], step>>

\* what goes on to the next hop
Forwarded(n, step) ==
  IF n = There \/ route[n] = Unreachable THEN <<>> ELSE <<route[n], step>>

\* axiom-init on a hop: step + 1, a reply to the source, and on to the next
\* hop; when the reply cannot be sent, nothing goes on
axiom_traceroute_reply ==
  /\ probe # <<>>
  /\ LET n == probe[1]
         step == (probe[2] + 1) % 256
     IN \/ /\ hopReplies' = hopReplies \cup {<<n, step>>} /\ NetKeeps
           /\ probe' = Forwarded(n, step)
        \/ /\ hopReplies' \in {hopReplies, hopReplies \cup {<<n, step>>}} /\ NetLoses
           /\ probe' = <<>>
  /\ UNCHANGED <<pingVars, route, printed, expected_reply, trace>>

\* replies may overtake each other
recv_tracereoute_reply ==
  /\ trace = "recv"
  /\ \E h \in hopReplies :
       /\ hopReplies' = hopReplies \ {h} /\ printed' = printed \cup {h}
       /\ expected_reply' = IF h[1] = There THEN h[2] ELSE expected_reply
  /\ trace' = IF Cardinality(printed') >= expected_reply' THEN "done" ELSE "recv"
  /\ UNCHANGED <<pingVars, route, probe, netLost>>

TraceStep == TraceStart \/ axiom_traceroute_reply \/ recv_tracereoute_reply

-----------------------------------------------------------------------------
(* Properties *)

\* The statistics of axiom-ping are right: never more packets received than
\* transmitted, though the receiver may count an answer before the sender
\* counts the ping; each answer counted once and none of another process;
\* and, without SIGINT, exactly the pings asked for
\* (axiom-ping.c:112, 311, 354-366).
PingHonest ==
  main = "end" =>
    /\ recv_packets <= sent_packets
    /\ recv_packets = Cardinality(seen) /\ seen \subseteq 1 .. sent_packets
    /\ (~sigint => recv_packets = count /\ sent_packets = count)

\* the nodes on the way from Here to There
Way ==
  LET hop[k \in 0 .. Cardinality(DOMAIN route)] ==
        IF k = 0 THEN Here
        ELSE IF hop[k - 1] \in {There, Unreachable} THEN hop[k - 1] ELSE route[hop[k - 1]]
  IN hop

Length == CHOOSE k \in DOMAIN Way : Way[k] = There /\ \A j \in DOMAIN Way : Way[j] = There => k <= j

\* When axiom-traceroute ends, it has printed every hop of the way, each with
\* its distance, in whatever order the replies came in
\* (axiom-traceroute.c:174-188, axiom_traceroute_reply.c:47-76).
TraceComplete == trace = "done" => printed = {<<Way[k], k>> : k \in 1 .. Length}

\* axiom-ping -c that is not interrupted has ended; axiom-traceroute to a
\* node that can be reached has ended; unless something was lost.
PingDone == count > 0 => main = "end" \/ netLost > 0 \/ sigint
TraceDone == Way[Cardinality(DOMAIN route)] = There => trace = "done" \/ netLost > 0
=============================================================================
