------------------------------- MODULE Netperf -------------------------------
(***************************************************************************)
(* axiom-netperf (axiom-netperf/): the threads of a client send a stream   *)
(* to a server, which answers when it has all of it. The stream is cut     *)
(* into units: bytes for RAW and LONG messages, the 8-byte words the       *)
(* server compares for RDMA.                                               *)
(***************************************************************************)
EXTENDS Integers, Sequences, FiniteSets

CONSTANTS Streams,      \* [type, letter, length, payload, threads, servers]: the command lines
          NpThreads,    \* the threads of a client, at most
          NpServers,    \* the threads of a server, at most
          ScaleStep,    \* the shift from one letter to the next (10 in the code)
          LengthWrap,   \* data_length is a uint32_t (2^32 in the code)
          PayloadMax,   \* the largest payload of each type
          RdmaSize,     \* the size of the RDMA zone
          TokenLen,     \* TOKEN_LEN
          MaxNpErrors   \* bound on failing calls

ASSUME NetperfAssumption ==
  /\ Streams \subseteq [type : {"raw", "long", "rdma", "srdma"}, letter : {"B", "K", "M", "G"},
                        length : Nat, payload : Nat, threads : SUBSET NpThreads,
                        servers : SUBSET NpServers]
  /\ ScaleStep \in Nat /\ LengthWrap \in Nat \ {0} /\ RdmaSize \in Nat /\ TokenLen \in Nat \ {0}
  /\ MaxNpErrors \in Nat

VARIABLES
  stream,     \* the command lines of client and server
  state,      \* s->state of the client
  sent_bytes, \* client.sent_bytes
  total_packets, \* client.total_packets
  at,         \* thread -> where it is
  payload,    \* thread -> its payload_size
  addr,       \* thread -> addr, the start of the piece it writes
  tokens,     \* thread -> i, the tokens it has to wait for
  flying,     \* RDMA writes under way: <<thread, start, size>>
  zone,       \* the units of the server's RDMA zone that hold the magic number
  wire,       \* messages to the server, in order
  taken,      \* server thread -> the message it has received and not yet handled
  server,     \* s->server[src]: expected, received, reply_port known
  answers,    \* replies to the client
  report,     \* what axnetperf_stop has received
  npErrors    \* calls that failed

npClient == <<state, sent_bytes, total_packets, at, payload, addr, tokens, report>>
npServer == <<taken, server>>
npVars == <<stream, npClient, flying, zone, wire, npServer, answers, npErrors>>

Msg(cmd, bytes) == [cmd |-> cmd, bytes |-> bytes, error |-> 0]
None == Msg("none", 0)
Gone == Msg("gone", 0)   \* the thread has ended

Rdma == stream.type \in {"rdma", "srdma"}

get_scale(letter) ==
  CASE letter = "B" -> 0 [] letter = "K" -> ScaleStep
    [] letter = "M" -> 2 * ScaleStep [] letter = "G" -> 3 * ScaleStep

\* data_length << data_scale, in 32 bits
Shifted(s) == (s.length * 2^get_scale(s.letter)) % LengthWrap
total_bytes == Shifted(stream)

\* the payload size of the command line, or else the largest
payload_size == IF stream.payload = 0 THEN PayloadMax[stream.type] ELSE stream.payload

\* axnetperf_raw_init, axnetperf_long_init, axnetperf_rdma_init
InitFits == payload_size <= PayloadMax[stream.type] /\ (Rdma => total_bytes <= RdmaSize)

NetperfInit ==
  /\ stream \in Streams
  /\ state = "NULL" /\ sent_bytes = 0 /\ total_packets = 0
  /\ at = [t \in NpThreads |-> IF t \in stream.threads THEN "start" ELSE "done"]
  /\ payload = [t \in NpThreads |-> 0] /\ addr = payload /\ tokens = payload
  /\ flying = {} /\ zone = {} /\ wire = <<>>
  /\ taken = [w \in NpServers |-> None]
  /\ server = [expected |-> 0, received |-> 0, port |-> FALSE]
  /\ answers = <<>> /\ report = None /\ npErrors = 0

\* s->mutex of the client: held across a step only by the thread in axnetperf_stop
Unlocked == \A t \in NpThreads : at[t] # "stop"

Goto(t, l) == at' = [at EXCEPT ![t] = l]

Fails == npErrors < MaxNpErrors /\ npErrors' = npErrors + 1
Works == UNCHANGED npErrors

-----------------------------------------------------------------------------
(* The client *)

\* the first thread prepares and announces the stream
axnetperf_start(t) ==
  /\ at[t] = "start" /\ Unlocked /\ state = "NULL"
  /\ \/ /\ InitFits /\ Works
        /\ state' = "INIT" /\ wire' = Append(wire, Msg("START", total_bytes)) /\ Goto(t, "check")
     \/ /\ (IF InitFits THEN Fails ELSE Works)
        /\ state' = "ERROR" /\ UNCHANGED wire /\ Goto(t, "done")
  /\ UNCHANGED <<stream, sent_bytes, total_packets, payload, addr, tokens, report, flying, zone,
                 npServer, answers>>

\* s->state is read without the mutex
CheckState(t) ==
  /\ \/ at[t] = "start" /\ Unlocked /\ state # "NULL" /\ Goto(t, "check")
     \/ at[t] = "check" /\ Goto(t, IF state = "ERROR" THEN "done" ELSE "enter")
  /\ payload' = [payload EXCEPT ![t] = payload_size]
  /\ UNCHANGED <<stream, state, sent_bytes, total_packets, addr, tokens, report, flying, zone,
                 wire, npServer, answers, npErrors>>

\* the first thread in starts the stream (sent_bytes is still 0)
Started == IF state = "INIT" THEN "START" ELSE state

\* RDMA lets go of the mutex before the loop, RAW and LONG do not
Begin(t) ==
  /\ at[t] = "enter" /\ Unlocked /\ Rdma
  /\ state' = Started /\ Goto(t, "loop")
  /\ UNCHANGED <<stream, sent_bytes, total_packets, payload, addr, tokens, report, flying, zone,
                 wire, npServer, answers, npErrors>>

InLoop(t) == at[t] = "loop" \/ (at[t] = "enter" /\ ~Rdma)

\* the piece a thread takes; a payload size cut down stays so
Piece(t) == IF total_bytes - sent_bytes < payload[t] THEN total_bytes - sent_bytes ELSE payload[t]

\* under the mutex, a thread takes the next piece of the stream
Claim(t) ==
  /\ InLoop(t) /\ Unlocked /\ sent_bytes < total_bytes
  /\ payload' = [payload EXCEPT ![t] = Piece(t)]
  /\ addr' = [addr EXCEPT ![t] = sent_bytes]
  /\ sent_bytes' = sent_bytes + Piece(t) /\ total_packets' = total_packets + 1
  /\ state' = Started /\ Goto(t, "send")
  /\ UNCHANGED <<stream, tokens, report, flying, zone, wire, npServer, answers, npErrors>>

\* the stream is handed out: RAW and LONG are over, RDMA waits for its writes
LoopEnds(t) ==
  /\ InLoop(t) /\ Unlocked /\ sent_bytes >= total_bytes
  /\ state' = IF ~Rdma /\ Started = "START" THEN "END" ELSE state
  /\ Goto(t, IF Rdma THEN "wait" ELSE "finish")
  /\ UNCHANGED <<stream, sent_bytes, total_packets, payload, addr, tokens, report, flying, zone,
                 wire, npServer, answers, npErrors>>

axnetperf_raw_long(t) ==
  /\ at[t] = "send" /\ ~Rdma /\ Works
  /\ wire' = Append(wire, Msg("NETPERF", payload[t]))
  /\ Goto(t, "loop")
  /\ UNCHANGED <<stream, state, sent_bytes, total_packets, payload, addr, tokens, report, flying,
                 zone, npServer, answers>>

\* axnetperf_rdma_async and axnetperf_rdma_sync
axnetperf_rdma(t) ==
  /\ at[t] = "send" /\ Rdma /\ Works
  /\ flying' = flying \cup {<<t, addr[t], payload[t]>>}
  /\ tokens' = [tokens EXCEPT ![t] = @ + 1]
  /\ Goto(t, IF stream.type = "srdma" \/ tokens[t] + 1 = TokenLen THEN "drain" ELSE "loop")
  /\ UNCHANGED <<stream, state, sent_bytes, total_packets, payload, addr, report, zone, wire,
                 npServer, answers>>

\* the error path: RAW and LONG count the piece again, RDMA takes it back
SendFails(t) ==
  /\ at[t] = "send" /\ Unlocked /\ Fails
  /\ LET sign == IF Rdma THEN -1 ELSE 1 IN
       sent_bytes' = sent_bytes + sign * payload[t] /\ total_packets' = total_packets + sign
  /\ Goto(t, "finish")
  /\ UNCHANGED <<stream, state, payload, addr, tokens, report, flying, zone, wire, npServer,
                 answers>>

\* axiom_rdma_wait, axiom_rdma_write_sync
Awaited(t) ==
  /\ at[t] \in {"drain", "wait"} /\ \A f \in flying : f[1] # t
  /\ tokens' = [tokens EXCEPT ![t] = 0]
  /\ Goto(t, IF at[t] = "drain" THEN "loop" ELSE "rdmaEnd")
  /\ UNCHANGED <<stream, state, sent_bytes, total_packets, payload, addr, report, flying, zone,
                 wire, npServer, answers, npErrors>>

\* the last axiom_rdma_wait of axnetperf_rdma_async fails
WaitFails(t) ==
  /\ at[t] = "wait" /\ stream.type = "rdma" /\ Fails /\ Goto(t, "finish")
  /\ UNCHANGED <<stream, state, sent_bytes, total_packets, payload, addr, tokens, report, flying,
                 zone, wire, npServer, answers>>

\* a write reaches the zone of the server
RdmaWritten(f) ==
  /\ flying' = flying \ {f}
  /\ zone' = zone \cup (f[2] .. f[2] + f[3] - 1)
  /\ UNCHANGED <<stream, npClient, wire, npServer, answers, npErrors>>

\* the first thread whose own writes are done announces the end
RdmaEnd(t) ==
  /\ at[t] = "rdmaEnd" /\ Unlocked
  /\ IF state = "START"
     THEN /\ state' = "END"
          /\ \/ Works /\ wire' = Append(wire, Msg("END", sent_bytes))
             \/ Fails /\ UNCHANGED wire
     ELSE Works /\ UNCHANGED <<state, wire>>
  /\ Goto(t, "finish")
  /\ UNCHANGED <<stream, sent_bytes, total_packets, payload, addr, tokens, report, flying, zone,
                 npServer, answers>>

\* the end of axnetperf_client: one thread waits for the answer, with the mutex
Finish(t) ==
  /\ at[t] = "finish" /\ Unlocked
  /\ IF state = "END" THEN state' = "STOP" /\ Goto(t, "stop")
                      ELSE UNCHANGED state /\ Goto(t, "done")
  /\ UNCHANGED <<stream, sent_bytes, total_packets, payload, addr, tokens, report, flying, zone,
                 wire, npServer, answers, npErrors>>

axnetperf_stop(t) ==
  /\ at[t] = "stop"
  /\ \/ answers # <<>> /\ report' = Head(answers) /\ answers' = Tail(answers) /\ Works
     \/ UNCHANGED <<report, answers>> /\ Fails
  /\ Goto(t, "done")
  /\ UNCHANGED <<stream, state, sent_bytes, total_packets, payload, addr, tokens, flying, zone,
                 wire, npServer>>

-----------------------------------------------------------------------------
(* The server *)

\* axiom_recv, outside of the mutex; an error ends the thread
axnetperf_server(w) ==
  /\ taken[w] = None
  /\ \/ /\ wire # <<>> /\ Works
        /\ taken' = [taken EXCEPT ![w] = Head(wire)] /\ wire' = Tail(wire)
     \/ taken' = [taken EXCEPT ![w] = Gone] /\ UNCHANGED wire /\ Fails
  /\ UNCHANGED <<stream, npClient, flying, zone, server, answers>>

\* port 0, before a START was handled, is nobody's
axiom_netperf_send_reply(bytes, error) ==
  \/ /\ server.port /\ Works
     /\ answers' = Append(answers, [cmd |-> "END", bytes |-> bytes, error |-> error])
  \/ (IF server.port THEN Fails ELSE Works) /\ UNCHANGED answers

\* mutant: the last word is not compared
Failed_Short(bytes) == IF 0 .. bytes - 2 \subseteq zone THEN 0 ELSE 1

\* the magic number is compared in the received_bytes first bytes
Failed(bytes) == IF 0 .. bytes - 1 \subseteq zone THEN 0 ELSE 1

\* mutant: an answer only beyond the announced length
Enough_More(bytes) == server.received + bytes > server.expected

\* a message of the stream is the last one
Enough(bytes) == server.received + bytes >= server.expected

axiom_netperf_reply(w) ==
  /\ taken[w] \notin {None, Gone} /\ taken' = [taken EXCEPT ![w] = None]
  /\ LET m == taken[w] IN
     \/ /\ m.cmd = "START" /\ Works /\ UNCHANGED answers
        /\ server' = [expected |-> m.bytes, received |-> 0, port |-> TRUE]
     \/ /\ m.cmd = "END"
        /\ server' = [server EXCEPT !.received = m.bytes]
        /\ axiom_netperf_send_reply(m.bytes, Failed(m.bytes))
     \/ /\ m.cmd = "NETPERF"
        /\ server' = [server EXCEPT !.received = @ + m.bytes]
        /\ IF Enough(m.bytes) THEN axiom_netperf_send_reply(server.received + m.bytes, 0)
                              ELSE Works /\ UNCHANGED answers
  /\ UNCHANGED <<stream, npClient, flying, zone, wire>>

-----------------------------------------------------------------------------
ClientStep(t) ==
  \/ axnetperf_start(t) \/ CheckState(t) \/ Begin(t) \/ Claim(t) \/ LoopEnds(t)
  \/ axnetperf_raw_long(t) \/ axnetperf_rdma(t) \/ Awaited(t) \/ RdmaEnd(t) \/ Finish(t)
  \/ axnetperf_stop(t)

NetperfNext ==
  \/ \E t \in stream.threads : ClientStep(t) \/ SendFails(t) \/ WaitFails(t)
  \/ \E f \in flying : RdmaWritten(f)
  \/ \E w \in stream.servers : axnetperf_server(w) \/ axiom_netperf_reply(w)

-----------------------------------------------------------------------------
(* Properties *)

\* What the client prints is about this stream: with a server of one thread
\* and no failing call, the one answer says that all bytes arrived; and when
\* an RDMA stream is reported free of errors, whatever failed, every word up
\* to the length reported has been written (axiom-netperf-server.c:107-151).
\* With several RDMA threads an error may be reported though none occurred:
\* the END message does not wait for the writes of the other threads.
ReportTrue ==
  report # None =>
    /\ (npErrors = 0 /\ Cardinality(stream.servers) = 1 =>
          /\ report.bytes = total_bytes /\ answers = <<>>
          /\ (~Rdma \/ Cardinality(stream.threads) = 1 => report.error = 0))
    /\ (Rdma /\ report.error = 0 => 0 .. report.bytes - 1 \subseteq zone)

\* All threads of the client have ended, or a call has failed.
NetperfDone == npErrors > 0 \/ \A t \in stream.threads : at[t] = "done"

\* the streams with something to send
NotEmpty == {s \in Streams : Shifted(s) > 0}

\* README.md, "start server on one node with 8 threads ... Estimate the
\* throughput": the client gets its estimate whatever the number of threads
\* of the server.
ThreadedServerAnswers == <>(stream \in NotEmpty => NetperfDone)
=============================================================================
