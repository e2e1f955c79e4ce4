------------------------------ MODULE SendRecv ------------------------------
(***************************************************************************)
(* axiom-send and axiom-recv on one port: a payload built from the command *)
(* line, cut into buffers (iovec) on either side.                          *)
(***************************************************************************)
EXTENDS Integers, Sequences, SequencesExt

CONSTANTS SendLines,   \* [type, bytes, repeat, iov, count]: axiom-send
          RecvLines,   \* [type, once, noblock, flush, iov, max]: axiom-recv
          RAW_MAX,     \* AXIOM_RAW_PAYLOAD_MAX_SIZE
          LONG_MAX,    \* AXIOM_LONG_PAYLOAD_MAX_SIZE, sizeof(payload)
          MAX_IOVEC

ASSUME SendRecvAssumption ==
  /\ RAW_MAX \in Nat /\ LONG_MAX \in Nat /\ MAX_IOVEC \in Nat
  /\ \A s \in SendLines : /\ s.type \in {"raw", "long", "any"} /\ s.repeat \in Nat
                          /\ s.iov \in Nat /\ s.count \in Nat
  /\ \A r \in RecvLines : r.type \in {"raw", "long", "any"} /\ r.iov \in Nat /\ r.max \in Nat

VARIABLES
  snd, rcv,    \* the command lines
  seqno,       \* messages sent
  sendAt,      \* "send" or "end"
  recvAt,      \* "bind", "recv" or "end"
  queue,       \* messages queued on the port: [type, data]
  received     \* messages axiom-recv has printed

srVars == <<snd, rcv, seqno, sendAt, recvAt, queue, received>>

-----------------------------------------------------------------------------
(* The payload *)

\* the bytes of the command line, as many as fit
Given(s) == SubSeq(s.bytes, 1, IF Len(s.bytes) < LONG_MAX THEN Len(s.bytes) ELSE LONG_MAX)

\* how often they fit, at least once and at most repeat times
Times(s) ==
  LET fits == {k \in 1 .. LONG_MAX : k * Len(Given(s)) <= LONG_MAX /\ (k = 1 \/ k <= s.repeat)}
  IN CHOOSE k \in fits : \A j \in fits : j <= k

TypeMax(type) == IF type = "raw" THEN RAW_MAX ELSE LONG_MAX

\* the payload, cut to the size of the message type
Content(s) ==
  LET g == Given(s)
      all == [k \in 1 .. Times(s) * Len(g) |-> g[((k - 1) % Len(g)) + 1]]
  IN SubSeq(all, 1, IF Len(all) < TypeMax(s.type) THEN Len(all) ELSE TypeMax(s.type))

-----------------------------------------------------------------------------
(* Buffers *)

\* no buffers when there are fewer bytes than buffers
Buffers(size, iov) == IF size < iov THEN 0 ELSE iov

\* mutant: the last buffer is as long as the others
Iovec_Even(size, n) ==
  [i \in 1 .. n |-> [base |-> (i - 1) * (size \div n), len |-> size \div n]]

\* n buffers one after the other, the last one with the remainder
Iovec(size, n) ==
  [i \in 1 .. n |-> [base |-> (i - 1) * (size \div n),
                     len |-> IF i = n THEN size - (size \div n) * (n - 1) ELSE size \div n]]

\* axiom_send_iov: the message is the contents of the buffers
Gather(data, iov) ==
  FlattenSeq([i \in 1 .. Len(iov) |-> SubSeq(data, iov[i].base + 1, iov[i].base + iov[i].len)])

\* axiom_recv_iov fills the buffers in turn; what is then found in the payload
Scatter(data, iov, old) ==
  LET before(i) == FoldLeft(LAMBDA a, b : a + b.len, 0, SubSeq(iov, 1, i - 1))
      source(k) == {i \in 1 .. Len(iov) : k \in iov[i].base + 1 .. iov[i].base + iov[i].len}
  IN [k \in 1 .. Len(data) |->
        IF source(k) = {} THEN old
        ELSE LET i == CHOOSE j \in source(k) : TRUE
             IN data[before(i) + k - iov[i].base]]

-----------------------------------------------------------------------------
SendRecvInit ==
  /\ snd \in SendLines /\ rcv \in RecvLines
  /\ seqno = 0 /\ sendAt = "send" /\ recvAt = "bind" /\ queue = <<>> /\ received = <<>>

\* an empty payload or too many buffers end axiom-send, and so does any other
\* error of a send
SendEnds ==
  /\ sendAt = "send" /\ sendAt' = "end"
  /\ UNCHANGED <<snd, rcv, seqno, recvAt, queue, received>>

\* axsnd_send, axsnd_send_iov; "any" takes the smallest type that fits; a
\* message to a node that is not reachable counts as sent
axsnd_send ==
  /\ sendAt = "send" /\ snd.bytes # <<>> /\ snd.iov <= MAX_IOVEC
  /\ LET data == Content(snd)
         n == Buffers(Len(data), snd.iov)
         type == IF snd.type = "any" THEN (IF Len(data) <= RAW_MAX THEN "raw" ELSE "long")
                                     ELSE snd.type
     IN IF seqno < snd.count
        THEN /\ queue' \in {queue,
                           Append(queue, [type |-> type,
                                          data |-> IF n > 0 THEN Gather(data, Iovec(Len(data), n))
                                                            ELSE data])}
             /\ seqno' = seqno + 1 /\ UNCHANGED sendAt
        ELSE sendAt' = "end" /\ UNCHANGED <<queue, seqno>>
  /\ UNCHANGED <<snd, rcv, recvAt, received>>

\* axiom_bind; --flush throws away what has come before
RecvBind ==
  /\ recvAt = "bind"
  /\ recvAt' = IF rcv.iov > MAX_IOVEC THEN "end" ELSE "recv"
  /\ queue' = IF rcv.flush /\ rcv.iov <= MAX_IOVEC THEN <<>> ELSE queue
  /\ UNCHANGED <<snd, rcv, seqno, sendAt, received>>

Wanted(m) == rcv.type \in {"any", m.type}

\* the size of the buffer given to the receive call
RecvSize == IF rcv.type = "raw" /\ rcv.max > RAW_MAX THEN RAW_MAX ELSE rcv.max

\* axrcv_recv, axrcv_recv_iov: the next message of the type; one that is
\* larger than the buffer is an error, which ends axiom-recv
axrcv_recv ==
  /\ recvAt = "recv"
  /\ \E k \in 1 .. Len(queue) :
       /\ Wanted(queue[k]) /\ \A j \in 1 .. k - 1 : ~Wanted(queue[j])
       /\ queue' = RemoveAt(queue, k)
       /\ LET data == queue[k].data
              n == Buffers(rcv.max, rcv.iov)
          IN IF Len(data) > RecvSize
             THEN recvAt' = "end" /\ UNCHANGED received
             ELSE /\ received' = Append(received, IF n > 0 THEN Scatter(data, Iovec(rcv.max, n), 0)
                                                     ELSE data)
                  /\ recvAt' = IF rcv.once THEN "end" ELSE "recv"
  /\ UNCHANGED <<snd, rcv, seqno, sendAt>>

\* --noblocking: nothing there; "continue" goes to the loop condition, so
\* that --once ends without a message
NotAvailable ==
  /\ recvAt = "recv" /\ rcv.noblock /\ \A k \in 1 .. Len(queue) : ~Wanted(queue[k])
  /\ recvAt' = IF rcv.once THEN "end" ELSE "recv"
  /\ UNCHANGED <<snd, rcv, seqno, sendAt, queue, received>>

SendRecvNext == SendEnds \/ axsnd_send \/ RecvBind \/ axrcv_recv \/ NotAvailable

\* d is the payload asked for: the bytes, over and over, in whole copies
\* unless it is cut at the largest payload
Asked(s, d) ==
  /\ Len(d) \in 1 .. TypeMax(s.type)
  /\ \A k \in DOMAIN d : d[k] = s.bytes[((k - 1) % Len(s.bytes)) + 1]
  /\ Len(d) % Len(s.bytes) = 0 \/ Len(d) = TypeMax(s.type)

\* What axiom-recv prints is what axiom-send was given: the bytes of the
\* command line, whole repetitions of them unless cut at the largest payload,
\* and the buffers on either side lose and move nothing, also where the bytes
\* do not divide evenly (axiom-send.c:269-341, axiom-recv.c:288-311).
BytesArrive ==
  /\ Len(received) <= seqno
  /\ \A k \in 1 .. Len(received) : Asked(snd, received[k])
=============================================================================
