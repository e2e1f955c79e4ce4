---------------------------- MODULE ToolsProofs ----------------------------
(***************************************************************************)
(* Proof that the statistics of axiom-ping are right, for every argument   *)
(* of -c, any number of lost messages and failing calls, and SIGINT at any *)
(* time.                                                                   *)
(***************************************************************************)
EXTENDS NetTools, FiniteSetTheorems, TLAPS

NetSpec == NetInit /\ [][PingNext \/ TraceStep]_netVars

PingTypeOK ==
  /\ count \in Nat /\ seq \in Nat /\ sent_packets \in Nat /\ recv_packets \in Nat
  /\ toSend \in Nat /\ toRecv \in Nat
  /\ sender \in {"run", "sent", "end"} /\ main \in {"test", "recv", "join", "end"}
  /\ pings \subseteq Nat /\ seen \subseteq Nat

\* what is on the way to the port
PortTrue == \A m \in port : m[2] \in Nat /\ (m[1] => m = <<TRUE, m[2]>>)

\* the sender thread counts a ping after it has sent it, so it is one behind
\* in between, and for ever if the call failed
SentTrue ==
  /\ sender = "run" => seq = sent_packets
  /\ sender = "sent" => seq = sent_packets + 1
  /\ sender = "end" => seq \in {sent_packets, sent_packets + 1}
  /\ count > 0 => toSend + sent_packets = count
  /\ sender = "sent" => toSend > 0

\* the numbers in use by this process
Limit == IF sender = "sent" THEN seq ELSE sent_packets

\* a ping is under way, answered or counted, and only one of them
OnePlace ==
  /\ \A p \in pings : p \in 1 .. Limit /\ <<TRUE, p>> \notin port /\ p \notin seen
  /\ \A m \in port : m[1] => m[2] \in 1 .. Limit /\ m[2] \notin seen
  /\ seen \subseteq 1 .. Limit

\* the main thread counts every answer once, and waits for the right number
RecvTrue ==
  /\ IsFiniteSet(seen) /\ recv_packets = Cardinality(seen)
  /\ count > 0 => toRecv + recv_packets = count
  /\ count = 0 => toRecv > 0
  /\ main = "recv" => toRecv > 0
  /\ main \in {"join", "end"} /\ ~sigint => toRecv = 0
  /\ main = "end" => sender = "end"

PingInv == PingTypeOK /\ PortTrue /\ SentTrue /\ OnePlace /\ RecvTrue
-----------------------------------------------------------------------------
\* nothing is sent or counted at the start; an answer that is queued already
\* is not one to this process
LEMMA PingStarts == NetInit => PingInv
<1> SUFFICES ASSUME NetInit PROVE PingInv
  OBVIOUS
<1>1. /\ count \in Nat /\ toSend = (IF count = 0 THEN 1 ELSE count) /\ toRecv = toSend
      /\ sender = "run" /\ main = "test" /\ seq = 0
      /\ sent_packets = 0 /\ recv_packets = 0 /\ pings = {} /\ seen = {}
      /\ port \in {{}, {<<FALSE, 1>>}}
  BY Zenon, NetToolsAssumption DEF NetInit, PingInit
<1>2. PingTypeOK /\ SentTrue
  BY <1>1 DEF PingTypeOK, SentTrue
<1>3. ASSUME NEW m \in port PROVE ~ m[1] /\ m[2] \in Nat
  <2>1. m = <<FALSE, 1>>
    BY Zenon, <1>1
  <2>2. <<FALSE, 1>>[2] \in Nat
    OBVIOUS
  <2> QED
    BY Zenon, <2>1, <2>2
<1>4. PortTrue /\ OnePlace
  BY Zenon, <1>1, <1>3 DEF PortTrue, OnePlace
<1>5. RecvTrue
  BY <1>1, FS_EmptySet DEF RecvTrue
<1> QED
  BY Zenon, <1>4, <1>5, <1>2 DEF PingInv

\* the sender thread
LEMMA SenderKeeps ==
  ASSUME PingInv, SenderThread
  PROVE  PingInv'
<1>1. PingTypeOK /\ PortTrue /\ SentTrue /\ OnePlace /\ RecvTrue
  BY Zenon DEF PingInv
<1>2. CASE sender_body
  <2>1. /\ sender = "run" /\ toSend > 0 /\ seq' = seq + 1
        /\ \/ pings' = pings \cup {seq + 1} /\ sender' = "sent"
           \/ pings' = pings /\ sender' \in {"sent", "end"}
        /\ UNCHANGED <<count, toSend, toRecv, main, sigint, sent_packets, recv_packets, port, seen>>
    BY Zenon, <1>2 DEF sender_body
  <2>2. seq = sent_packets /\ Limit = seq /\ seq \in Nat
    BY <1>1, <2>1 DEF SentTrue, Limit, PingTypeOK
  <2>3. Limit' = (IF sender' = "sent" THEN seq + 1 ELSE seq)
    BY <2>1, <2>2 DEF Limit
  <2>4. PortTrue'
    BY Zenon, <1>1, <2>1 DEF PortTrue
  <2>5. PingTypeOK'
    <3>1. seq + 1 \in Nat
      BY <2>2
    <3>2. pings' \subseteq Nat
      BY Zenon, <1>1, <2>1, <3>1 DEF PingTypeOK
    <3>3. sender' \in {"run", "sent", "end"}
      BY Zenon, <2>1
    <3> QED
      BY Zenon, <1>1, <2>1, <3>1, <3>2, <3>3 DEF PingTypeOK
  <2>6. SentTrue'
    BY <1>1, <2>1, <2>2 DEF SentTrue, PingTypeOK
  <2>7. \A k : k \in 1 .. Limit => k \in 1 .. Limit' /\ k # seq + 1
    BY <2>2, <2>3
  <2>8. sender' = "sent" => seq + 1 \in 1 .. Limit'
    BY <2>2, <2>3
  <2>9. \A b \in {TRUE} : \A m \in port : m = <<b, seq + 1>> => m[1] /\ m[2] = seq + 1
    OBVIOUS
  <2>10. <<TRUE, seq + 1>> \notin port /\ seq + 1 \notin seen
    BY Zenon, <1>1, <2>7, <2>9 DEF OnePlace
  <2>11. OnePlace'
    BY Zenon, <1>1, <2>1, <2>7, <2>8, <2>10 DEF OnePlace
  <2>12. RecvTrue'
    BY <1>1, <2>1 DEF RecvTrue
  <2> QED
    BY Zenon, <2>5, <2>6, <2>11, <2>12, <2>4 DEF PingInv
<1>3. CASE PingSent
  <2>1. /\ sender = "sent" /\ sender' = "run" /\ sent_packets' = sent_packets + 1
        /\ toSend' = (IF count > 0 THEN toSend - 1 ELSE toSend)
        /\ UNCHANGED <<count, toRecv, main, sigint, seq, recv_packets, pings, port, seen>>
    BY Zenon, <1>3 DEF PingSent
  <2>2. PortTrue'
    BY Zenon, <1>1, <2>1 DEF PortTrue
  <2>3. PingTypeOK' /\ SentTrue' /\ Limit' = Limit
    BY <1>1, <2>1 DEF PingTypeOK, SentTrue, Limit
  <2>4. OnePlace'
    BY Zenon, <1>1, <2>1, <2>3 DEF OnePlace
  <2>5. RecvTrue'
    BY <1>1, <2>1 DEF RecvTrue
  <2> QED
    BY Zenon, <2>3, <2>4, <2>5, <2>2 DEF PingInv
<1>4. CASE SenderEnds
  <2>1. /\ sender = "run" /\ sender' = "end"
        /\ UNCHANGED <<count, toSend, toRecv, main, sigint, seq, sent_packets, recv_packets,
                       pings, port, seen>>
    BY Zenon, <1>4 DEF SenderEnds
  <2>2. PortTrue'
    BY Zenon, <1>1, <2>1 DEF PortTrue
  <2>3. PingTypeOK' /\ SentTrue' /\ Limit' = Limit
    BY <1>1, <2>1 DEF PingTypeOK, SentTrue, Limit
  <2>4. OnePlace'
    BY Zenon, <1>1, <2>1, <2>3 DEF OnePlace
  <2>5. RecvTrue'
    BY <1>1, <2>1 DEF RecvTrue
  <2> QED
    BY Zenon, <2>3, <2>4, <2>5, <2>2 DEF PingInv
<1> QED
  BY Zenon, <1>2, <1>3, <1>4 DEF SenderThread

\* axiom-init answers a ping
LEMMA PongKeeps ==
  ASSUME PingInv, axiom_pong
  PROVE  PingInv'
<1>1. PingTypeOK /\ PortTrue /\ SentTrue /\ OnePlace /\ RecvTrue
  BY Zenon DEF PingInv
<1>2. PICK p \in pings : /\ pings' = pings \ {p}
                         /\ port' = port \cup {<<TRUE, p>>} \/ port' = port
  BY Zenon DEF axiom_pong
<1>3. UNCHANGED <<count, toSend, toRecv, sender, main, sigint, seq, sent_packets, recv_packets, seen>>
  BY Zenon DEF axiom_pong
<1>4. PingTypeOK' /\ SentTrue' /\ Limit' = Limit
  <2>1. pings' \subseteq Nat
    BY Zenon, <1>1, <1>2 DEF PingTypeOK
  <2> QED
    BY <1>1, <1>3, <2>1 DEF PingTypeOK, SentTrue, Limit
<1>5. PortTrue'
  <2>1. ASSUME NEW m, m = <<TRUE, p>> PROVE m[2] \in Nat /\ m = <<TRUE, m[2]>>
    BY <1>1, <1>2, <2>1 DEF PingTypeOK
  <2> QED
    BY Zenon, <1>1, <1>2, <2>1 DEF PortTrue
<1>6. p \in 1 .. Limit /\ p \notin seen
  BY Zenon, <1>1, <1>2 DEF OnePlace
<1>7. ASSUME NEW q \in pings' PROVE q \in pings /\ <<TRUE, q>> \notin port'
  <2>1. q \in pings /\ q # p /\ <<TRUE, q>> \notin port
    BY Zenon, <1>1, <1>2 DEF OnePlace
  <2>2. <<TRUE, q>> # <<TRUE, p>>
    BY <2>1
  <2> QED
    BY Zenon, <1>2, <2>1, <2>2
<1>8. ASSUME NEW m \in port', m[1] PROVE m[2] \in 1 .. Limit /\ m[2] \notin seen
  <2>1. m = <<TRUE, p>> => m[2] = p
    OBVIOUS
  <2>2. m \in port \/ m = <<TRUE, p>>
    BY Zenon, <1>2
  <2> QED
    BY Zenon, <1>1, <1>6, <1>8, <2>1, <2>2 DEF OnePlace
<1>9. OnePlace'
  BY Zenon, <1>1, <1>3, <1>4, <1>7, <1>8 DEF OnePlace
<1>10. RecvTrue'
  BY <1>1, <1>3 DEF RecvTrue
<1> QED
  BY Zenon, <1>4, <1>9, <1>10, <1>5 DEF PingInv

\* the main thread, and the signal handler
LEMMA MainKeeps ==
  ASSUME PingInv, MainThread \/ sigint_handler
  PROVE  PingInv'
<1>1. PingTypeOK /\ PortTrue /\ SentTrue /\ OnePlace /\ RecvTrue
  BY Zenon DEF PingInv
<1>2. CASE TestLoop \/ PingEnd \/ sigint_handler
  <2>1. UNCHANGED <<count, toSend, toRecv, sender, seq, sent_packets, recv_packets, pings, port, seen>>
    BY Zenon, <1>2 DEF TestLoop, PingEnd, sigint_handler
  <2>2. /\ main' \in {"test", "recv", "join", "end"}
        /\ main' = "recv" => toRecv > 0
        /\ main' \in {"join", "end"} /\ ~sigint' => toRecv = 0
        /\ main' = "end" => sender = "end"
    BY <1>1, <1>2 DEF TestLoop, PingEnd, sigint_handler, PingTypeOK, RecvTrue
  <2>3. PortTrue'
    BY Zenon, <1>1, <2>1 DEF PortTrue
  <2>4. PingTypeOK' /\ SentTrue' /\ Limit' = Limit
    BY Zenon, <1>1, <2>1, <2>2 DEF PingTypeOK, SentTrue, Limit
  <2>5. OnePlace'
    BY Zenon, <1>1, <2>1, <2>4 DEF OnePlace
  <2>6. RecvTrue'
    BY Zenon, <1>1, <2>1, <2>2 DEF RecvTrue
  <2> QED
    BY Zenon, <2>4, <2>5, <2>6, <2>3 DEF PingInv
<1>3. CASE RecvPong
  <2>1. PICK m \in port :
          /\ port' = port \ {m}
          /\ IF Mine(m) /\ ~sigint
             THEN /\ recv_packets' = recv_packets + 1 /\ seen' = seen \cup {m[2]}
                  /\ toRecv' = IF count > 0 THEN toRecv - 1 ELSE toRecv
             ELSE UNCHANGED <<recv_packets, seen, toRecv>>
          /\ main' = IF sigint THEN "join" ELSE IF Mine(m) THEN "test" ELSE "recv"
    BY Zenon, <1>3 DEF RecvPong
  <2>2. /\ UNCHANGED <<count, toSend, sender, sigint, seq, sent_packets, pings>>
        /\ main = "recv" /\ toRecv > 0
    BY Zenon, <1>1, <1>3 DEF RecvPong, RecvTrue
  <2>3. PortTrue'
    BY Zenon, <1>1, <2>1 DEF PortTrue
  <2>4. SentTrue' /\ Limit' = Limit
    BY Zenon, <1>1, <2>2 DEF SentTrue, Limit
  <2>5. CASE ~ (Mine(m) /\ ~sigint)
    <3>1. UNCHANGED <<recv_packets, seen, toRecv>> /\ main' = IF sigint THEN "join" ELSE "recv"
      BY <2>1, <2>5
    <3>2. PingTypeOK'
      BY <1>1, <2>1, <2>2, <3>1 DEF PingTypeOK
    <3>3. OnePlace'
      BY Zenon, <1>1, <2>1, <2>2, <2>4, <3>1 DEF OnePlace
    <3>4. RecvTrue'
      BY <1>1, <2>2, <3>1 DEF RecvTrue
    <3> QED
      BY Zenon, <2>4, <2>3, <3>2, <3>3, <3>4 DEF PingInv
  <2>6. CASE Mine(m) /\ ~sigint
    <3>1. /\ recv_packets' = recv_packets + 1 /\ seen' = seen \cup {m[2]}
          /\ toRecv' = (IF count > 0 THEN toRecv - 1 ELSE toRecv) /\ main' = "test"
      BY Zenon, <2>1, <2>6
    <3>2. m[1] /\ m = <<TRUE, m[2]>> /\ m[2] \in Nat
      BY Zenon, <1>1, <2>1, <2>6 DEF Mine, PortTrue
    <3>3. m[2] \notin seen /\ m[2] \in 1 .. Limit
      BY Zenon, <1>1, <2>1, <3>2 DEF OnePlace
    <3>4. PingTypeOK'
      <4>1. toRecv' \in Nat /\ recv_packets' \in Nat
        BY <1>1, <2>2, <3>1 DEF PingTypeOK
      <4>2. seen' \subseteq Nat
        BY Zenon, <1>1, <3>1, <3>2 DEF PingTypeOK
      <4> QED
        BY Zenon, <1>1, <2>2, <3>1, <4>1, <4>2 DEF PingTypeOK
    <3>5. ASSUME NEW q \in pings PROVE <<TRUE, q>> \notin port' /\ q \notin seen'
      <4>1. <<TRUE, q>> \notin port /\ q \notin seen
        BY Zenon, <1>1 DEF OnePlace
      <4>2. q # m[2]
        BY Zenon, <2>1, <3>2, <4>1
      <4> QED
        BY Zenon, <2>1, <3>1, <4>1, <4>2
    <3>6. ASSUME NEW k \in port', k[1] PROVE k[2] \notin seen'
      <4>1. k \in port /\ k # m /\ k[2] \notin seen /\ k = <<TRUE, k[2]>>
        <5>1. k \in port /\ k # m
          BY Zenon, <2>1
        <5>2. k = <<TRUE, k[2]>>
          BY Zenon, <1>1, <3>6, <5>1 DEF PortTrue
        <5> QED
          BY Zenon, <1>1, <3>6, <5>1, <5>2 DEF OnePlace
      <4>2. k[2] # m[2]
        BY Zenon, <3>2, <4>1
      <4> QED
        BY Zenon, <3>1, <4>1, <4>2
    <3>7. OnePlace'
      BY Zenon, <1>1, <2>1, <2>2, <2>4, <3>1, <3>3, <3>5, <3>6 DEF OnePlace
    <3>8. /\ IsFiniteSet(seen') /\ Cardinality(seen') = Cardinality(seen) + 1
      BY Zenon, <1>1, <3>1, <3>3, FS_AddElement DEF RecvTrue
    <3>9. RecvTrue'
      BY <1>1, <2>2, <3>1, <3>8 DEF RecvTrue, PingTypeOK
    <3> QED
      BY Zenon, <2>4, <2>3, <3>4, <3>7, <3>9 DEF PingInv
  <2> QED
    BY Zenon, <2>5, <2>6
<1> QED
  BY Zenon, <1>2, <1>3 DEF MainThread

\* axiom-traceroute has nothing to do with it
LEMMA PingStep == PingInv /\ [PingNext \/ TraceStep]_netVars => PingInv'
<1>1. ASSUME PingInv, UNCHANGED pingVars PROVE PingInv'
  BY Zenon, <1>1 DEF PingInv, PingTypeOK, PortTrue, SentTrue, OnePlace, Limit, RecvTrue, pingVars
<1>2. TraceStep \/ UNCHANGED netVars => UNCHANGED pingVars
  BY Zenon DEF TraceStep, TraceStart, axiom_traceroute_reply, recv_tracereoute_reply, netVars
<1> QED
  BY Zenon, <1>1, <1>2, SenderKeeps, PongKeeps, MainKeeps DEF PingNext

\* axiom-ping never reports more packets received than transmitted, counts
\* every answer once and none of another process, and without SIGINT it has
\* sent and received exactly the pings asked for (axiom-ping.c:112, 311,
\* 354-366)
THEOREM PingHonestHolds == NetSpec => []PingHonest
<1>1. PingInv => PingHonest
  <2> SUFFICES ASSUME PingInv, main = "end" PROVE PingHonest
    BY Zenon DEF PingHonest
  <2>1. PingTypeOK /\ PortTrue /\ SentTrue /\ OnePlace /\ RecvTrue /\ sender = "end"
    BY Zenon DEF PingInv, RecvTrue
  <2>2. seen \subseteq 1 .. sent_packets /\ recv_packets = Cardinality(seen)
    BY <2>1 DEF OnePlace, Limit, RecvTrue
  <2>3. Cardinality(1 .. sent_packets) = sent_packets /\ IsFiniteSet(1 .. sent_packets)
    BY <2>1, FS_Interval DEF PingTypeOK
  <2>4. recv_packets <= sent_packets
    BY Zenon, <2>2, <2>3, FS_Subset
  <2>5. ~sigint => recv_packets = count /\ sent_packets = count
    BY <2>1, <2>4 DEF PingTypeOK, SentTrue, RecvTrue
  <2> QED
    BY Zenon, <2>2, <2>4, <2>5 DEF PingHonest
<1> QED
  BY <1>1, PingStarts, PingStep, PTL DEF NetSpec
=============================================================================
