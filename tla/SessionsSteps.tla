--------------------------- MODULE SessionsSteps ----------------------------
(***************************************************************************)
(* Remote execution, for any number of clients, nodes, sessions, slots and *)
(* failing calls: the inductive invariants, and what the steps of a client *)
(* preserve.                                                               *)
(***************************************************************************)
EXTENDS Sessions, TLAPS

Piece(c, id, j) == Packets(c, id)[j]
Number(m) == IF m.type = "EXE" THEN 1 ELSE IF m.type = "ARG" THEN 2
             ELSE IF m.type = "ENV" THEN 3 ELSE 4

Asks == {Request(EMPTY, c) : c \in Clients}
Releases == {Request(id, c) : id \in Ids, c \in Clients}
Pieces == {Piece(c, id, j) : c \in Clients, id \in Ids, j \in 1 .. 4}
Msgs == Asks \cup Releases \cup Pieces

\* the client a message comes from, and its place among the messages of a
\* client to one axiom-init: the request, the pieces, the release
From(m) == IF m.cmd = "SESSION_REQ" THEN m.from ELSE m.data
Rank(m) == IF m.cmd = "SPAWN_REQ" THEN Number(m) ELSE IF m.id = EMPTY THEN 0 ELSE 5

Pcs == {"call", "reply", "send", "release", "done", "failed"}

SessionsTypeOK ==
  /\ free \in [Nodes -> SUBSET Ids]
  /\ info = [n \in Nodes |-> [i \in Slots |-> info[n][i]]] /\ ran = [n \in Nodes |-> ran[n]]
  /\ initq \in [Nodes -> Seq(Msgs)] /\ replies \in [Clients -> Seq(Ids \cup {EMPTY})]
  /\ pc \in [Clients -> Pcs] /\ node \in [Clients -> Nat]
  /\ session \in [Clients -> Ids \cup {EMPTY}] /\ todo \in [Clients -> Seq(Pieces)]
  /\ started \in [Clients -> SUBSET Nodes]
  /\ faults \in Nat

Holds(c) == pc[c] \in {"send", "release"}
FirstLeft(c) == 5 - Len(todo[c])

\* where a call is, and what it has still to send
ClientInv(c) ==
  /\ pc[c] \in {"call", "reply"} \/ Holds(c) => node[c] \in Nodes
  /\ Len(replies[c]) <= 1 /\ (pc[c] \notin {"reply", "failed"} => replies[c] = << >>)
  /\ Holds(c) => /\ session[c] \in Ids /\ Len(todo[c]) \in 1 .. 4
                 /\ \A k \in 1 .. Len(todo[c]) :
                      todo[c][k] = Piece(c, session[c], FirstLeft(c) - 1 + k)

\* no release has carried the number of another session
Calm == aligned \/ released = {}

\* message m in the queue of node n, against the client it comes from
MsgInv(n, m) ==
  LET c == From(m)
  IN /\ node[c] >= n
     /\ node[c] = n => /\ pc[c] # "call" /\ replies[c] = << >>
                       /\ pc[c] = "reply" => Rank(m) = 0
                       /\ Holds(c) => /\ Rank(m) \in 1 .. FirstLeft(c) - 1
                                      /\ m.id = session[c]
     /\ Rank(m) = 0 => node[c] = n /\ pc[c] \in {"reply", "failed"}

\* two messages of a client are two pieces of the same spawn, or a piece and
\* the release of its session
Follows(m, k) == From(m) = From(k) => /\ Rank(m) \in 1 .. 3 /\ Rank(m) < Rank(k)
                                      /\ m.id = k.id

QueueInv(n) ==
  /\ \A k \in 1 .. Len(initq[n]) : MsgInv(n, initq[n][k])
  /\ \A j, k \in 1 .. Len(initq[n]) : j < k => Follows(initq[n][j], initq[n][k])

\* a message of client c with session id, and message m, are in the queue of n
Queued(n, c, id) == \E k \in 1 .. Len(initq[n]) : From(initq[n][k]) = c /\ initq[n][k].id = id
Waits(n, m) == \E k \in 1 .. Len(initq[n]) : initq[n][k] = m

\* session id of node n is on its way to client c, held by it, or the one of
\* a message of it that is under way
Own(n, c, id) ==
  \/ node[c] = n /\ replies[c] # << >> /\ Head(replies[c]) = id
  \/ node[c] = n /\ Holds(c) /\ session[c] = id
  \/ Queued(n, c, id)

ApartInv(n) ==
  \A id \in Ids : \A c \in Clients : Own(n, c, id) =>
    id \notin free[n] /\ \A d \in Clients : Own(n, d, id) => d = c

\* piece j of the spawn of client c on node n has not been served
Out(n, c, id, j) ==
  \/ Waits(n, Piece(c, id, j))
  \/ node[c] = n /\ pc[c] = "send" /\ session[c] = id /\ j >= FirstLeft(c)

\* a slot with the first j pieces of c
Partial(c, id, j) ==
  [id |-> id, exec |-> c, cwd |-> Nobody,
   args |-> IF j >= 2 THEN <<c>> ELSE << >>, env |-> IF j >= 3 THEN <<c>> ELSE << >>]

\* the pieces that are left follow those in the slot, without a gap
SlotInv(n) ==
  /\ \A i, k \in Slots : info[n][i].id = info[n][k].id => i = k \/ info[n][i].id = EMPTY
  /\ \A c \in Clients, id \in Ids : \A j \in 2 .. 4 : Out(n, c, id, j) =>
       \/ Out(n, c, id, j - 1)
       \/ /\ \A k \in 1 .. j - 1 : ~ Out(n, c, id, k)
          /\ \E i \in Slots : info[n][i] = Partial(c, id, j - 1)
  /\ \A p \in ran[n] : \E c \in Clients : p = Program(c)

CalmInv ==
  /\ SessionsTypeOK /\ \A c \in Clients : ClientInv(c)
  /\ \A n \in Nodes : QueueInv(n) /\ ApartInv(n) /\ (n \notin dropped => SlotInv(n))

SessionsInv == faults \in Nat /\ (Calm => CalmInv)

\* the converse, as long as no call has failed: the request of a client that
\* waits, or the answer to it, is on its way,
AnswerInv(c) ==
  /\ pc[c] # "release"
  /\ pc[c] = "failed" => replies[c] = << >> /\ \A n \in Nodes : ~ Waits(n, Request(EMPTY, c))
  /\ pc[c] = "reply" => (replies[c] = << >> <=> Waits(node[c], Request(EMPTY, c)))

\* a spawn that began goes on to its last piece, a session in use has a client,
\* a slot in use has a last piece to come, and the starts counted are those
\* done and those whose last piece is to come
KeptAt(n) ==
  /\ \A c \in Clients, id \in Ids : \A j \in 1 .. 4 : Out(n, c, id, j) => Out(n, c, id, 4)
  /\ \A c \in Clients, id \in Ids : Waits(n, Piece(c, id, 4)) => n \in started[c]
  /\ \A id \in Ids \ free[n] : \E c \in Clients : Own(n, c, id)
  /\ \A i \in Slots : \/ info[n][i] = Free
                      \/ /\ info[n][i].id \in Ids
                         /\ \E c \in Clients : Out(n, c, info[n][i].id, 4)
  /\ \A c \in Clients : n \in started[c] =>
       Program(c) \in ran[n] \/ \E id \in Ids : Out(n, c, id, 4)
  /\ \A p \in ran[n] : \E c \in Clients : p = Program(c) /\ n \in started[c]

KeptInv ==
  faults = 0 => /\ released = {} /\ \A c \in Clients : AnswerInv(c)
                /\ \A n \in Nodes : n \notin dropped => KeptAt(n)
-----------------------------------------------------------------------------
\* the four packets of a spawn (axinit_execvpe)
LEMMA PieceShape ==
  ASSUME NEW c \in Clients, NEW id \in Ids
  PROVE  /\ Piece(c, id, 1) = Packet(id, "EXE", "RESET", c)
         /\ Piece(c, id, 2) = Packet(id, "ARG", "NONE", c)
         /\ Piece(c, id, 3) = Packet(id, "ENV", "NONE", c)
         /\ Piece(c, id, 4) = Packet(id, "CWD", "EXEC", c)
BY DEF Piece, Packets

\* a packet of a spawn is known by its client, its session and its place
LEMMA PieceIs ==
  ASSUME NEW c \in Clients, NEW id \in Ids, NEW j \in 1 .. 4, NEW m, m = Piece(c, id, j)
  PROVE  /\ m \in Msgs /\ m \in Pieces
         /\ m.cmd = "SPAWN_REQ" /\ From(m) = c /\ m.id = id /\ m.data = c /\ Rank(m) = j
<1>1. m \in Msgs /\ m \in Pieces
  BY DEF Msgs, Pieces
<1>2. j = 1 \/ j = 2 \/ j = 3 \/ j = 4
  OBVIOUS
<1>3. CASE j = 1
  BY <1>1, <1>3, PieceShape DEF Packet, From, Rank, Number
<1>4. CASE j = 2
  BY <1>1, <1>4, PieceShape DEF Packet, From, Rank, Number
<1>5. CASE j = 3
  BY <1>1, <1>5, PieceShape DEF Packet, From, Rank, Number
<1>6. CASE j = 4
  BY <1>1, <1>6, PieceShape DEF Packet, From, Rank, Number
<1> QED
  BY Zenon, <1>2, <1>3, <1>4, <1>5, <1>6

\* the two requests to axiom_session
LEMMA RequestIs ==
  ASSUME NEW c \in Clients, NEW id \in Ids \cup {EMPTY}, NEW m, m = Request(id, c)
  PROVE  /\ m \in Msgs /\ m \notin Pieces
         /\ m.cmd = "SESSION_REQ" /\ From(m) = c /\ m.id = id /\ m.from = c
         /\ id = EMPTY => Rank(m) = 0
         /\ id # EMPTY => Rank(m) = 5
<1>1. m \in Msgs
  BY DEF Msgs, Asks, Releases
<1>2. ASSUME NEW p \in Pieces PROVE p.cmd = "SPAWN_REQ"
  <2>1. PICK d \in Clients, x \in Ids, j \in 1 .. 4 : p = Piece(d, x, j)
    BY DEF Pieces
  <2> QED
    BY <2>1, PieceIs
<1>3. m.cmd = "SESSION_REQ" /\ "SESSION_REQ" # "SPAWN_REQ"
  BY DEF Request
<1>4. m \notin Pieces
  BY Zenon, <1>2, <1>3
<1> QED
  BY <1>1, <1>4 DEF Request, From, Rank

\* EMPTY is no session number
LEMMA IdsApart == EMPTY \notin Ids
BY SessionsAssumption DEF EMPTY, Ids

\* a message is known by its client, its session and its place
LEMMA MsgIs ==
  ASSUME NEW m \in Msgs
  PROVE  /\ From(m) \in Clients /\ m.id \in Ids \cup {EMPTY} /\ Rank(m) \in 0 .. 5
         /\ Rank(m) = 0 => m = Request(EMPTY, From(m)) /\ m.id = EMPTY
         /\ Rank(m) = 5 => m = Request(m.id, From(m)) /\ m.id \in Ids
         /\ Rank(m) \in 1 .. 4 => m = Piece(From(m), m.id, Rank(m)) /\ m.id \in Ids
<1>1. CASE m \in Asks
  BY <1>1, RequestIs DEF Asks
<1>2. CASE m \in Releases
  <2>1. PICK id \in Ids, c \in Clients : m = Request(id, c)
    BY <1>2 DEF Releases
  <2> QED
    BY <2>1, RequestIs, IdsApart
<1>3. CASE m \in Pieces
  <2>1. PICK c \in Clients, id \in Ids, j \in 1 .. 4 : m = Piece(c, id, j)
    BY <1>3 DEF Pieces
  <2>2. From(m) = c /\ m.id = id /\ Rank(m) = j
    BY <2>1, PieceIs
  <2> QED
    BY <2>1, <2>2
<1> QED
  BY Zenon, <1>1, <1>2, <1>3 DEF Msgs

-----------------------------------------------------------------------------
(***************************************************************************)
(* The steps of a client.                                                  *)
(***************************************************************************)

\* a step of client c leaves the other clients alone
OthersAlone(c) ==
  \A d \in Clients : d # c =>
    /\ pc'[d] = pc[d] /\ node'[d] = node[d] /\ replies'[d] = replies[d]
    /\ session'[d] = session[d] /\ todo'[d] = todo[d]

\* message m is put at the end of the queue of node x
Grows(x, m) ==
  /\ \A n \in Nodes : n # x => initq'[n] = initq[n]
  /\ Len(initq'[x]) = Len(initq[x]) + 1 /\ initq'[x][Len(initq[x]) + 1] = m
  /\ \A k \in 1 .. Len(initq[x]) : initq'[x][k] = initq[x][k]

\* axiom_send_raw and axiom_send
LEMMA SendGrows ==
  ASSUME SessionsTypeOK, NEW x \in Nodes, NEW m \in Msgs,
         initq' = [initq EXCEPT ![x] = Append(@, m)]
  PROVE  Grows(x, m) /\ initq' \in [Nodes -> Seq(Msgs)]
<1>1. initq \in [Nodes -> Seq(Msgs)] /\ initq[x] \in Seq(Msgs)
  BY Zenon DEF SessionsTypeOK
<1>2. initq'[x] = Append(initq[x], m) /\ \A n \in Nodes : n # x => initq'[n] = initq[n]
  BY Zenon, <1>1
<1>3. Append(initq[x], m) \in Seq(Msgs)
  BY <1>1
<1>4. initq' \in [Nodes -> Seq(Msgs)]
  BY <1>1, <1>3
<1> QED
  BY <1>1, <1>2, <1>4 DEF Grows

\* what is in the queues then
LEMMA GrowsBy ==
  ASSUME SessionsTypeOK, NEW x \in Nodes, NEW m \in Msgs, Grows(x, m), NEW n \in Nodes
  PROVE  /\ \A d, id : Queued(n, d, id)' <=> (Queued(n, d, id) \/ (n = x /\ From(m) = d /\ m.id = id))
         /\ \A p : Waits(n, p)' <=> (Waits(n, p) \/ (n = x /\ p = m))
<1>1. Len(initq[x]) \in Nat
  BY DEF SessionsTypeOK
<1>2. CASE n = x
  <2>1. \A k : k \in 1 .. Len(initq'[x]) <=> k \in 1 .. Len(initq[x]) \/ k = Len(initq[x]) + 1
    BY <1>1 DEF Grows
  <2> QED
    BY Zenon, <1>2, <2>1 DEF Grows, Queued, Waits
<1>3. CASE n # x
  <2>1. initq'[n] = initq[n]
    BY Zenon, <1>3 DEF Grows
  <2> QED
    BY Zenon, <1>3, <2>1 DEF Queued, Waits
<1> QED
  BY Zenon, <1>2, <1>3

\* the messages of the other clients stay right
LEMMA OthersRight ==
  ASSUME NEW c \in Clients, OthersAlone(c), NEW d \in Clients, d # c
  PROVE  /\ ClientInv(d) => ClientInv(d)'
         /\ \A n \in Nodes : \A m \in Msgs : From(m) = d /\ MsgInv(n, m) => MsgInv(n, m)'
<1>1. /\ pc'[d] = pc[d] /\ node'[d] = node[d] /\ replies'[d] = replies[d]
      /\ session'[d] = session[d] /\ todo'[d] = todo[d]
  BY Zenon DEF OthersAlone
<1>2. Holds(d)' <=> Holds(d)
  BY Zenon, <1>1 DEF Holds
<1>3. FirstLeft(d)' = FirstLeft(d)
  BY Zenon, <1>1 DEF FirstLeft
<1>4. ClientInv(d) => ClientInv(d)'
  BY Zenon, <1>1, <1>2, <1>3 DEF ClientInv
<1>5. ASSUME NEW n \in Nodes, NEW m \in Msgs, From(m) = d, MsgInv(n, m) PROVE MsgInv(n, m)'
  BY Zenon, <1>1, <1>2, <1>3, <1>5 DEF MsgInv
<1> QED
  BY Zenon, <1>4, <1>5

\* client c sends nothing, or one message, to the node x it works on
Sent(c, x, M) ==
  \/ M = {} /\ initq' = initq
  \/ \E m \in Msgs : M = {m} /\ From(m) = c /\ Grows(x, m)

\* what it sends is right, and may follow what it has sent
SentRight(x, M) ==
  \A m \in M : MsgInv(x, m)' /\ \A k \in 1 .. Len(initq[x]) : Follows(initq[x][k], m)

\* a step of client c leaves the messages it has sent right
SentStay(c) ==
  \A n \in Nodes : \A m \in Msgs : From(m) = c /\ MsgInv(n, m) => MsgInv(n, m)'

\* the queues stay right when what is sent is right
LEMMA QueueKept ==
  ASSUME SessionsTypeOK, NEW c \in Clients, NEW x \in Nodes, NEW M, OthersAlone(c),
         SentStay(c), Sent(c, x, M), SentRight(x, M), NEW n \in Nodes, QueueInv(n)
  PROVE  QueueInv(n)'
<1>1. \A k \in 1 .. Len(initq[n]) : initq[n][k] \in Msgs
  BY DEF SessionsTypeOK
<1>2. ASSUME NEW m \in Msgs, MsgInv(n, m) PROVE MsgInv(n, m)'
  <2>1. From(m) \in Clients
    BY Zenon, MsgIs
  <2> QED
    BY Zenon, <1>2, <2>1, OthersRight DEF SentStay
<1>3. ASSUME NEW k \in 1 .. Len(initq[n]), NEW m, m = initq[n][k] PROVE MsgInv(n, m)'
  BY Zenon, <1>1, <1>2, <1>3 DEF QueueInv
<1>4. CASE initq'[n] = initq[n]
  BY Zenon, <1>3, <1>4 DEF QueueInv
<1>5. CASE initq'[n] # initq[n]
  <2>1. PICK m \in Msgs : M = {m} /\ n = x /\ Grows(n, m)
    BY Zenon, <1>5 DEF Sent, Grows
  <2>2. MsgInv(n, m)' /\ \A k \in 1 .. Len(initq[n]) : Follows(initq[n][k], m)
    BY Zenon, <2>1 DEF SentRight
  <2>3. Len(initq[n]) \in Nat
    BY DEF SessionsTypeOK
  <2>4. \A k : k \in 1 .. Len(initq'[n]) => k \in 1 .. Len(initq[n]) \/ k = Len(initq[n]) + 1
    BY <2>1, <2>3 DEF Grows
  <2>5. \A j, k \in 1 .. Len(initq'[n]) : j < k =>
          j \in 1 .. Len(initq[n]) /\ (k \in 1 .. Len(initq[n]) \/ k = Len(initq[n]) + 1)
    BY <2>1, <2>3 DEF Grows
  <2>6. /\ initq'[n][Len(initq[n]) + 1] = m
        /\ \A k \in 1 .. Len(initq[n]) : initq'[n][k] = initq[n][k]
    BY Zenon, <2>1 DEF Grows
  <2>7. ASSUME NEW k \in 1 .. Len(initq'[n]), NEW p, p = initq'[n][k] PROVE MsgInv(n, p)'
    BY Zenon, <1>3, <2>2, <2>4, <2>6, <2>7
  <2>8. ASSUME NEW j \in 1 .. Len(initq'[n]), NEW k \in 1 .. Len(initq'[n]), j < k
        PROVE  Follows(initq'[n][j], initq'[n][k])
    BY Zenon, <2>2, <2>5, <2>6, <2>8 DEF QueueInv
  <2> QED
    BY Zenon, <2>7, <2>8 DEF QueueInv
<1> QED
  BY Zenon, <1>4, <1>5

\* the sessions and the pieces of the other clients stay where they are
LEMMA OthersOwn ==
  ASSUME SessionsTypeOK, NEW c \in Clients, NEW x \in Nodes, NEW M, OthersAlone(c),
         Sent(c, x, M), NEW d \in Clients, d # c, NEW n \in Nodes, NEW id \in Ids
  PROVE  /\ Own(n, d, id)' <=> Own(n, d, id)
         /\ \A j \in 1 .. 4 : Out(n, d, id, j)' <=> Out(n, d, id, j)
         /\ Waits(n, Request(EMPTY, d))' <=> Waits(n, Request(EMPTY, d))
<1>1. /\ pc'[d] = pc[d] /\ node'[d] = node[d] /\ replies'[d] = replies[d]
      /\ session'[d] = session[d] /\ todo'[d] = todo[d]
  BY Zenon DEF OthersAlone
<1>2. /\ Queued(n, d, id)' <=> Queued(n, d, id)
      /\ \A p : From(p) = d => (Waits(n, p)' <=> Waits(n, p))
  <2>1. CASE initq' = initq
    BY Zenon, <2>1 DEF Queued, Waits
  <2>2. CASE initq' # initq
    <3>1. PICK m \in Msgs : From(m) = c /\ Grows(x, m)
      BY Zenon, <2>2 DEF Sent
    <3> QED
      BY Zenon, <3>1, GrowsBy
  <2> QED
    BY Zenon, <2>1, <2>2
<1>3. From(Request(EMPTY, d)) = d
  BY RequestIs
<1>4. \A j \in 1 .. 4 : From(Piece(d, id, j)) = d
  BY PieceIs
<1>5. (Holds(d)' <=> Holds(d)) /\ FirstLeft(d)' = FirstLeft(d)
  BY Zenon, <1>1 DEF Holds, FirstLeft
<1>6. Own(n, d, id)' <=> Own(n, d, id)
  BY Zenon, <1>1, <1>2, <1>5 DEF Own
<1>7. \A j \in 1 .. 4 : Out(n, d, id, j)' <=> Out(n, d, id, j)
  BY Zenon, <1>1, <1>2, <1>4, <1>5 DEF Out
<1> QED
  BY Zenon, <1>2, <1>3, <1>6, <1>7

\* the sessions, and the pieces, of client c are those it had
SameOwn(c) == \A n \in Nodes, id \in Ids : Own(n, c, id)' <=> Own(n, c, id)
SameOut(c) == \A n \in Nodes, id \in Ids : \A j \in 1 .. 4 :
                Out(n, c, id, j)' <=> Out(n, c, id, j)

Undone == <<free, info, ran, dropped>>

\* a step of client c is right by itself, and sends what may be sent
ClientRight(c, x, M) ==
  /\ SessionsTypeOK' /\ OthersAlone(c) /\ Sent(c, x, M) /\ SentStay(c) /\ ClientInv(c)'
  /\ Calm' /\ QueueInv(x) => SentRight(x, M)

\* a client that holds a session has pieces left
LEMMA LeftIs ==
  ASSUME NEW c, Len(todo[c]) \in 1 .. 4
  PROVE  FirstLeft(c) \in 1 .. 4
<1>1. PICK L \in 1 .. 4 : L = Len(todo[c])
  BY Zenon
<1>2. 5 - L \in 1 .. 4
  OBVIOUS
<1> QED
  BY Zenon, <1>1, <1>2 DEF FirstLeft

\* axinit_execvpe passes over its own node
LEMMA SkipFacts ==
  ASSUME SessionsTypeOK, NEW c \in Clients, ClientInv(c), NEW x \in Nodes, x = node[c], SkipSelf(c)
  PROVE  /\ ClientRight(c, x, {}) /\ SameOwn(c) /\ SameOut(c)
         /\ UNCHANGED <<Undone, started, released, aligned, faults>>
         /\ pc'[c] \in {"call", "done"} /\ replies'[c] = << >>
<1>1. /\ pc[c] = "call" /\ node' = [node EXCEPT ![c] = x + 1]
      /\ pc' = [pc EXCEPT ![c] = IF x + 1 < NumNodes THEN "call" ELSE "done"]
      /\ UNCHANGED <<Undone, initq, replies, session, todo, started, aligned, faults, released>>
  BY Zenon DEF SkipSelf, NextNode, server, Undone
<1>2. /\ pc'[c] = (IF x + 1 < NumNodes THEN "call" ELSE "done") /\ node'[c] = x + 1
      /\ x \in Nat /\ pc'[c] \in {"call", "done"}
      /\ replies'[c] = << >> /\ replies[c] = << >>
  BY <1>1 DEF SessionsTypeOK, Nodes, ClientInv
<1>3. SessionsTypeOK'
  <2>1. pc' \in [Clients -> Pcs] /\ node' \in [Clients -> Nat]
    BY <1>1, <1>2 DEF SessionsTypeOK, Pcs
  <2> QED
    BY Zenon, <1>1, <2>1 DEF SessionsTypeOK, Undone
<1>4. OthersAlone(c)
  BY <1>1 DEF OthersAlone, SessionsTypeOK
<1>5. Sent(c, x, {})
  BY Zenon, <1>1 DEF Sent
<1>6. ~ Holds(c) /\ ~ Holds(c)'
  BY <1>1, <1>2 DEF Holds
<1>7. SentStay(c)
  BY <1>1, <1>2, <1>6 DEF SentStay, MsgInv, Nodes
<1>8. ClientInv(c)'
  <2>1. pc'[c] = "call" => node'[c] \in Nodes
    BY <1>2, SessionsAssumption DEF Nodes
  <2> QED
    BY <1>2, <1>6, <2>1 DEF ClientInv
<1>9. SameOwn(c) /\ SameOut(c)
  <2>1. /\ \A n \in Nodes : \A id : Queued(n, c, id)' <=> Queued(n, c, id)
        /\ \A n \in Nodes : \A p : Waits(n, p)' <=> Waits(n, p)
    BY Zenon, <1>1 DEF Queued, Waits
  <2>2. pc[c] # "send" /\ pc'[c] # "send"
    BY <1>1, <1>2
  <2> QED
    BY Zenon, <1>2, <1>6, <2>1, <2>2 DEF SameOwn, SameOut, Own, Out
<1>10. ClientRight(c, x, {})
  BY Zenon, <1>3, <1>4, <1>5, <1>7, <1>8 DEF ClientRight, SentRight
<1> QED
  BY Zenon, <1>1, <1>2, <1>9, <1>10

\* it asks the axiom-init of the node for a session
LEMMA AskFacts ==
  ASSUME SessionsTypeOK, NEW c \in Clients, ClientInv(c), NEW x \in Nodes, x = node[c], AskSession(c)
  PROVE  \E M : /\ ClientRight(c, x, M) /\ SameOwn(c) /\ SameOut(c)
                /\ UNCHANGED <<Undone, started, released, aligned, node>>
                /\ replies'[c] = << >>
                /\ \/ M = {Request(EMPTY, c)} /\ pc'[c] = "reply" /\ faults' = faults
                   \/ pc'[c] = "failed" /\ faults' = faults + 1
<1> DEFINE m == Request(EMPTY, c)
<1>1. /\ pc[c] = "call"
      /\ UNCHANGED <<Undone, replies, node, session, todo, started, aligned, released>>
      /\ \/ /\ initq' = [initq EXCEPT ![x] = Append(@, m)] /\ faults' = faults
            /\ pc' = [pc EXCEPT ![c] = "reply"]
         \/ initq' = initq /\ faults' = faults + 1 /\ pc' = [pc EXCEPT ![c] = "failed"]
  BY Zenon DEF AskSession, Send, Fault, server, Undone
<1>2. m \in Msgs /\ From(m) = c /\ m.id = EMPTY /\ Rank(m) = 0 /\ m \notin Pieces
  BY RequestIs
<1>3. PICK M : \/ /\ M = {m} /\ Grows(x, m) /\ initq' \in [Nodes -> Seq(Msgs)]
                  /\ pc' = [pc EXCEPT ![c] = "reply"] /\ faults' = faults
               \/ /\ M = {} /\ initq' = initq
                  /\ pc' = [pc EXCEPT ![c] = "failed"] /\ faults' = faults + 1
  BY Zenon, <1>1, <1>2, SendGrows
<1> HIDE DEF m
<1>4. /\ pc'[c] \in {"reply", "failed"} /\ (M # {} => pc'[c] = "reply")
      /\ replies[c] = << >> /\ replies'[c] = << >> /\ node'[c] = x
      /\ pc' \in [Clients -> Pcs] /\ faults' \in Nat
  <2>1. /\ pc'[c] \in {"reply", "failed"} /\ (M # {} => pc'[c] = "reply")
        /\ pc' \in [Clients -> Pcs] /\ faults' \in Nat
    <3>1. /\ pc \in [Clients -> Pcs] /\ faults \in Nat
          /\ \/ pc' = [pc EXCEPT ![c] = "reply"] /\ faults' = faults
             \/ M = {} /\ pc' = [pc EXCEPT ![c] = "failed"] /\ faults' = faults + 1
      BY Zenon, <1>3 DEF SessionsTypeOK
    <3> QED
      BY <3>1 DEF Pcs
  <2>2. replies[c] = << >>
    BY <1>1 DEF ClientInv
  <2> QED
    BY Zenon, <1>1, <2>1, <2>2
<1>5. SessionsTypeOK'
  <2>1. initq' \in [Nodes -> Seq(Msgs)]
    BY Zenon, <1>3 DEF SessionsTypeOK
  <2> QED
    BY Zenon, <1>1, <1>4, <2>1 DEF SessionsTypeOK, Undone
<1>6. OthersAlone(c)
  BY <1>1, <1>3 DEF OthersAlone, SessionsTypeOK
<1>7. Sent(c, x, M)
  BY Zenon, <1>2, <1>3 DEF Sent
<1>8. ~ Holds(c) /\ ~ Holds(c)'
  BY <1>1, <1>4 DEF Holds
<1>9. SentStay(c)
  BY <1>1, <1>4, <1>8 DEF SentStay, MsgInv
<1>10. ClientInv(c)'
  BY <1>1, <1>4, <1>8 DEF ClientInv
<1>11. QueueInv(x) => SentRight(x, M)
  <2> SUFFICES ASSUME QueueInv(x), NEW p \in M
               PROVE  MsgInv(x, p)' /\ \A k \in 1 .. Len(initq[x]) : Follows(initq[x][k], p)
    BY Zenon DEF SentRight
  <2>1. p = m /\ pc'[c] = "reply"
    BY Zenon, <1>3, <1>4
  <2>2. MsgInv(x, p)'
    BY <1>2, <1>4, <1>8, <2>1 DEF MsgInv, Nodes
  <2>3. \A k \in 1 .. Len(initq[x]) : From(initq[x][k]) # c
    BY Zenon, <1>1 DEF QueueInv, MsgInv
  <2> QED
    BY Zenon, <1>2, <2>1, <2>2, <2>3 DEF Follows
<1>12. SameOwn(c) /\ SameOut(c)
  <2>1. \A n \in Nodes : \A id \in Ids : Queued(n, c, id)' <=> Queued(n, c, id)
    <3>1. CASE M = {}
      BY Zenon, <1>3, <3>1 DEF Queued
    <3>2. CASE M # {}
      <4>1. Grows(x, m) /\ \A id \in Ids : m.id # id
        BY Zenon, <1>2, <1>3, <3>2, IdsApart
      <4> QED
        BY Zenon, <1>2, <4>1, GrowsBy
    <3> QED
      BY Zenon, <3>1, <3>2
  <2>2. \A n \in Nodes : \A p \in Pieces : Waits(n, p)' <=> Waits(n, p)
    <3>1. CASE M = {}
      BY Zenon, <1>3, <3>1 DEF Waits
    <3>2. CASE M # {}
      BY Zenon, <1>2, <1>3, <3>2, GrowsBy
    <3> QED
      BY Zenon, <3>1, <3>2
  <2>3. pc[c] # "send" /\ pc'[c] # "send"
    BY <1>1, <1>4
  <2>4. \A id \in Ids : \A j \in 1 .. 4 : Piece(c, id, j) \in Pieces
    BY PieceIs
  <2>5. SameOwn(c)
    BY Zenon, <1>4, <1>8, <2>1 DEF SameOwn, Own
  <2> QED
    BY Zenon, <2>2, <2>3, <2>4, <2>5 DEF SameOut, Out
<1>13. ClientRight(c, x, M)
  BY Zenon, <1>5, <1>6, <1>7, <1>9, <1>10, <1>11 DEF ClientRight
<1>14. \/ M = {Request(EMPTY, c)} /\ pc'[c] = "reply" /\ faults' = faults
       \/ pc'[c] = "failed" /\ faults' = faults + 1
  BY <1>3 DEF m, SessionsTypeOK
<1> QED
  BY Zenon, <1>1, <1>4, <1>12, <1>13, <1>14

\* at first, all four
LEMMA PacketsAre ==
  ASSUME NEW c \in Clients, NEW id \in Ids
  PROVE  /\ Packets(c, id) \in Seq(Pieces) /\ Len(Packets(c, id)) = 4
         /\ \A k \in 1 .. 4 : Packets(c, id)[k] = Piece(c, id, k)
<1>1. \A k \in 1 .. 4 : Packets(c, id)[k] = Piece(c, id, k)
  BY Zenon DEF Piece
<1>2. \A k \in 1 .. 4 : Piece(c, id, k) \in Pieces
  BY PieceIs
<1>3. /\ Packet(id, "EXE", "RESET", c) \in Pieces /\ Packet(id, "ARG", "NONE", c) \in Pieces
      /\ Packet(id, "ENV", "NONE", c) \in Pieces /\ Packet(id, "CWD", "EXEC", c) \in Pieces
  BY <1>2, PieceShape
<1>4. Packets(c, id) \in Seq(Pieces) /\ Len(Packets(c, id)) = 4
  BY <1>3 DEF Packets
<1> QED
  BY Zenon, <1>1, <1>4

\* client c begins to send the pieces of its spawn, sends one, or gives up
OutKept(n, c, id) ==
  \/ \A j \in 1 .. 4 : Out(n, c, id, j)'
  \/ \E F \in 1 .. 5 : \A j \in 1 .. 4 : Out(n, c, id, j)' <=> (Out(n, c, id, j) /\ j < F)

\* it sends one, or begins
OutWhole(n, c, id) ==
  \/ \A j \in 1 .. 4 : Out(n, c, id, j)' <=> Out(n, c, id, j)
  \/ \A j \in 1 .. 4 : Out(n, c, id, j)'

\* a spawn whose pieces to come do not change
LEMMA WholeKept ==
  ASSUME NEW c, NEW n, NEW id, OutWhole(n, c, id)
  PROVE  OutKept(n, c, id)
<1>1. 5 \in 1 .. 5 /\ \A j \in 1 .. 4 : j < 5
  OBVIOUS
<1> QED
  BY Zenon, <1>1 DEF OutWhole, OutKept

\* axiom_recv_raw fails
LEMMA ErrorFacts ==
  ASSUME SessionsTypeOK, NEW c \in Clients, ClientInv(c), NEW x \in Nodes, x = node[c], ReplyError(c)
  PROVE  /\ ClientRight(c, x, {}) /\ SameOwn(c) /\ SameOut(c)
         /\ UNCHANGED <<Undone, started, released, aligned>> /\ faults' = faults + 1
<1>1. /\ pc[c] = "reply" /\ pc' = [pc EXCEPT ![c] = "failed"] /\ faults' = faults + 1
      /\ UNCHANGED <<Undone, initq, replies, node, session, todo, started, aligned, released>>
  BY Zenon DEF ReplyError, Fault, server, Undone
<1>2. pc'[c] = "failed" /\ pc' \in [Clients -> Pcs] /\ faults' \in Nat
  BY <1>1 DEF SessionsTypeOK, Pcs
<1>3. SessionsTypeOK'
  BY Zenon, <1>1, <1>2 DEF SessionsTypeOK, Undone
<1>4. OthersAlone(c)
  BY <1>1 DEF OthersAlone, SessionsTypeOK
<1>5. Sent(c, x, {})
  BY Zenon, <1>1 DEF Sent
<1>6. ~ Holds(c) /\ ~ Holds(c)'
  BY <1>1, <1>2 DEF Holds
<1>7. SentStay(c)
  BY <1>1, <1>2, <1>6 DEF SentStay, MsgInv
<1>8. ClientInv(c)'
  BY <1>1, <1>2, <1>6 DEF ClientInv
<1>9. SameOwn(c) /\ SameOut(c)
  <2>1. pc[c] # "send" /\ pc'[c] # "send"
    BY <1>1, <1>2
  <2> QED
    BY Zenon, <1>1, <1>6, <2>1 DEF SameOwn, SameOut, Own, Out, Queued, Waits
<1>10. ClientRight(c, x, {})
  BY Zenon, <1>3, <1>4, <1>5, <1>7, <1>8 DEF ClientRight, SentRight
<1> QED
  BY Zenon, <1>1, <1>9, <1>10

\* it takes the answer of axiom-init, and with it the session
LEMMA ReplyFacts ==
  ASSUME SessionsTypeOK, NEW c \in Clients, ClientInv(c), NEW x \in Nodes, x = node[c], TakeReply(c)
  PROVE  /\ ClientRight(c, x, {}) /\ SameOwn(c)
         /\ UNCHANGED <<Undone, started, released, aligned, faults, node>>
         /\ pc'[c] \in {"send", "failed"} /\ replies'[c] = << >>
         /\ initq' = initq /\ replies[c] # << >>
         /\ \A n \in Nodes, id \in Ids : OutWhole(n, c, id)
<1> DEFINE h == Head(replies[c])
<1>1. /\ pc[c] = "reply" /\ replies[c] # << >>
      /\ UNCHANGED <<Undone, initq, node, started, aligned, faults, released>>
      /\ replies' = [replies EXCEPT ![c] = Tail(@)] /\ session' = [session EXCEPT ![c] = h]
      /\ pc' = [pc EXCEPT ![c] = IF h = EMPTY THEN "failed" ELSE "send"]
      /\ todo' = [todo EXCEPT ![c] = IF h = EMPTY THEN << >> ELSE Packets(c, h)]
  BY Zenon DEF TakeReply, server, Undone
<1>2. replies[c] \in Seq(Ids \cup {EMPTY}) /\ Len(replies[c]) <= 1
  BY Zenon DEF SessionsTypeOK, ClientInv
<1>3. h \in Ids \cup {EMPTY} /\ Tail(replies[c]) = << >>
  BY <1>1, <1>2
<1> HIDE DEF h
<1> DEFINE rest == IF h = EMPTY THEN << >> ELSE Packets(c, h)
<1>4. /\ rest \in Seq(Pieces)
      /\ h # EMPTY => h \in Ids /\ Len(rest) = 4 /\ \A k \in 1 .. 4 : rest[k] = Piece(c, h, k)
  BY <1>3, PacketsAre
<1>5. rest = IF h = EMPTY THEN << >> ELSE Packets(c, h)
  OBVIOUS
<1> HIDE DEF rest
<1>6. /\ pc'[c] = (IF h = EMPTY THEN "failed" ELSE "send") /\ node'[c] = x
      /\ replies'[c] = << >> /\ session'[c] = h /\ todo'[c] = rest
  BY Zenon, <1>1, <1>3, <1>5 DEF SessionsTypeOK
<1>7. SessionsTypeOK'
  <2>1. pc' \in [Clients -> Pcs]
    BY <1>1 DEF SessionsTypeOK, Pcs
  <2>2. todo' \in [Clients -> Seq(Pieces)]
    BY <1>1, <1>4, <1>5 DEF SessionsTypeOK
  <2>3. session' \in [Clients -> Ids \cup {EMPTY}]
    BY <1>1, <1>3 DEF SessionsTypeOK
  <2>4. replies' \in [Clients -> Seq(Ids \cup {EMPTY})]
    BY <1>1, <1>3 DEF SessionsTypeOK
  <2>5. UNCHANGED <<free, info, ran, initq, node, started, faults>>
    BY Zenon, <1>1 DEF Undone
  <2> QED
    BY Zenon, <2>1, <2>2, <2>3, <2>4, <2>5 DEF SessionsTypeOK
<1>8. OthersAlone(c)
  BY <1>1 DEF OthersAlone, SessionsTypeOK
<1>9. Sent(c, x, {})
  BY Zenon, <1>1 DEF Sent
<1>10. ~ Holds(c) /\ (Holds(c)' <=> h # EMPTY) /\ pc'[c] \in {"send", "failed"}
  BY <1>1, <1>6 DEF Holds
<1>11. SentStay(c)
  BY <1>1, <1>6 DEF SentStay, MsgInv
<1>12. h # EMPTY => FirstLeft(c)' = 1
  <2>1. h # EMPTY => Len(todo'[c]) = 4
    BY Zenon, <1>4, <1>6
  <2>2. 5 - 4 = 1
    OBVIOUS
  <2> QED
    BY Zenon, <2>1, <2>2 DEF FirstLeft
<1>13. ClientInv(c)'
  <2>1. CASE h = EMPTY
    BY <1>6, <1>10, <2>1 DEF ClientInv
  <2>2. CASE h # EMPTY
    <3>1. \A k \in 1 .. 4 : todo'[c][k] = Piece(c, session'[c], FirstLeft(c)' - 1 + k)
      BY <1>4, <1>6, <1>12, <2>2
    <3>2. Len(todo'[c]) = 4 /\ 4 \in 1 .. 4 /\ session'[c] \in Ids /\ node'[c] \in Nodes
      BY <1>4, <1>6, <2>2
    <3>3. Len(replies'[c]) <= 1
      BY <1>6
    <3> QED
      BY Zenon, <1>6, <3>1, <3>2, <3>3 DEF ClientInv
  <2> QED
    BY Zenon, <2>1, <2>2
<1>14. SameOwn(c)
  <2>1. \A n \in Nodes, id \in Ids : Queued(n, c, id)' <=> Queued(n, c, id)
    BY Zenon, <1>1 DEF Queued
  <2>2. \A n \in Nodes, id \in Ids : Own(n, c, id) <=> ((n = x /\ id = h) \/ Queued(n, c, id))
    BY <1>1, <1>10 DEF Own, h
  <2>3. \A n \in Nodes, id \in Ids : Own(n, c, id)' <=> ((n = x /\ id = h) \/ Queued(n, c, id)')
    BY Zenon, <1>6, <1>10, IdsApart DEF Own
  <2> QED
    BY Zenon, <2>1, <2>2, <2>3 DEF SameOwn
<1>15. ASSUME NEW n \in Nodes, NEW id \in Ids
       PROVE  OutWhole(n, c, id)
  <2>1. \A p : Waits(n, p)' <=> Waits(n, p)
    BY Zenon, <1>1 DEF Waits
  <2>2. pc[c] # "send"
    BY <1>1
  <2>3. 4 \in 1 .. 4 /\ \A j \in 1 .. 4 : j >= 1
    OBVIOUS
  <2>4. CASE n = x /\ id = h
    <3>1. pc'[c] = "send" /\ FirstLeft(c)' = 1
      BY Zenon, <1>6, <1>12, <2>4, IdsApart
    <3>2. \A j \in 1 .. 4 : Out(n, c, id, j)'
      BY Zenon, <1>6, <2>3, <2>4, <3>1 DEF Out
    <3> QED
      BY Zenon, <3>2 DEF OutWhole
  <2>5. CASE ~ (n = x /\ id = h)
    <3>1. \A j \in 1 .. 4 : Out(n, c, id, j)' <=> Out(n, c, id, j)
      BY Zenon, <1>6, <2>1, <2>2, <2>5 DEF Out
    <3> QED
      BY Zenon, <3>1 DEF OutWhole
  <2> QED
    BY Zenon, <2>4, <2>5
<1>16. ClientRight(c, x, {})
  BY Zenon, <1>7, <1>8, <1>9, <1>11, <1>13 DEF ClientRight, SentRight
<1> QED
  BY Zenon, <1>1, <1>6, <1>10, <1>14, <1>15, <1>16

\* it sends the next piece of its spawn; after the last one it goes on to the
\* next node or returns
LEMMA SendFacts ==
  ASSUME SessionsTypeOK, NEW c \in Clients, ClientInv(c), NEW x \in Nodes, x = node[c],
         SendPacket(c), pc'[c] # "release"
  PROVE  \E m \in Pieces :
           /\ ClientRight(c, x, {m}) /\ SameOwn(c) /\ SameOut(c)
           /\ UNCHANGED <<Undone, released, aligned, faults>>
           /\ pc'[c] \in {"send", "call", "done"} /\ replies'[c] = << >>
           /\ \/ started' = started
              \/ /\ started' = [started EXCEPT ![c] = @ \cup {x}]
                 /\ \E id \in Ids : Waits(x, Piece(c, id, 4))'
           /\ Rank(m) = 4 => x \in started'[c]
<1>1. pc[c] = "send" /\ UNCHANGED <<Undone, replies, session, aligned, released>>
  BY Zenon DEF SendPacket, server, Undone
<1>2. /\ initq' = [initq EXCEPT ![x] = Append(@, Head(todo[c]))] /\ faults' = faults
      /\ todo' = [todo EXCEPT ![c] = Tail(@)]
      /\ IF Len(todo[c]) > 1 THEN pc' = pc /\ node' = node /\ started' = started
         ELSE /\ started' = [started EXCEPT ![c] = @ \cup {x}]
              /\ \/ NextNode(c, x)
                 \/ pc' = [pc EXCEPT ![c] = "done"] /\ node' = node
  <2>1. pc' # [pc EXCEPT ![c] = "release"]
    BY Zenon DEF SessionsTypeOK
  <2> QED
    BY Zenon, <2>1 DEF SendPacket, Send
<1>3. Holds(c) /\ pc[c] \notin {"reply", "failed"}
  BY <1>1 DEF Holds
<1>4. PICK L, F, sid : L = Len(todo[c]) /\ F = FirstLeft(c) /\ sid = session[c]
  BY Zenon
<1>5. /\ L = Len(todo[c]) /\ F = FirstLeft(c) /\ sid = session[c]
      /\ L \in 1 .. 4 /\ sid \in Ids /\ replies[c] = << >> /\ F = 5 - L
      /\ \A k \in 1 .. L : todo[c][k] = Piece(c, sid, F - 1 + k)
      /\ todo[c] \in Seq(Pieces)
  <2>1. /\ Len(todo[c]) \in 1 .. 4 /\ session[c] \in Ids /\ replies[c] = << >>
        /\ \A k \in 1 .. Len(todo[c]) : todo[c][k] = Piece(c, session[c], FirstLeft(c) - 1 + k)
    BY Zenon, <1>3 DEF ClientInv
  <2>2. todo[c] \in Seq(Pieces) /\ FirstLeft(c) = 5 - Len(todo[c])
    BY Zenon DEF SessionsTypeOK, FirstLeft
  <2> QED
    BY Zenon, <1>4, <2>1, <2>2
<1>6. L \in 1 .. 4 /\ F = 5 - L
  BY Zenon, <1>5
<1>7. F \in 1 .. 4 /\ F = 5 - L /\ L \in 1 .. 4
  BY <1>6
<1>8. PICK m : /\ m = Piece(c, sid, F) /\ Head(todo[c]) = m /\ m \in Msgs /\ m \in Pieces
               /\ From(m) = c /\ m.id = sid /\ Rank(m) = F
  <2>1. Head(todo[c]) = todo[c][1] /\ 1 \in 1 .. L /\ F - 1 + 1 = F
    BY <1>5, <1>7
  <2>2. Head(todo[c]) = Piece(c, sid, F)
    BY Zenon, <1>5, <2>1
  <2>3. sid \in Ids
    BY Zenon, <1>5
  <2> QED
    BY <1>7, <2>2, <2>3, PieceIs
<1>9. Grows(x, m) /\ initq' \in [Nodes -> Seq(Msgs)]
  BY Zenon, <1>2, <1>8, SendGrows
<1>10. /\ todo'[c] \in Seq(Pieces) /\ Len(todo'[c]) = L - 1 /\ todo' \in [Clients -> Seq(Pieces)]
       /\ \A k \in 1 .. L - 1 : todo'[c][k] = Piece(c, sid, F + k)
  <2>1. todo'[c] = Tail(todo[c])
    BY Zenon, <1>2 DEF SessionsTypeOK
  <2>2. Len(todo[c]) = L /\ todo[c] \in Seq(Pieces)
    BY Zenon, <1>5
  <2>3. Len(todo[c]) = L /\ Tail(todo[c]) \in Seq(Pieces)
    BY <1>7, <2>2
  <2>4. Len(todo'[c]) = L - 1 /\ \A k \in 1 .. L - 1 : todo'[c][k] = todo[c][k + 1]
    BY <1>5, <1>7, <2>1, <2>3
  <2>5. \A k \in 1 .. L - 1 : k + 1 \in 1 .. L /\ F - 1 + (k + 1) = F + k
    BY <1>7
  <2>6. todo' \in [Clients -> Seq(Pieces)]
    BY <1>2, <2>3 DEF SessionsTypeOK
  <2> QED
    BY Zenon, <1>5, <2>1, <2>3, <2>4, <2>5, <2>6
<1>11. pc \in [Clients -> Pcs] /\ node \in [Clients -> Nat] /\ started \in [Clients -> SUBSET Nodes]
  BY Zenon DEF SessionsTypeOK
<1>12. started' \in [Clients -> SUBSET Nodes]
  BY <1>2, <1>11
<1>13. /\ pc' \in [Clients -> Pcs] /\ node' \in [Clients -> Nat]
       /\ \A d \in Clients : d # c => pc'[d] = pc[d] /\ node'[d] = node[d]
       /\ \/ L > 1 /\ pc'[c] = "send" /\ node'[c] = x
          \/ /\ L = 1 /\ pc'[c] \in {"call", "done"} /\ node'[c] \in {x, x + 1}
             /\ pc'[c] = "call" => node'[c] = x + 1 /\ x + 1 \in Nodes
  <2>1. CASE L > 1
    <3>1. pc' = pc /\ node' = node
      BY Zenon, <1>2, <1>5, <2>1
    <3> QED
      BY Zenon, <1>1, <1>11, <2>1, <3>1
  <2>2. CASE L = 1 /\ NextNode(c, x)
    BY <1>11, <2>2, SessionsAssumption DEF NextNode, Nodes, Pcs
  <2>3. CASE L = 1 /\ pc' = [pc EXCEPT ![c] = "done"] /\ node' = node
    BY <1>11, <2>3 DEF Pcs
  <2>4. L > 1 \/ (L = 1 /\ ~ (L > 1))
    BY <1>7
  <2> QED
    BY Zenon, <1>2, <1>5, <2>1, <2>2, <2>3, <2>4
<1>14. started' = started \/ (L = 1 /\ started' = [started EXCEPT ![c] = @ \cup {x}])
  <2>1. L > 1 \/ (L = 1 /\ ~ (L > 1))
    BY <1>7
  <2> QED
    BY Zenon, <1>2, <1>5, <2>1
<1>15. SessionsTypeOK'
  <2>1. UNCHANGED <<free, info, ran, replies, session, faults>>
    BY Zenon, <1>1, <1>2 DEF Undone
  <2> QED
    BY Zenon, <1>9, <1>10, <1>13, <1>12, <2>1 DEF SessionsTypeOK
<1>16. OthersAlone(c)
  <2>1. \A d \in Clients : d # c => todo'[d] = todo[d]
    BY Zenon, <1>2 DEF SessionsTypeOK
  <2> QED
    BY Zenon, <1>1, <1>13, <2>1 DEF OthersAlone
<1>17. Sent(c, x, {m})
  BY Zenon, <1>8, <1>9 DEF Sent
<1>18. /\ Holds(c) /\ FirstLeft(c)' = F + 1 /\ replies'[c] = << >> /\ session'[c] = sid
       /\ Holds(c)' <=> pc'[c] = "send"
  <2>1. FirstLeft(c)' = F + 1
    BY <1>10, <1>7 DEF FirstLeft
  <2>2. Holds(c) /\ (Holds(c)' <=> pc'[c] = "send")
    BY <1>1, <1>13 DEF Holds
  <2> QED
    BY Zenon, <1>1, <1>5, <2>1, <2>2
<1>19. SentStay(c)
  <2> SUFFICES ASSUME NEW n \in Nodes, NEW p \in Msgs, From(p) = c, MsgInv(n, p) PROVE MsgInv(n, p)'
    BY Zenon DEF SentStay
  <2>1. /\ x >= n /\ (x = n => Rank(p) \in 1 .. F - 1 /\ p.id = sid) /\ (Rank(p) = 0 => x = n)
    BY Zenon, <1>5, <1>18 DEF MsgInv
  <2>2. Rank(p) # 0 /\ n \in Nat /\ x \in Nat /\ Rank(p) \in 0 .. 5
    BY <2>1, MsgIs DEF Nodes
  <2>3. /\ node'[c] >= n
        /\ node'[c] = n => /\ pc'[c] # "call" /\ pc'[c] # "reply" /\ x = n
                           /\ Holds(c)' => Rank(p) \in 1 .. FirstLeft(c)' - 1
    BY <1>13, <1>18, <1>7, <2>1, <2>2
  <2> QED
    BY Zenon, <1>18, <2>1, <2>2, <2>3 DEF MsgInv
<1>20. ClientInv(c)'
  <2>1. pc'[c] \notin {"reply", "failed"} /\ (pc'[c] \in {"call", "send"} => node'[c] \in Nodes)
    BY <1>13
  <2>2. Len(replies'[c]) <= 1
    BY <1>18
  <2>3. pc'[c] = "send" => Len(todo'[c]) \in 1 .. 4
    <3>1. Len(todo'[c]) = L - 1 /\ (pc'[c] = "send" => L > 1)
      BY <1>10, <1>13
    <3> QED
      BY <1>7, <3>1
  <2>4. \A k \in 1 .. L - 1 : F + 1 - 1 + k = F + k
    BY <1>7
  <2>5. Len(todo'[c]) = L - 1 /\ \A k \in 1 .. L - 1 : todo'[c][k] = Piece(c, sid, F + 1 - 1 + k)
    BY Zenon, <1>10, <2>4
  <2>6. \A k \in 1 .. Len(todo'[c]) : todo'[c][k] = Piece(c, session'[c], FirstLeft(c)' - 1 + k)
    <3>1. session'[c] = sid /\ FirstLeft(c)' = F + 1
      BY Zenon, <1>18
    <3>2. ASSUME NEW k \in 1 .. L - 1
          PROVE  todo'[c][k] = Piece(c, session'[c], FirstLeft(c)' - 1 + k)
      <4>1. todo'[c][k] = Piece(c, sid, F + 1 - 1 + k)
        BY Zenon, <2>5
      <4>2. \A a, b : a = sid /\ b = F + 1 => todo'[c][k] = Piece(c, a, b - 1 + k)
        BY <1>7, <4>1
      <4> QED
        BY Zenon, <3>1, <4>2
    <3> QED
      BY Zenon, <2>5, <3>2
  <2>7. sid \in Ids
    BY Zenon, <1>5
  <2>8. Holds(c)' => pc'[c] \in {"call", "send"}
    BY Zenon, <1>18
  <2> QED
    BY Zenon, <1>18, <2>1, <2>2, <2>3, <2>6, <2>7, <2>8 DEF ClientInv
<1>21. QueueInv(x) => SentRight(x, {m})
  <2> SUFFICES ASSUME QueueInv(x)
               PROVE  MsgInv(x, m)' /\ \A k \in 1 .. Len(initq[x]) : Follows(initq[x][k], m)
    BY Zenon DEF SentRight
  <2>1. MsgInv(x, m)'
    <3>1. /\ node'[c] >= x /\ Rank(m) # 0
          /\ node'[c] = x => pc'[c] # "call" /\ pc'[c] # "reply"
          /\ Rank(m) \in 1 .. FirstLeft(c)' - 1
      <4>1. Rank(m) = F /\ FirstLeft(c)' = F + 1
        BY Zenon, <1>8, <1>18
      <4>2. Rank(m) # 0 /\ Rank(m) \in 1 .. FirstLeft(c)' - 1
        BY <1>7, <4>1
      <4>3. node'[c] >= x /\ (node'[c] = x => pc'[c] # "call" /\ pc'[c] # "reply")
        BY <1>13 DEF Nodes
      <4> QED
        BY Zenon, <4>2, <4>3
    <3> QED
      BY Zenon, <1>8, <1>18, <3>1 DEF MsgInv
  <2>2. ASSUME NEW k \in 1 .. Len(initq[x]), From(initq[x][k]) = c
        PROVE  Rank(initq[x][k]) \in 1 .. F - 1 /\ initq[x][k].id = sid
    BY Zenon, <1>5, <1>18, <2>2 DEF QueueInv, MsgInv
  <2>3. \A r : r \in 1 .. F - 1 => r \in 1 .. 3 /\ r < F
    BY <1>7
  <2> QED
    BY Zenon, <1>8, <2>1, <2>2, <2>3 DEF Follows
<1>22. ASSUME NEW n \in Nodes
       PROVE  /\ \A id : Queued(n, c, id)' <=> (Queued(n, c, id) \/ (n = x /\ sid = id))
              /\ \A p : Waits(n, p)' <=> (Waits(n, p) \/ (n = x /\ p = m))
  <2>1. m \in Msgs /\ Grows(x, m) /\ From(m) = c /\ m.id = sid
    BY Zenon, <1>8, <1>9
  <2>2. /\ \A d, id : Queued(n, d, id)' <=> (Queued(n, d, id) \/ (n = x /\ From(m) = d /\ m.id = id))
        /\ \A p : Waits(n, p)' <=> (Waits(n, p) \/ (n = x /\ p = m))
    BY Zenon, <2>1, GrowsBy
  <2> QED
    BY Zenon, <2>1, <2>2
<1>23. SameOwn(c)
  <2>1. pc'[c] = "send" => node'[c] = x
    BY <1>13
  <2> QED
    BY Zenon, <1>3, <1>18, <1>22, <1>5, <2>1 DEF SameOwn, Own
<1>24. ASSUME NEW n \in Nodes, NEW id \in Ids, NEW j \in 1 .. 4
       PROVE  Out(n, c, id, j)' <=> Out(n, c, id, j)
  <2>1. Piece(c, id, j) = m <=> (id = sid /\ j = F)
    <3>1. From(Piece(c, id, j)) = c /\ Piece(c, id, j).id = id /\ Rank(Piece(c, id, j)) = j
      BY PieceIs
    <3> QED
      BY Zenon, <1>8, <3>1
  <2>2. j >= F <=> (j = F \/ j >= F + 1)
    BY <1>7
  <2>3. pc'[c] # "send" => ~ (j >= F + 1)
    <3>1. pc'[c] # "send" => L = 1
      BY Zenon, <1>13
    <3> QED
      BY <1>7, <3>1
  <2>4. pc'[c] = "send" => node'[c] = x
    BY <1>13
  <2> QED
    BY Zenon, <1>1, <1>5, <1>18, <1>22, <2>1, <2>2, <2>3, <2>4 DEF Out
<1>25. \/ started' = started
       \/ /\ started' = [started EXCEPT ![c] = @ \cup {x}]
          /\ \E id \in Ids : Waits(x, Piece(c, id, 4))'
  <2>1. L = 1 => F = 4
    BY <1>7
  <2>2. Waits(x, m)'
    BY Zenon, <1>22
  <2>3. sid \in Ids /\ m = Piece(c, sid, F)
    BY Zenon, <1>8, <1>5
  <2>4. CASE L = 1
    <3>1. m = Piece(c, sid, 4)
      BY Zenon, <2>1, <2>3, <2>4
    <3>2. \A p : p = m => Waits(x, p)'
      BY Zenon, <2>2
    <3> QED
      BY Zenon, <1>14, <2>3, <3>1, <3>2
  <2> QED
    BY Zenon, <1>14, <2>4
<1>26. ClientRight(c, x, {m})
  BY Zenon, <1>15, <1>16, <1>17, <1>19, <1>20, <1>21 DEF ClientRight
<1>27. pc'[c] \in {"send", "call", "done"}
  BY <1>13
<1>28. Rank(m) = 4 => x \in started'[c]
  <2>1. Rank(m) = 4 => ~ (L > 1)
    BY <1>8, <1>7
  <2>2. ~ (L > 1) => started' = [started EXCEPT ![c] = @ \cup {x}]
    BY Zenon, <1>2, <1>5
  <2> QED
    BY Zenon, <1>11, <2>1, <2>2
<1> QED
  BY Zenon, <1>1, <1>2, <1>8, <1>18, <1>23, <1>24, <1>25, <1>26, <1>27, <1>28 DEF SameOut

\* a send fails, or getcwd does: the rest of the spawn is given up
LEMMA GiveUpFacts ==
  ASSUME SessionsTypeOK, NEW c \in Clients, ClientInv(c), NEW x \in Nodes, x = node[c],
         SendPacket(c), pc'[c] = "release"
  PROVE  /\ ClientRight(c, x, {}) /\ SameOwn(c)
         /\ UNCHANGED <<Undone, started, released, aligned>> /\ faults' = faults + 1
         /\ \A n \in Nodes, id \in Ids : QueueInv(n) => OutKept(n, c, id)
<1>1. pc[c] = "send" /\ UNCHANGED <<Undone, replies, session, aligned, released>>
  BY Zenon DEF SendPacket, server, Undone
<1>2. /\ faults' = faults + 1 /\ pc' = [pc EXCEPT ![c] = "release"]
      /\ initq' = initq /\ todo' = todo /\ node' = node /\ started' = started
  <2>1. /\ pc' # pc /\ ~ NextNode(c, node[c]) /\ pc' # [pc EXCEPT ![c] = "done"]
    BY <1>1 DEF SessionsTypeOK, NextNode
  <2> QED
    BY Zenon, <2>1 DEF SendPacket, Fault
<1>3. pc' \in [Clients -> Pcs] /\ faults' \in Nat /\ \A d \in Clients : d # c => pc'[d] = pc[d]
  BY <1>2 DEF SessionsTypeOK, Pcs
<1>4. SessionsTypeOK'
  BY Zenon, <1>1, <1>2, <1>3 DEF SessionsTypeOK, Undone
<1>5. OthersAlone(c)
  BY Zenon, <1>1, <1>2, <1>3 DEF OthersAlone
<1>6. Sent(c, x, {})
  BY Zenon, <1>2 DEF Sent
<1>7. Holds(c) /\ Holds(c)' /\ FirstLeft(c)' = FirstLeft(c) /\ pc[c] \notin {"reply", "failed"}
  BY Zenon, <1>1, <1>2 DEF Holds, FirstLeft
<1>8. SentStay(c)
  BY <1>1, <1>2, <1>7 DEF SentStay, MsgInv
<1>9. ClientInv(c)'
  BY Zenon, <1>1, <1>2, <1>7 DEF ClientInv
<1>10. SameOwn(c)
  BY Zenon, <1>1, <1>2, <1>7 DEF SameOwn, Own, Queued
<1>11. FirstLeft(c) \in 1 .. 5
  <2>1. Len(todo[c]) \in 1 .. 4
    BY Zenon, <1>7 DEF ClientInv
  <2>2. FirstLeft(c) \in 1 .. 4
    BY Zenon, <2>1, LeftIs
  <2> QED
    BY <2>2
<1>12. ASSUME NEW n \in Nodes, NEW id \in Ids, QueueInv(n) PROVE OutKept(n, c, id)
  <2>1. \A j \in 1 .. 4 : Out(n, c, id, j)' <=> Waits(n, Piece(c, id, j))
    <3>1. pc'[c] # "send"
      OBVIOUS
    <3> QED
      BY Zenon, <1>2, <3>1 DEF Out, Waits
  <2>2. CASE n = x /\ id = session[c]
    <3>1. ASSUME NEW j \in 1 .. 4, Waits(n, Piece(c, id, j)) PROVE j < FirstLeft(c)
      <4>1. From(Piece(c, id, j)) = c /\ Rank(Piece(c, id, j)) = j
        BY PieceIs
      <4>2. j \in 1 .. FirstLeft(c) - 1
        <5>1. MsgInv(n, Piece(c, id, j))
          BY Zenon, <1>12, <3>1 DEF QueueInv, Waits
        <5> QED
          BY Zenon, <1>7, <2>2, <4>1, <5>1 DEF MsgInv
      <4> QED
        BY <1>11, <4>2
    <3>2. \A j \in 1 .. 4 : ~ (j < FirstLeft(c)) <=> j >= FirstLeft(c)
      BY <1>11
    <3>3. \A j \in 1 .. 4 : Out(n, c, id, j)' <=> (Out(n, c, id, j) /\ j < FirstLeft(c))
      BY Zenon, <2>1, <2>2, <3>1, <3>2 DEF Out
    <3> QED
      BY Zenon, <1>11, <3>3 DEF OutKept
  <2>3. CASE ~ (n = x /\ id = session[c])
    <3>1. \A j \in 1 .. 4 : Out(n, c, id, j)' <=> Out(n, c, id, j)
      BY Zenon, <2>1, <2>3 DEF Out
    <3>2. 5 \in 1 .. 5 /\ \A j \in 1 .. 4 : j < 5
      OBVIOUS
    <3> QED
      BY Zenon, <3>1, <3>2 DEF OutKept
  <2> QED
    BY Zenon, <2>2, <2>3
<1>13. ClientRight(c, x, {})
  BY Zenon, <1>4, <1>5, <1>6, <1>8, <1>9 DEF ClientRight, SentRight
<1> QED
  BY Zenon, <1>1, <1>2, <1>10, <1>12, <1>13

\* it gives its session back
LEMMA ReleaseFacts ==
  ASSUME SessionsTypeOK, NEW c \in Clients, ClientInv(c), NEW x \in Nodes, x = node[c], Release(c)
  PROVE  \E M : /\ ClientRight(c, x, M) /\ SameOut(c) /\ UNCHANGED <<Undone, started, aligned>>
                /\ Calm' => Calm
                /\ Calm' => \A n \in Nodes, id \in Ids : Own(n, c, id)' => Own(n, c, id)
<1>1. /\ pc[c] = "release" /\ pc' = [pc EXCEPT ![c] = "failed"] /\ released' = released \cup {c}
      /\ UNCHANGED <<Undone, replies, node, session, todo, started, aligned>>
  BY Zenon DEF Release, server, Undone
<1>2. \/ /\ \E id \in IF aligned THEN {session[c]} ELSE Ids \cup {EMPTY} :
              initq' = [initq EXCEPT ![x] = Append(@, Request(id, c))]
         /\ faults' = faults
      \/ initq' = initq /\ faults' = faults + 1
  BY Zenon DEF Release, Send, Fault
<1>3. /\ Holds(c) /\ ~ Holds(c)' /\ pc'[c] = "failed" /\ pc' \in [Clients -> Pcs] /\ faults' \in Nat
      /\ \A d \in Clients : d # c => pc'[d] = pc[d]
  BY <1>1, <1>2 DEF Holds, SessionsTypeOK, Pcs
<1>4. replies[c] = << >> /\ session[c] \in Ids /\ Len(todo[c]) \in 1 .. 4
  <2>1. pc[c] \notin {"reply", "failed"}
    BY <1>1
  <2> QED
    BY Zenon, <1>3, <2>1 DEF ClientInv
<1>5. (Calm' => Calm) /\ (Calm' => aligned)
  BY Zenon, <1>1 DEF Calm
<1>6. PICK M : /\ Sent(c, x, M) /\ initq' \in [Nodes -> Seq(Msgs)]
               /\ \A m \in M : m \in Msgs \ Pieces /\ From(m) = c
               /\ aligned => \A m \in M : m = Request(session[c], c)
  <2>1. CASE initq' = initq
    <3> WITNESS {}
    <3> QED
      BY Zenon, <2>1 DEF Sent, SessionsTypeOK
  <2>2. CASE initq' # initq
    <3>1. PICK id \in Ids \cup {EMPTY} : /\ initq' = [initq EXCEPT ![x] = Append(@, Request(id, c))]
                                         /\ aligned => id = session[c]
      BY Zenon, <1>2, <1>4, <2>2
    <3>2. Request(id, c) \in Msgs \ Pieces /\ From(Request(id, c)) = c
      BY RequestIs
    <3>3. Grows(x, Request(id, c)) /\ initq' \in [Nodes -> Seq(Msgs)]
      BY Zenon, <3>1, <3>2, SendGrows
    <3> WITNESS {Request(id, c)}
    <3> QED
      BY Zenon, <3>1, <3>2, <3>3 DEF Sent
  <2> QED
    BY Zenon, <2>1, <2>2
<1>7. SessionsTypeOK'
  BY Zenon, <1>1, <1>3, <1>6 DEF SessionsTypeOK, Undone
<1>8. OthersAlone(c)
  BY Zenon, <1>1, <1>3 DEF OthersAlone
<1>9. SentStay(c)
  <2> SUFFICES ASSUME NEW n \in Nodes, NEW p \in Msgs, From(p) = c, MsgInv(n, p) PROVE MsgInv(n, p)'
    BY Zenon DEF SentStay
  <2>1. pc'[c] # "call" /\ pc'[c] # "reply" /\ \A r \in 1 .. FirstLeft(c) - 1 : r # 0
    BY <1>3
  <2> QED
    BY Zenon, <1>1, <1>3, <2>1 DEF MsgInv
<1>10. ClientInv(c)'
  BY <1>1, <1>3, <1>4 DEF ClientInv
<1>11. ASSUME Calm', NEW m \in M
       PROVE  m \in Msgs /\ From(m) = c /\ m.id = session[c] /\ Rank(m) = 5
  <2>1. m = Request(session[c], c)
    BY Zenon, <1>5, <1>6, <1>11
  <2> QED
    BY <1>4, <2>1, RequestIs, IdsApart
<1>12. ASSUME Calm', QueueInv(x) PROVE SentRight(x, M)
  <2> SUFFICES ASSUME NEW m \in M
               PROVE  MsgInv(x, m)' /\ \A k \in 1 .. Len(initq[x]) : Follows(initq[x][k], m)
    BY Zenon DEF SentRight
  <2>1. From(m) = c /\ m.id = session[c] /\ Rank(m) = 5
    BY Zenon, <1>11, <1>12
  <2>2. MsgInv(x, m)'
    <3>1. pc'[c] # "call" /\ pc'[c] # "reply" /\ Rank(m) # 0 /\ x >= x
      BY <1>3, <2>1 DEF Nodes
    <3> QED
      BY Zenon, <1>1, <1>3, <1>4, <2>1, <3>1 DEF MsgInv
  <2>3. ASSUME NEW k \in 1 .. Len(initq[x]), From(initq[x][k]) = c
        PROVE  Rank(initq[x][k]) \in 1 .. FirstLeft(c) - 1 /\ initq[x][k].id = session[c]
    BY Zenon, <1>3, <1>12, <2>3 DEF QueueInv, MsgInv
  <2>4. FirstLeft(c) \in 1 .. 4
    BY Zenon, <1>4, LeftIs
  <2>5. \A r : r \in 1 .. FirstLeft(c) - 1 => r \in 1 .. 3 /\ r < 5
    BY <2>4
  <2> QED
    BY Zenon, <2>1, <2>2, <2>3, <2>5 DEF Follows
<1>13. ASSUME NEW n \in Nodes, NEW m \in Msgs, M = {m}, Grows(x, m)
       PROVE  /\ \A d, id : Queued(n, d, id)' <=>
                   (Queued(n, d, id) \/ (n = x /\ From(m) = d /\ m.id = id))
              /\ \A p : Waits(n, p)' <=> (Waits(n, p) \/ (n = x /\ p = m))
  BY Zenon, <1>13, GrowsBy
<1>14. ASSUME Calm', NEW n \in Nodes, NEW id \in Ids, Own(n, c, id)' PROVE Own(n, c, id)
  <2>1. Queued(n, c, id)'
    BY Zenon, <1>1, <1>3, <1>4, <1>14 DEF Own
  <2>2. CASE initq' = initq
    BY Zenon, <2>1, <2>2 DEF Queued, Own
  <2>3. CASE initq' # initq
    <3>1. PICK m \in Msgs : M = {m} /\ Grows(x, m)
      BY Zenon, <1>6, <2>3 DEF Sent
    <3>2. Queued(n, c, id) \/ (n = x /\ m.id = id)
      BY Zenon, <1>13, <2>1, <3>1
    <3>3. m.id = session[c]
      BY Zenon, <1>11, <1>14, <3>1
    <3> QED
      BY Zenon, <1>3, <3>2, <3>3 DEF Own
  <2> QED
    BY Zenon, <2>2, <2>3
<1>15. ASSUME NEW n \in Nodes, NEW id \in Ids, NEW j \in 1 .. 4
       PROVE  Out(n, c, id, j)' <=> Out(n, c, id, j)
  <2>1. pc[c] # "send" /\ pc'[c] # "send"
    BY <1>1, <1>3
  <2>2. Piece(c, id, j) \in Pieces
    BY PieceIs
  <2>3. CASE initq' = initq
    BY Zenon, <2>1, <2>3 DEF Waits, Out
  <2>4. CASE initq' # initq
    <3>1. PICK m \in Msgs : M = {m} /\ Grows(x, m)
      BY Zenon, <1>6, <2>4 DEF Sent
    <3>2. m \notin Pieces
      BY Zenon, <1>6, <3>1
    <3>3. Waits(n, Piece(c, id, j))' <=> Waits(n, Piece(c, id, j))
      BY Zenon, <1>13, <2>2, <3>1, <3>2
    <3> QED
      BY Zenon, <2>1, <3>3 DEF Out
  <2> QED
    BY Zenon, <2>3, <2>4
<1>16. ClientRight(c, x, M)
  BY Zenon, <1>6, <1>7, <1>8, <1>9, <1>10, <1>12 DEF ClientRight
<1> QED
  BY Zenon, <1>1, <1>5, <1>14, <1>15, <1>16 DEF SameOut

\* what a step that does not fail leaves, besides
KeptStep(c, x, M) ==
  /\ faults = 0 /\ released' = released /\ SameOwn(c)
  /\ \A n \in Nodes, id \in Ids : OutWhole(n, c, id)
  /\ \A m \in M : Rank(m) = 4 => x \in started'[c]
  /\ pc'[c] # "release"
  /\ pc'[c] = "failed" => replies'[c] = << >> /\ initq' = initq /\ replies[c] # << >>
  /\ pc'[c] = "reply" => replies'[c] = << >> /\ M = {Request(EMPTY, c)} /\ node'[c] = x
  /\ \A d \in Clients, n \in Nodes : n \in started[d] => n \in started'[d]
  /\ \A d \in Clients, n \in Nodes : n \in started'[d] =>
       n \in started[d] \/ (d = c /\ \E id \in Ids : Out(n, c, id, 4)')

StepRight(c, x, M) ==
  /\ ClientRight(c, x, M) /\ UNCHANGED Undone /\ (Calm' => Calm)
  /\ Calm' => \A n \in Nodes, id \in Ids : Own(n, c, id)' => Own(n, c, id)
  /\ \A n \in Nodes, id \in Ids : QueueInv(n) => OutKept(n, c, id)
  /\ faults' = 0 /\ pc[c] # "release" => KeptStep(c, x, M)

\* whatever the step of axinit_execvpe
LEMMA ClientFacts ==
  ASSUME SessionsTypeOK, NEW c \in Clients, ClientInv(c), ClientStep(c)
  PROVE  \E x \in Nodes : \E M : StepRight(c, x, M)
<1>1. PICK x \in Nodes : x = node[c]
  <2>1. pc[c] \in {"call", "reply", "send", "release"}
    BY Zenon DEF ClientStep, SkipSelf, AskSession, TakeReply, ReplyError, SendPacket, Release
  <2>2. pc[c] \in {"call", "reply"} \/ Holds(c)
    BY Zenon, <2>1 DEF Holds
  <2> QED
    BY Zenon, <2>2 DEF ClientInv
<1>2. faults \in Nat /\ (faults' = faults + 1 => faults' # 0)
  BY DEF SessionsTypeOK
<1>3. "done" # "release" /\ "done" # "reply" /\ "done" # "failed"
      /\ "call" # "release" /\ "call" # "reply" /\ "call" # "failed" /\ "send" # "release"
      /\ "send" # "reply" /\ "send" # "failed" /\ "reply" # "release" /\ "reply" # "failed"
      /\ "failed" # "release" /\ "failed" # "reply"
  OBVIOUS
<1>4. /\ SameOwn(c) => \A n \in Nodes, id \in Ids : Own(n, c, id)' => Own(n, c, id)
      /\ SameOut(c) => \A n \in Nodes, id \in Ids : OutWhole(n, c, id)
      /\ \A n \in Nodes, id \in Ids : OutWhole(n, c, id) => OutKept(n, c, id)
  BY Zenon, WholeKept DEF SameOwn, SameOut, OutWhole
<1>5. ASSUME UNCHANGED <<released, aligned>> PROVE Calm' => Calm
  BY Zenon, <1>5 DEF Calm
<1>6. CASE SkipSelf(c)
  <2>1. /\ ClientRight(c, x, {}) /\ SameOwn(c) /\ SameOut(c)
        /\ UNCHANGED <<Undone, started, released, aligned, faults>>
        /\ pc'[c] \in {"call", "done"} /\ replies'[c] = << >>
    BY Zenon, <1>1, <1>6, SkipFacts
  <2>2. faults' = 0 => KeptStep(c, x, {})
    BY Zenon, <1>3, <1>4, <2>1 DEF KeptStep
  <2> QED
    BY Zenon, <1>4, <1>5, <2>1, <2>2 DEF StepRight
<1>7. CASE AskSession(c)
  <2>1. PICK M : /\ ClientRight(c, x, M) /\ SameOwn(c) /\ SameOut(c)
                 /\ UNCHANGED <<Undone, started, released, aligned, node>>
                 /\ replies'[c] = << >>
                 /\ \/ M = {Request(EMPTY, c)} /\ pc'[c] = "reply" /\ faults' = faults
                    \/ pc'[c] = "failed" /\ faults' = faults + 1
    BY Zenon, <1>1, <1>7, AskFacts
  <2>2. Rank(Request(EMPTY, c)) # 4
    BY RequestIs
  <2>3. faults' = 0 => KeptStep(c, x, M)
    BY Zenon, <1>1, <1>2, <1>3, <1>4, <2>1, <2>2 DEF KeptStep
  <2> QED
    BY Zenon, <1>4, <1>5, <2>1, <2>3 DEF StepRight
<1>8. CASE ReplyError(c)
  <2>1. /\ ClientRight(c, x, {}) /\ SameOwn(c) /\ SameOut(c)
        /\ UNCHANGED <<Undone, started, released, aligned>> /\ faults' = faults + 1
    BY Zenon, <1>1, <1>8, ErrorFacts
  <2> QED
    BY Zenon, <1>2, <1>4, <1>5, <2>1 DEF StepRight
<1>9. CASE TakeReply(c)
  <2>1. /\ ClientRight(c, x, {}) /\ SameOwn(c)
        /\ UNCHANGED <<Undone, started, released, aligned, faults, node>>
        /\ pc'[c] \in {"send", "failed"} /\ replies'[c] = << >>
        /\ initq' = initq /\ replies[c] # << >>
        /\ \A n \in Nodes, id \in Ids : OutWhole(n, c, id)
    BY Zenon, <1>1, <1>9, ReplyFacts
  <2>2. faults' = 0 => KeptStep(c, x, {})
    BY Zenon, <1>3, <2>1 DEF KeptStep
  <2> QED
    BY Zenon, <1>4, <1>5, <2>1, <2>2 DEF StepRight
<1>10. CASE SendPacket(c) /\ pc'[c] # "release"
  <2>1. PICK m \in Pieces :
          /\ ClientRight(c, x, {m}) /\ SameOwn(c) /\ SameOut(c)
          /\ UNCHANGED <<Undone, released, aligned, faults>>
          /\ pc'[c] \in {"send", "call", "done"} /\ replies'[c] = << >>
          /\ \/ started' = started
             \/ /\ started' = [started EXCEPT ![c] = @ \cup {x}]
                /\ \E id \in Ids : Waits(x, Piece(c, id, 4))'
          /\ Rank(m) = 4 => x \in started'[c]
    BY Zenon, <1>1, <1>10, SendFacts
  <2>2. /\ \A d \in Clients, n \in Nodes : n \in started[d] => n \in started'[d]
        /\ \A d \in Clients, n \in Nodes : n \in started'[d] =>
             n \in started[d] \/ (d = c /\ n = x /\ started' # started)
    <3>1. started \in [Clients -> SUBSET Nodes]
      BY Zenon DEF SessionsTypeOK
    <3>2. started' = started \/ started' = [started EXCEPT ![c] = @ \cup {x}]
      BY Zenon, <2>1
    <3> QED
      BY <3>1, <3>2
  <2>3. started' # started => \E id \in Ids : Out(x, c, id, 4)'
    BY Zenon, <2>1 DEF Out
  <2>4. \A d \in Clients, n \in Nodes : n \in started'[d] =>
          n \in started[d] \/ (d = c /\ \E id \in Ids : Out(n, c, id, 4)')
    BY Zenon, <2>2, <2>3
  <2>5. faults' = 0 => KeptStep(c, x, {m})
    BY Zenon, <1>3, <1>4, <2>1, <2>2, <2>4 DEF KeptStep
  <2> QED
    BY Zenon, <1>4, <1>5, <2>1, <2>5 DEF StepRight
<1>11. CASE SendPacket(c) /\ pc'[c] = "release"
  <2>1. /\ ClientRight(c, x, {}) /\ SameOwn(c)
        /\ UNCHANGED <<Undone, started, released, aligned>> /\ faults' = faults + 1
        /\ \A n \in Nodes, id \in Ids : QueueInv(n) => OutKept(n, c, id)
    BY Zenon, <1>1, <1>11, GiveUpFacts
  <2> QED
    BY Zenon, <1>2, <1>4, <1>5, <2>1 DEF StepRight
<1>12. CASE Release(c)
  <2>1. pc[c] = "release"
    BY Zenon, <1>12 DEF Release
  <2>2. PICK M : /\ ClientRight(c, x, M) /\ SameOut(c) /\ UNCHANGED <<Undone, started, aligned>>
                 /\ Calm' => Calm
                 /\ Calm' => \A n \in Nodes, id \in Ids : Own(n, c, id)' => Own(n, c, id)
    BY Zenon, <1>1, <1>12, ReleaseFacts
  <2> QED
    BY Zenon, <1>4, <2>1, <2>2 DEF StepRight
<1> QED
  BY Zenon, <1>6, <1>7, <1>8, <1>9, <1>10, <1>11, <1>12 DEF ClientStep

\* axiom-init is not concerned
LEMMA SlotsKept ==
  ASSUME NEW n \in Nodes, info'[n] = info[n], ran'[n] = ran[n], SlotInv(n),
         \A d \in Clients, id \in Ids : OutKept(n, d, id)
  PROVE  SlotInv(n)'
<1>1. ASSUME NEW c \in Clients, NEW id \in Ids, NEW j \in 2 .. 4, Out(n, c, id, j)'
      PROVE  \/ Out(n, c, id, j - 1)'
             \/ /\ \A k \in 1 .. j - 1 : ~ Out(n, c, id, k)'
                /\ \E i \in Slots : info'[n][i] = Partial(c, id, j - 1)
  <2>1. j - 1 \in 1 .. 4 /\ j \in 1 .. 4
    OBVIOUS
  <2>2. CASE \A k \in 1 .. 4 : Out(n, c, id, k)'
    BY Zenon, <2>1, <2>2
  <2>3. CASE ~ \A k \in 1 .. 4 : Out(n, c, id, k)'
    <3>1. PICK F \in 1 .. 5 : \A k \in 1 .. 4 : Out(n, c, id, k)' <=> (Out(n, c, id, k) /\ k < F)
      BY Zenon, <2>3 DEF OutKept
    <3>2. Out(n, c, id, j) /\ j < F
      BY Zenon, <1>1, <2>1, <3>1
    <3>3. j - 1 < F /\ \A k \in 1 .. j - 1 : k \in 1 .. 4
      BY <3>2
    <3>4. \/ Out(n, c, id, j - 1)
          \/ /\ \A k \in 1 .. j - 1 : ~ Out(n, c, id, k)
             /\ \E i \in Slots : info[n][i] = Partial(c, id, j - 1)
      BY Zenon, <3>2 DEF SlotInv
    <3> QED
      BY Zenon, <2>1, <3>1, <3>3, <3>4
  <2> QED
    BY Zenon, <2>2, <2>3
<1> QED
  BY Zenon, <1>1 DEF SlotInv

\* nobody gets a session
LEMMA ApartKept ==
  ASSUME NEW n \in Nodes, free' = free, ApartInv(n),
         \A d \in Clients, id \in Ids : Own(n, d, id)' => Own(n, d, id)
  PROVE  ApartInv(n)'
BY Zenon DEF ApartInv

\* a client keeps sessions and spawns apart
LEMMA ClientKeeps ==
  ASSUME CalmInv, Calm', NEW c \in Clients, NEW x \in Nodes, NEW M, StepRight(c, x, M)
  PROVE  CalmInv'
<1>1. /\ SessionsTypeOK /\ SessionsTypeOK' /\ OthersAlone(c)
      /\ Sent(c, x, M) /\ SentStay(c) /\ ClientInv(c)'
  BY Zenon DEF CalmInv, StepRight, ClientRight
<1>2. \A d \in Clients : ClientInv(d)'
  BY Zenon, <1>1, OthersRight DEF CalmInv
<1>3. ASSUME NEW n \in Nodes PROVE QueueInv(n)' /\ ApartInv(n)' /\ (n \notin dropped' => SlotInv(n)')
  <2>1. \A k \in Nodes : QueueInv(k) /\ ApartInv(k) /\ (k \notin dropped => SlotInv(k))
    BY Zenon DEF CalmInv
  <2>2. SentRight(x, M) /\ free' = free /\ info' = info /\ ran' = ran /\ dropped' = dropped
    BY Zenon, <2>1 DEF StepRight, ClientRight, Undone
  <2>3. QueueInv(n)'
    BY Zenon, <1>1, <2>1, <2>2, QueueKept
  <2>4. ASSUME NEW d \in Clients, NEW id \in Ids PROVE Own(n, d, id)' => Own(n, d, id)
    <3>1. CASE d = c
      BY Zenon, <3>1 DEF StepRight
    <3>2. CASE d # c
      BY Zenon, <1>1, <3>2, OthersOwn
    <3> QED
      BY Zenon, <3>1, <3>2
  <2>5. ApartInv(n)'
    BY Zenon, <2>1, <2>2, <2>4, ApartKept
  <2>6. ASSUME NEW d \in Clients, NEW id \in Ids PROVE OutKept(n, d, id)
    <3>1. CASE d = c
      BY Zenon, <2>1, <3>1 DEF StepRight
    <3>2. CASE d # c
      <4>1. \A j \in 1 .. 4 : Out(n, d, id, j)' <=> Out(n, d, id, j)
        BY Zenon, <1>1, <3>2, OthersOwn
      <4>2. 5 \in 1 .. 5 /\ \A j \in 1 .. 4 : j < 5
        OBVIOUS
      <4> QED
        BY Zenon, <4>1, <4>2 DEF OutKept
    <3> QED
      BY Zenon, <3>1, <3>2
  <2>7. n \notin dropped' => SlotInv(n)'
    <3>1. info'[n] = info[n] /\ ran'[n] = ran[n]
      BY Zenon, <2>2
    <3> QED
      BY Zenon, <2>1, <2>2, <2>6, <3>1, SlotsKept
  <2> QED
    BY Zenon, <2>3, <2>5, <2>7
<1> QED
  BY Zenon, <1>1, <1>2, <1>3 DEF CalmInv

\* what waits had been waiting, or is what the client sends
LEMMA SentWaits ==
  ASSUME SessionsTypeOK, NEW c, NEW x \in Nodes, NEW M, Sent(c, x, M), NEW n \in Nodes
  PROVE  \A p : Waits(n, p)' => Waits(n, p) \/ (n = x /\ p \in M /\ From(p) = c)
<1>1. CASE initq' = initq
  BY Zenon, <1>1 DEF Waits
<1>2. CASE initq' # initq
  <2>1. PICK m \in Msgs : M = {m} /\ From(m) = c /\ Grows(x, m)
    BY Zenon, <1>2 DEF Sent
  <2>2. \A q : Waits(n, q)' <=> (Waits(n, q) \/ (n = x /\ q = m))
    BY Zenon, <2>1, GrowsBy
  <2> QED
    BY Zenon, <2>1, <2>2
<1> QED
  BY Zenon, <1>1, <1>2

\* and, as long as nothing fails, loses none of them
LEMMA ClientLoses ==
  ASSUME CalmInv, KeptInv, NEW c \in Clients, NEW x \in Nodes, NEW M, StepRight(c, x, M)
  PROVE  KeptInv' \/ pc[c] = "release"
<1> SUFFICES ASSUME faults' = 0, pc[c] # "release"
             PROVE  /\ released' = {} /\ \A d \in Clients : AnswerInv(d)'
                    /\ \A n \in Nodes : n \notin dropped' => KeptAt(n)'
  BY Zenon DEF KeptInv
<1>1. /\ SessionsTypeOK /\ OthersAlone(c) /\ Sent(c, x, M) /\ KeptStep(c, x, M)
      /\ \A d \in Clients : ClientInv(d) /\ \A n \in Nodes : QueueInv(n)
  BY Zenon DEF CalmInv, StepRight, ClientRight
<1>2. /\ released = {} /\ \A d \in Clients : AnswerInv(d)
      /\ \A n \in Nodes : n \notin dropped => KeptAt(n)
  BY Zenon, <1>1 DEF KeptInv, KeptStep
<1>3. free' = free /\ info' = info /\ ran' = ran /\ dropped' = dropped
  BY Zenon DEF StepRight, Undone
<1>4. ASSUME NEW d \in Clients, d # c PROVE AnswerInv(d)'
  <2>1. pc'[d] = pc[d] /\ node'[d] = node[d] /\ replies'[d] = replies[d]
    BY Zenon, <1>1, <1>4 DEF OthersAlone
  <2>2. \A n \in Nodes : Waits(n, Request(EMPTY, d))' <=> Waits(n, Request(EMPTY, d))
    <3>1. 0 \in Ids
      BY SessionsAssumption DEF Ids
    <3> QED
      BY Zenon, <1>1, <1>4, <3>1, OthersOwn
  <2>3. CASE pc[d] = "reply"
    <3>1. node[d] \in Nodes
      BY Zenon, <1>1, <2>3 DEF ClientInv
    <3>2. PICK y \in Nodes : y = node[d]
      BY Zenon, <3>1
    <3>3. node'[d] = y
      BY Zenon, <2>1, <3>2
    <3>4. Waits(node[d], Request(EMPTY, d))' <=> Waits(node[d], Request(EMPTY, d))
      BY Zenon, <2>2, <3>2, <3>3 DEF Waits
    <3> QED
      BY Zenon, <1>2, <2>1, <2>2, <3>4 DEF AnswerInv
  <2>4. CASE pc[d] # "reply"
    BY Zenon, <1>2, <2>1, <2>4, <2>2 DEF AnswerInv
  <2> QED
    BY Zenon, <2>3, <2>4
<1>5. AnswerInv(c)'
  <2>1. CASE pc'[c] = "reply"
    <3>1. replies'[c] = << >> /\ M = {Request(EMPTY, c)} /\ node'[c] = x
      BY Zenon, <1>1, <2>1 DEF KeptStep
    <3>2. Request(EMPTY, c) \in Msgs /\ M # {}
      BY <3>1, RequestIs
    <3>3. Grows(x, Request(EMPTY, c))
      BY Zenon, <1>1, <3>1, <3>2 DEF Sent
    <3>4. Waits(x, Request(EMPTY, c))'
      <4>1. \A p : Waits(x, p)' <=> (Waits(x, p) \/ (x = x /\ p = Request(EMPTY, c)))
        BY Zenon, <1>1, <3>2, <3>3, GrowsBy
      <4> QED
        BY Zenon, <4>1
    <3>5. Waits(node[c], Request(EMPTY, c))'
      BY Zenon, <3>1, <3>4 DEF Waits
    <3>6. pc'[c] # "failed"
      BY <2>1
    <3> QED
      BY Zenon, <1>1, <3>1, <3>5, <3>6 DEF KeptStep, AnswerInv
  <2>2. CASE pc'[c] # "reply"
    <3>1. ASSUME pc'[c] = "failed", NEW n \in Nodes PROVE ~ Waits(n, Request(EMPTY, c))'
      <4>1. initq' = initq /\ replies[c] # << >>
        BY Zenon, <1>1, <3>1 DEF KeptStep
      <4>2. Rank(Request(EMPTY, c)) = 0 /\ From(Request(EMPTY, c)) = c
        BY RequestIs
      <4>3. ~ Waits(n, Request(EMPTY, c))
        <5>1. Waits(n, Request(EMPTY, c)) => MsgInv(n, Request(EMPTY, c))
          BY Zenon, <1>1 DEF QueueInv, Waits
        <5> QED
          BY Zenon, <4>1, <4>2, <5>1 DEF MsgInv
      <4> QED
        BY Zenon, <4>1, <4>3 DEF Waits
    <3> QED
      BY Zenon, <1>1, <2>2, <3>1 DEF KeptStep, AnswerInv
  <2> QED
    BY Zenon, <2>1, <2>2
<1>6. ASSUME NEW n \in Nodes, n \notin dropped PROVE KeptAt(n)'
  <2>1. 4 \in 1 .. 4
    OBVIOUS
  <2>2. ASSUME NEW d \in Clients, NEW id \in Ids
        PROVE  (Own(n, d, id) => Own(n, d, id)') /\ OutWhole(n, d, id)
    <3>1. CASE d = c
      BY Zenon, <1>1, <3>1 DEF KeptStep, SameOwn
    <3>2. CASE d # c
      BY Zenon, <1>1, <3>2, OthersOwn DEF OutWhole
    <3> QED
      BY Zenon, <3>1, <3>2
  <2>3. ASSUME NEW d \in Clients, NEW id \in Ids PROVE Out(n, d, id, 4) => Out(n, d, id, 4)'
    BY Zenon, <2>1, <2>2 DEF OutWhole
  <2>4. KeptAt(n)
    BY Zenon, <1>2, <1>6
  <2>5. /\ \A d \in Clients : n \in started[d] => n \in started'[d]
        /\ \A d \in Clients : n \in started'[d] =>
             n \in started[d] \/ (d = c /\ \E id \in Ids : Out(n, c, id, 4)')
    BY Zenon, <1>1 DEF KeptStep
  <2>6. \A id \in Ids \ free'[n] : \E d \in Clients : Own(n, d, id)'
    BY Zenon, <1>3, <2>2, <2>4 DEF KeptAt
  <2>7. ASSUME NEW i \in Slots
        PROVE  \/ info'[n][i] = Free
               \/ /\ info'[n][i].id \in Ids
                  /\ \E d \in Clients : Out(n, d, info[n][i].id, 4)'
    <3>1. CASE info[n][i] = Free
      BY Zenon, <1>3, <3>1
    <3>2. CASE info[n][i] # Free
      <4>1. PICK id \in Ids : id = info[n][i].id /\ \E d \in Clients : Out(n, d, id, 4)
        <5>1. info[n][i].id \in Ids /\ \E d \in Clients : Out(n, d, info[n][i].id, 4)
          BY Zenon, <2>4, <3>2 DEF KeptAt
        <5> QED
          BY Zenon, <5>1
      <4>2. \E d \in Clients : Out(n, d, id, 4)'
        BY Zenon, <2>3, <4>1
      <4>3. info'[n][i].id = id
        BY Zenon, <1>3, <4>1
      <4> QED
        BY Zenon, <4>1, <4>2, <4>3 DEF Out
    <3> QED
      BY Zenon, <3>1, <3>2
  <2>8. ASSUME NEW d \in Clients, n \in started'[d]
        PROVE  Program(d) \in ran'[n] \/ \E id \in Ids : Out(n, d, id, 4)'
    BY Zenon, <1>3, <2>4, <2>5, <2>8, <2>3 DEF KeptAt
  <2>9. \A p \in ran'[n] : \E d \in Clients : p = Program(d) /\ n \in started'[d]
    BY Zenon, <1>3, <2>4, <2>5 DEF KeptAt
  <2>10. ASSUME NEW d \in Clients, NEW id \in Ids, NEW j \in 1 .. 4, Out(n, d, id, j)'
         PROVE  Out(n, d, id, 4)'
    BY Zenon, <2>1, <2>2, <2>4, <2>10 DEF OutWhole, KeptAt
  <2>11. ASSUME NEW d \in Clients, NEW id \in Ids, Waits(n, Piece(d, id, 4))'
         PROVE  n \in started'[d]
    <3>1. CASE Waits(n, Piece(d, id, 4))
      BY Zenon, <2>4, <2>5, <3>1 DEF KeptAt
    <3>2. CASE ~ Waits(n, Piece(d, id, 4))
      <4>1. n = x /\ Piece(d, id, 4) \in M /\ From(Piece(d, id, 4)) = c
        <5>1. \A p : Waits(n, p)' => Waits(n, p) \/ (n = x /\ p \in M /\ From(p) = c)
          BY Zenon, <1>1, SentWaits
        <5> QED
          BY Zenon, <2>11, <3>2, <5>1
      <4>2. From(Piece(d, id, 4)) = d /\ Rank(Piece(d, id, 4)) = 4
        BY PieceIs
      <4> QED
        BY Zenon, <1>1, <4>1, <4>2 DEF KeptStep
    <3> QED
      BY Zenon, <3>1, <3>2
  <2> QED
    BY Zenon, <2>6, <2>7, <2>8, <2>9, <2>10, <2>11 DEF KeptAt
<1> QED
  BY Zenon, <1>1, <1>2, <1>3, <1>4, <1>5, <1>6 DEF KeptStep
=============================================================================
