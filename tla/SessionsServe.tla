--------------------------- MODULE SessionsServe ----------------------------
(***************************************************************************)
(* What the steps of axiom-init preserve, whatever fails: which client a   *)
(* session and a slot belong to, and what the slot has gathered of the     *)
(* spawn request.                                                          *)
(***************************************************************************)
EXTENDS SessionsSteps, FiniteSetTheorems, TLAPS

\* message m is taken from the front of the queue of node x
Shrinks(x, m) ==
  /\ \A n \in Nodes : n # x => initq'[n] = initq[n]
  /\ Len(initq[x]) = Len(initq'[x]) + 1 /\ initq[x][1] = m
  /\ \A k \in 1 .. Len(initq'[x]) : initq'[x][k] = initq[x][k + 1]

\* the packet axiom-init takes is the first of its queue
LEMMA ServeShrinks ==
  ASSUME SessionsTypeOK, NEW x \in Nodes, initq[x] # << >>, initq' = [initq EXCEPT ![x] = Tail(@)]
  PROVE  /\ Head(initq[x]) \in Msgs /\ initq' \in [Nodes -> Seq(Msgs)]
         /\ Shrinks(x, Head(initq[x]))
<1>1. initq \in [Nodes -> Seq(Msgs)] /\ initq[x] \in Seq(Msgs)
  BY Zenon DEF SessionsTypeOK
<1>2. initq'[x] = Tail(initq[x]) /\ \A n \in Nodes : n # x => initq'[n] = initq[n]
  BY Zenon, <1>1
<1>3. Tail(initq[x]) \in Seq(Msgs) /\ Head(initq[x]) \in Msgs
  BY <1>1
<1>4. initq' \in [Nodes -> Seq(Msgs)]
  BY <1>1, <1>3
<1>5. /\ Len(initq[x]) = Len(initq'[x]) + 1 /\ initq[x][1] = Head(initq[x])
      /\ \A k \in 1 .. Len(initq'[x]) : initq'[x][k] = initq[x][k + 1]
  BY <1>1, <1>2
<1> QED
  BY Zenon, <1>2, <1>3, <1>4, <1>5 DEF Shrinks

\* what was in the queues
LEMMA ShrinksBy ==
  ASSUME NEW x \in Nodes, NEW m, initq' \in [Nodes -> Seq(Msgs)], Shrinks(x, m), NEW n \in Nodes
  PROVE  /\ \A d, id : Queued(n, d, id) <=> (Queued(n, d, id)' \/ (n = x /\ From(m) = d /\ m.id = id))
         /\ \A p : Waits(n, p) <=> (Waits(n, p)' \/ (n = x /\ p = m))
<1>1. Len(initq'[x]) \in Nat
  OBVIOUS
<1>2. CASE n = x
  <2>1. \A k : k \in 1 .. Len(initq[x]) => k = 1 \/ \E j \in 1 .. Len(initq'[x]) : k = j + 1
    <3>1. \A k : k \in 1 .. Len(initq[x]) /\ k # 1 => k - 1 \in 1 .. Len(initq'[x]) /\ k = k - 1 + 1
      BY <1>1 DEF Shrinks
    <3> QED
      BY Zenon, <3>1
  <2>2. 1 \in 1 .. Len(initq[x]) /\ \A j \in 1 .. Len(initq'[x]) : j + 1 \in 1 .. Len(initq[x])
    BY <1>1 DEF Shrinks
  <2>3. initq[x][1] = m /\ \A k \in 1 .. Len(initq'[x]) : initq'[x][k] = initq[x][k + 1]
    BY Zenon DEF Shrinks
  <2>4. ASSUME NEW k \in 1 .. Len(initq[x])
        PROVE  initq[x][k] = m \/ \E j \in 1 .. Len(initq'[x]) : initq'[x][j] = initq[x][k]
    BY Zenon, <2>1, <2>3
  <2>5. ASSUME NEW j \in 1 .. Len(initq'[x])
        PROVE  \E k \in 1 .. Len(initq[x]) : initq[x][k] = initq'[x][j]
    BY Zenon, <2>2, <2>3
  <2>6. \E k \in 1 .. Len(initq[x]) : initq[x][k] = m
    BY Zenon, <2>2, <2>3
  <2>7. ASSUME NEW p PROVE Waits(x, p) <=> (Waits(x, p)' \/ p = m)
    BY Zenon, <2>4, <2>5, <2>6 DEF Waits
  <2>8. ASSUME NEW d, NEW id
        PROVE  Queued(x, d, id) <=> (Queued(x, d, id)' \/ (From(m) = d /\ m.id = id))
    <3>1. ASSUME Queued(x, d, id) PROVE Queued(x, d, id)' \/ (From(m) = d /\ m.id = id)
      <4>1. PICK k \in 1 .. Len(initq[x]) : From(initq[x][k]) = d /\ initq[x][k].id = id
        BY Zenon, <3>1 DEF Queued
      <4> QED
        BY Zenon, <4>1, <2>4 DEF Queued
    <3>2. ASSUME Queued(x, d, id)' PROVE Queued(x, d, id)
      <4>1. PICK j \in 1 .. Len(initq'[x]) : From(initq'[x][j]) = d /\ initq'[x][j].id = id
        BY Zenon, <3>2 DEF Queued
      <4> QED
        BY Zenon, <4>1, <2>5 DEF Queued
    <3>3. ASSUME From(m) = d, m.id = id PROVE Queued(x, d, id)
      BY Zenon, <3>3, <2>6 DEF Queued
    <3> QED
      BY Zenon, <3>1, <3>2, <3>3
  <2> QED
    BY Zenon, <1>2, <2>7, <2>8
<1>3. CASE n # x
  <2>1. initq'[n] = initq[n]
    BY Zenon, <1>3 DEF Shrinks
  <2> QED
    BY Zenon, <1>3, <2>1 DEF Queued, Waits
<1> QED
  BY Zenon, <1>2, <1>3

\* the message served is the first of its client
LEMMA HeadFirst ==
  ASSUME NEW x \in Nodes, NEW m, initq' \in [Nodes -> Seq(Msgs)], Shrinks(x, m), QueueInv(x)
  PROVE  /\ MsgInv(x, m)
         /\ \A p : Waits(x, p)' => Follows(m, p)
         /\ \A id : Queued(x, From(m), id)' => Rank(m) \in 1 .. 3 /\ id = m.id
<1>1. /\ 1 \in 1 .. Len(initq[x])
      /\ \A j \in 1 .. Len(initq'[x]) : j + 1 \in 1 .. Len(initq[x]) /\ 1 < j + 1
  BY DEF Shrinks
<1>2. initq[x][1] = m /\ \A k \in 1 .. Len(initq'[x]) : initq'[x][k] = initq[x][k + 1]
  BY Zenon DEF Shrinks
<1>3. ASSUME NEW j \in 1 .. Len(initq'[x]) PROVE Follows(m, initq'[x][j])
  BY Zenon, <1>1, <1>2 DEF QueueInv
<1>4. MsgInv(x, m)
  BY Zenon, <1>1, <1>2 DEF QueueInv
<1>5. ASSUME NEW id, Queued(x, From(m), id)' PROVE Rank(m) \in 1 .. 3 /\ id = m.id
  BY Zenon, <1>3, <1>5 DEF Queued, Follows
<1>6. \A p : Waits(x, p)' => Follows(m, p)
  BY Zenon, <1>3 DEF Waits
<1> QED
  BY Zenon, <1>4, <1>5, <1>6

\* the queues stay right when the clients stay where they are
LEMMA QueueServed ==
  ASSUME NEW x \in Nodes, NEW m, initq' \in [Nodes -> Seq(Msgs)], Shrinks(x, m),
         NEW n \in Nodes, QueueInv(n),
         \A p : Waits(n, p)' /\ MsgInv(n, p) => MsgInv(n, p)'
  PROVE  QueueInv(n)'
<1>1. ASSUME NEW k \in 1 .. Len(initq'[n]), NEW p, p = initq'[n][k]
      PROVE  Waits(n, p)' /\ Waits(n, p)
  <2>1. Waits(n, p)'
    BY Zenon, <1>1 DEF Waits
  <2> QED
    BY Zenon, <2>1, ShrinksBy
<1>2. ASSUME NEW k \in 1 .. Len(initq'[n]), NEW p, p = initq'[n][k] PROVE MsgInv(n, p)'
  <2>1. MsgInv(n, p)
    BY Zenon, <1>1, <1>2 DEF QueueInv, Waits
  <2> QED
    BY Zenon, <1>1, <1>2, <2>1
<1>3. ASSUME NEW j \in 1 .. Len(initq'[n]), NEW k \in 1 .. Len(initq'[n]), j < k
      PROVE  Follows(initq'[n][j], initq'[n][k])
  <2>1. CASE n = x
    <3>1. /\ j + 1 \in 1 .. Len(initq[n]) /\ k + 1 \in 1 .. Len(initq[n]) /\ j + 1 < k + 1
      BY <1>3, <2>1 DEF Shrinks
    <3>2. initq'[n][j] = initq[n][j + 1] /\ initq'[n][k] = initq[n][k + 1]
      BY Zenon, <2>1 DEF Shrinks
    <3> QED
      BY Zenon, <3>1, <3>2 DEF QueueInv
  <2>2. CASE n # x
    <3>1. initq'[n] = initq[n]
      BY Zenon, <2>2 DEF Shrinks
    <3> QED
      BY Zenon, <1>3, <3>1 DEF QueueInv
  <2> QED
    BY Zenon, <2>1, <2>2
<1> QED
  BY Zenon, <1>2, <1>3 DEF QueueInv

\* axiom-init of node x takes message m; no client moves
Serves(x, m) ==
  /\ m \in Msgs /\ initq' \in [Nodes -> Seq(Msgs)] /\ Shrinks(x, m)
  /\ pc' = pc /\ node' = node /\ session' = session /\ todo' = todo /\ started' = started

\* what is left of a client is what it had, but for the message served
LEMMA OwnServed ==
  ASSUME NEW x \in Nodes, NEW m, Serves(x, m), NEW n \in Nodes, NEW d, replies'[d] = replies[d], NEW id
  PROVE  Own(n, d, id) <=> (Own(n, d, id)' \/ (n = x /\ From(m) = d /\ m.id = id))
<1>1. /\ node'[d] = node[d] /\ session'[d] = session[d] /\ (Holds(d)' <=> Holds(d))
  BY Zenon DEF Serves, Holds
<1>2. Queued(n, d, id) <=> (Queued(n, d, id)' \/ (n = x /\ From(m) = d /\ m.id = id))
  BY Zenon, ShrinksBy DEF Serves
<1> QED
  BY Zenon, <1>1, <1>2 DEF Own

\* and so are the pieces to come
LEMMA OutServed ==
  ASSUME NEW x \in Nodes, NEW m, Serves(x, m), NEW n \in Nodes, NEW d, NEW id, NEW j
  PROVE  (Out(n, d, id, j)' => Out(n, d, id, j))
         /\ (Out(n, d, id, j) => Out(n, d, id, j)' \/ (n = x /\ m = Piece(d, id, j)))
<1>1. /\ node'[d] = node[d] /\ session'[d] = session[d] /\ pc'[d] = pc[d]
      /\ FirstLeft(d)' = FirstLeft(d)
  BY Zenon DEF Serves, FirstLeft
<1>2. \A p : Waits(n, p) <=> (Waits(n, p)' \/ (n = x /\ p = m))
  BY Zenon, ShrinksBy DEF Serves
<1>3. Waits(n, Piece(d, id, j)) <=> (Waits(n, Piece(d, id, j))' \/ (n = x /\ Piece(d, id, j) = m))
  BY Zenon, <1>2
<1> QED
  BY Zenon, <1>1, <1>3 DEF Out

\* a piece to come has its session in use
LEMMA OutOwn ==
  ASSUME NEW n, NEW c \in Clients, NEW id \in Ids, NEW j \in 1 .. 4, Out(n, c, id, j)
  PROVE  Own(n, c, id)
<1>1. From(Piece(c, id, j)) = c /\ Piece(c, id, j).id = id
  BY PieceIs
<1>2. Waits(n, Piece(c, id, j)) => Queued(n, c, id)
  BY Zenon, <1>1 DEF Waits, Queued
<1>3. pc[c] = "send" => Holds(c)
  BY DEF Holds
<1> QED
  BY Zenon, <1>2, <1>3 DEF Out, Own

\* the session of the message served was in use, and only by its client
LEMMA HeadOwn ==
  ASSUME NEW x \in Nodes, NEW m, Serves(x, m), ApartInv(x), From(m) \in Clients, m.id \in Ids
  PROVE  /\ Own(x, From(m), m.id) /\ m.id \notin free[x]
         /\ \A d \in Clients : Own(x, d, m.id) => d = From(m)
<1>1. Queued(x, From(m), m.id)
  BY Zenon, ShrinksBy DEF Serves
<1>2. Own(x, From(m), m.id)
  BY Zenon, <1>1 DEF Own
<1> QED
  BY Zenon, <1>2 DEF ApartInv

\* EXEC and the release are the last of a session
LEMMA LastServed ==
  ASSUME NEW x \in Nodes, NEW m, Serves(x, m), QueueInv(x), NEW c \in Clients, c = From(m),
         ClientInv(c), Rank(m) = 4 \/ Rank(m) = 5, replies' = replies
  PROVE  ~ Own(x, c, m.id)'
<1>1. Rank(m) \notin 1 .. 3
  OBVIOUS
<1>2. MsgInv(x, m) /\ ~ Queued(x, c, m.id)'
  BY Zenon, <1>1, HeadFirst DEF Serves
<1>3. node[c] = x => replies[c] = << >> /\ ~ Holds(c)
  <2>1. ASSUME node[c] = x, Holds(c) PROVE FALSE
    <3>1. Rank(m) \in 1 .. FirstLeft(c) - 1
      BY Zenon, <1>2, <2>1 DEF MsgInv
    <3>2. FirstLeft(c) \in 1 .. 4
      BY Zenon, <2>1, LeftIs DEF ClientInv
    <3> QED
      BY <3>1, <3>2
  <2> QED
    BY Zenon, <1>2, <2>1 DEF MsgInv
<1>4. node'[c] = node[c] /\ (Holds(c)' <=> Holds(c)) /\ replies'[c] = replies[c]
  BY Zenon DEF Serves, Holds
<1> QED
  BY Zenon, <1>2, <1>3, <1>4 DEF Own

\* the piece served is the first of its spawn that is to come
LEMMA FirstServed ==
  ASSUME NEW x \in Nodes, NEW m, Serves(x, m), QueueInv(x), NEW c \in Clients, NEW id \in Ids,
         NEW j \in 1 .. 4, m = Piece(c, id, j), ClientInv(c)
  PROVE  /\ Out(x, c, id, j) /\ \A k \in 1 .. j : ~ Out(x, c, id, k)'
         /\ \A k \in 1 .. 4 : k < j => ~ Out(x, c, id, k)
<1>1. From(m) = c /\ Rank(m) = j /\ m.id = id
  BY PieceIs
<1>2. /\ MsgInv(x, m) /\ \A p : Waits(x, p)' => Follows(m, p)
      /\ Waits(x, m)
  BY Zenon, HeadFirst, ShrinksBy DEF Serves
<1>3. ASSUME NEW k \in 1 .. j PROVE ~ Out(x, c, id, k)'
  <2>1. k \in 1 .. 4 /\ ~ (j < k)
    BY <1>3
  <2>2. From(Piece(c, id, k)) = c /\ Rank(Piece(c, id, k)) = k
    BY <2>1, PieceIs
  <2>3. ~ Waits(x, Piece(c, id, k))'
    BY Zenon, <1>1, <1>2, <2>1, <2>2 DEF Follows
  <2>4. ASSUME node[c] = x, pc[c] = "send" PROVE ~ (k >= FirstLeft(c))
    <3>1. Holds(c)
      BY <2>4 DEF Holds
    <3>2. j \in 1 .. FirstLeft(c) - 1
      BY Zenon, <1>1, <1>2, <2>4, <3>1 DEF MsgInv
    <3>3. FirstLeft(c) \in 1 .. 4
      BY Zenon, <3>1, LeftIs DEF ClientInv
    <3> QED
      BY <3>2, <3>3
  <2>5. node'[c] = node[c] /\ pc'[c] = pc[c] /\ FirstLeft(c)' = FirstLeft(c)
    BY Zenon DEF Serves, FirstLeft
  <2> QED
    BY Zenon, <2>3, <2>4, <2>5 DEF Out
<1>4. Out(x, c, id, j)
  BY Zenon, <1>2 DEF Out
<1>5. ASSUME NEW k \in 1 .. 4, k < j PROVE ~ Out(x, c, id, k)
  <2>1. k \in 1 .. j /\ k # j
    BY <1>5
  <2>2. Rank(Piece(c, id, k)) = k
    BY PieceIs
  <2>3. m # Piece(c, id, k)
    BY Zenon, <1>1, <2>1, <2>2
  <2>4. ASSUME NEW n \in Nodes
        PROVE  Out(n, c, id, k) => Out(n, c, id, k)' \/ (n = x /\ m = Piece(c, id, k))
    BY Zenon, OutServed
  <2> QED
    BY Zenon, <1>3, <2>1, <2>3, <2>4
<1> QED
  BY Zenon, <1>3, <1>4, <1>5

\* sessions are kept apart when those that become free are nobody's
LEMMA ApartFreed ==
  ASSUME NEW n \in Nodes, ApartInv(n),
         \A d \in Clients, id \in Ids : Own(n, d, id)' => Own(n, d, id),
         \A id \in Ids : id \in free'[n] => id \in free[n] \/ \A d \in Clients : ~ Own(n, d, id)'
  PROVE  ApartInv(n)'
<1> SUFFICES ASSUME NEW id \in Ids, NEW c \in Clients, Own(n, c, id)'
             PROVE  id \notin free'[n] /\ \A d \in Clients : Own(n, d, id)' => d = c
  BY Zenon DEF ApartInv
<1>1. Own(n, c, id)
  OBVIOUS
<1>2. id \notin free[n] /\ \A d \in Clients : Own(n, d, id) => d = c
  BY Zenon, <1>1 DEF ApartInv
<1> QED
  BY Zenon, <1>2

\* the queues, the clients and the sessions, when no reply is sent and only
\* the session of a last message becomes free
LEMMA ServedApart ==
  ASSUME CalmInv, NEW x \in Nodes, NEW m, Serves(x, m), replies' = replies,
         free' \in [Nodes -> SUBSET Ids],
         \A n \in Nodes : n # x => free'[n] = free[n],
         free'[x] \subseteq free[x] \/ (free'[x] = free[x] \cup {m.id} /\ (Rank(m) = 4 \/ Rank(m) = 5))
  PROVE  /\ \A c \in Clients : ClientInv(c)'
         /\ \A n \in Nodes : QueueInv(n)' /\ ApartInv(n)'
<1>1. /\ pc' = pc /\ node' = node /\ session' = session /\ todo' = todo /\ m \in Msgs
      /\ initq' \in [Nodes -> Seq(Msgs)] /\ Shrinks(x, m)
  BY Zenon DEF Serves
<1>2. \A c \in Clients : ClientInv(c)'
  BY Zenon, <1>1 DEF CalmInv, ClientInv, Holds, FirstLeft
<1>3. ASSUME NEW n \in Nodes PROVE QueueInv(n)'
  <2>1. ASSUME NEW p, MsgInv(n, p) PROVE MsgInv(n, p)'
    BY Zenon, <1>1, <2>1 DEF MsgInv, Holds, FirstLeft
  <2>2. QueueInv(n)
    BY Zenon DEF CalmInv
  <2> QED
    BY Zenon, <1>1, <2>1, <2>2, QueueServed
<1>4. ASSUME NEW n \in Nodes PROVE ApartInv(n)'
  <2>1. ASSUME NEW d \in Clients, NEW id \in Ids, Own(n, d, id)' PROVE Own(n, d, id)
    <3>1. replies'[d] = replies[d]
      BY Zenon
    <3> QED
      BY Zenon, <2>1, <3>1, OwnServed
  <2>2. ASSUME NEW id \in Ids, id \in free'[n], id \notin free[n], NEW d \in Clients
        PROVE  ~ Own(n, d, id)'
    <3>1. n = x /\ id = m.id /\ (Rank(m) = 4 \/ Rank(m) = 5)
      BY Zenon, <2>2
    <3>2. From(m) \in Clients
      BY Zenon, <1>1, MsgIs
    <3>3. QueueInv(x) /\ ApartInv(x) /\ ClientInv(From(m))
      BY Zenon, <3>2 DEF CalmInv
    <3>4. ~ Own(x, From(m), id)'
      BY Zenon, <3>1, <3>2, <3>3, LastServed
    <3>5. Own(x, d, id) => d = From(m)
      BY Zenon, <3>1, <3>2, <3>3, HeadOwn
    <3> QED
      BY Zenon, <2>1, <3>1, <3>4, <3>5
  <2>3. ApartInv(n)
    BY Zenon DEF CalmInv
  <2>4. \A id \in Ids : id \in free'[n] => id \in free[n] \/ \A d \in Clients : ~ Own(n, d, id)'
    BY Zenon, <2>2
  <2> QED
    BY Zenon, <2>1, <2>3, <2>4, ApartFreed
<1> QED
  BY Zenon, <1>2, <1>3, <1>4

\* the pieces to come, when the message is not one of them
LEMMA OutSame ==
  ASSUME NEW x \in Nodes, NEW m, Serves(x, m), NEW n \in Nodes, n # x \/ Rank(m) \notin 1 .. 4
  PROVE  \A d \in Clients, id \in Ids : \A j \in 1 .. 4 : Out(n, d, id, j)' <=> Out(n, d, id, j)
<1>1. ASSUME NEW d \in Clients, NEW id \in Ids, NEW j \in 1 .. 4
      PROVE  Out(n, d, id, j)' <=> Out(n, d, id, j)
  <2>1. (Out(n, d, id, j)' => Out(n, d, id, j))
        /\ (Out(n, d, id, j) => Out(n, d, id, j)' \/ (n = x /\ m = Piece(d, id, j)))
    BY OutServed
  <2>2. m = Piece(d, id, j) => Rank(m) = j
    BY PieceIs
  <2> QED
    BY Zenon, <2>1, <2>2
<1> QED
  BY Zenon, <1>1

\* and the slots
LEMMA ServedSlots ==
  ASSUME CalmInv, NEW x \in Nodes, NEW m, Serves(x, m), NEW n \in Nodes, n # x \/ Rank(m) \notin 1 .. 4,
         n \notin dropped, info'[n] = info[n], ran'[n] = ran[n]
  PROVE  SlotInv(n)'
<1>1. \A d \in Clients, id \in Ids : \A j \in 1 .. 4 : Out(n, d, id, j)' <=> Out(n, d, id, j)
  BY Zenon, OutSame
<1>2. ASSUME NEW d \in Clients, NEW id \in Ids PROVE OutKept(n, d, id)
  <2>1. 5 \in 1 .. 5 /\ \A j \in 1 .. 4 : j < 5
    OBVIOUS
  <2> QED
    BY Zenon, <1>1, <2>1 DEF OutKept
<1>3. SlotInv(n)
  BY Zenon DEF CalmInv
<1> QED
  BY Zenon, <1>2, <1>3, SlotsKept

\* what axiom_session answers: a session that was free, or EMPTY
LEMMA NextIs ==
  ASSUME NEW n \in Nodes, free[n] \in SUBSET Ids
  PROVE  next(n) \in Ids \cup {EMPTY} /\ (next(n) \in Ids => next(n) \in free[n])
<1>1. CASE free[n] = {}
  BY Zenon, <1>1, IdsApart DEF next
<1>2. CASE free[n] # {}
  <2>1. free[n] \subseteq Nat /\ \A j \in free[n] : j \in Ids
    BY DEF Ids
  <2>2. PICK k \in free[n] : \A j \in free[n] : ~ (<<j, k>> \in OpToRel(<, Nat))
    BY Zenon, <1>2, <2>1, NatLessThanWellFounded, WFMin
  <2>3. \A j \in free[n] : ~ (j < k)
    BY Zenon, <2>1, <2>2 DEF OpToRel
  <2>4. \A j \in free[n] : k <= j
    BY <2>1, <2>3
  <2>5. Lowest(free[n]) \in free[n]
    BY Zenon, <2>4 DEF Lowest
  <2> QED
    BY Zenon, <1>2, <2>1, <2>5 DEF next
<1> QED
  BY Zenon, <1>1, <1>2

\* m is the request of client c for a session
AskOf(m, c) == m = Request(EMPTY, c)

\* a request that is answered: the client waits, or has given up
LEMMA AskedBy ==
  ASSUME CalmInv, NEW x \in Nodes, NEW m, Serves(x, m), NEW c \in Clients, AskOf(m, c)
  PROVE  /\ node[c] = x /\ replies[c] = << >> /\ pc[c] \in {"reply", "failed"} /\ ~ Holds(c)
         /\ \A id : ~ Queued(x, c, id)' /\ \A p : Waits(x, p)' => From(p) # c
<1>1. From(m) = c /\ Rank(m) = 0
  BY RequestIs DEF AskOf
<1>2. QueueInv(x)
  BY Zenon DEF CalmInv
<1>3. Rank(m) \notin 1 .. 3
  BY <1>1
<1>4. /\ MsgInv(x, m) /\ \A p : Waits(x, p)' => Follows(m, p)
      /\ \A id : ~ Queued(x, c, id)'
  BY Zenon, <1>1, <1>2, <1>3, HeadFirst DEF Serves
<1>5. node[c] = x /\ replies[c] = << >> /\ pc[c] \in {"reply", "failed"}
  BY Zenon, <1>1, <1>4 DEF MsgInv
<1>6. ~ Holds(c)
  BY <1>5 DEF Holds
<1>7. \A p : Waits(x, p)' => From(p) # c
  BY Zenon, <1>1, <1>3, <1>4 DEF Follows
<1> QED
  BY Zenon, <1>4, <1>5, <1>6, <1>7

\* a port that was empty then holds the answer alone
LEMMA OneSeq ==
  ASSUME NEW y PROVE Append(<< >>, y) # << >> /\ Head(Append(<< >>, y)) = y /\ Len(Append(<< >>, y)) = 1
<1>1. << >> \in Seq({y})
  OBVIOUS
<1>2. ASSUME NEW S, NEW T \in Seq(S), T = << >>, y \in S
      PROVE  Append(T, y) # << >> /\ Head(Append(T, y)) = y /\ Len(Append(T, y)) = 1
  BY <1>2
<1>3. y \in {y}
  OBVIOUS
<1> QED
  BY Zenon, <1>1, <1>2, <1>3

\* session y, if it is one, was free on node x and no longer is
Gives(x, y) == (y \in Ids => y \in free[x]) /\ free' = [free EXCEPT ![x] = @ \ {y}]

\* the answer y is sent to client c
Answers(c, y) == y \in Ids \cup {EMPTY} /\ replies' = [replies EXCEPT ![c] = Append(@, y)]

\* the session given out becomes the client's, and only that
LEMMA AnswerOwn ==
  ASSUME CalmInv, NEW x \in Nodes, NEW m, Serves(x, m), NEW c \in Clients, AskOf(m, c),
         NEW y, Answers(c, y)
  PROVE  \A n \in Nodes, d \in Clients, id \in Ids :
           Own(n, d, id)' <=> (Own(n, d, id) \/ (n = x /\ d = c /\ id = y))
<1> SUFFICES ASSUME NEW n \in Nodes, NEW d \in Clients, NEW id \in Ids
             PROVE  Own(n, d, id)' <=> (Own(n, d, id) \/ (n = x /\ d = c /\ id = y))
  BY Zenon
<1>1. From(m) = c /\ m.id = EMPTY /\ id # EMPTY
  BY RequestIs, IdsApart DEF AskOf
<1>2. CASE d # c
  <2>1. replies'[d] = replies[d]
    BY Zenon, <1>2 DEF CalmInv, SessionsTypeOK, Answers
  <2> QED
    BY Zenon, <1>1, <1>2, <2>1, OwnServed
<1>3. CASE d = c
  <2>1. node[c] = x /\ replies[c] = << >> /\ ~ Holds(c) /\ ~ Queued(x, c, id)'
    BY Zenon, AskedBy
  <2>2. replies'[c] # << >> /\ Head(replies'[c]) = y
    <3>1. replies'[c] = Append(replies[c], y)
      BY Zenon DEF CalmInv, SessionsTypeOK, Answers
    <3> QED
      BY Zenon, <2>1, <3>1, OneSeq
  <2>3. Queued(n, c, id)' <=> Queued(n, c, id)
    <3>1. Queued(n, c, id) <=> (Queued(n, c, id)' \/ (n = x /\ From(m) = c /\ m.id = id))
      BY Zenon, ShrinksBy DEF Serves
    <3> QED
      BY Zenon, <1>1, <3>1
  <2>4. node'[c] = node[c] /\ (Holds(c)' <=> Holds(c))
    BY Zenon DEF Serves, Holds
  <2>5. Own(n, c, id)' <=> (Queued(n, c, id) \/ (n = x /\ id = y))
    BY Zenon, <2>1, <2>2, <2>3, <2>4 DEF Own
  <2>6. Own(n, c, id) <=> Queued(n, c, id)
    BY Zenon, <2>1 DEF Own
  <2> QED
    BY Zenon, <1>3, <2>5, <2>6
<1> QED
  BY Zenon, <1>2, <1>3

\* axiom_session answers: every client and every session stays right
LEMMA AnswerServed ==
  ASSUME CalmInv, NEW x \in Nodes, NEW m, Serves(x, m), NEW c \in Clients, AskOf(m, c),
         NEW y, Answers(c, y),
         Gives(x, y)
  PROVE  /\ replies' \in [Clients -> Seq(Ids \cup {EMPTY})]
         /\ \A d \in Clients : ClientInv(d)'
         /\ \A n \in Nodes : QueueInv(n)' /\ ApartInv(n)'
<1>1. /\ pc' = pc /\ node' = node /\ session' = session /\ todo' = todo /\ m \in Msgs
      /\ initq' \in [Nodes -> Seq(Msgs)] /\ Shrinks(x, m)
  BY Zenon DEF Serves
<1>2. /\ node[c] = x /\ replies[c] = << >> /\ pc[c] \in {"reply", "failed"} /\ ~ Holds(c)
      /\ \A p : Waits(x, p)' => From(p) # c
  BY Zenon, AskedBy
<1>3. /\ replies \in [Clients -> Seq(Ids \cup {EMPTY})] /\ free \in [Nodes -> SUBSET Ids]
  BY Zenon DEF CalmInv, SessionsTypeOK
<1>4. Append(replies[c], y) \in Seq(Ids \cup {EMPTY}) /\ Len(Append(replies[c], y)) <= 1
  <2>1. replies[c] \in Seq(Ids \cup {EMPTY})
    BY Zenon, <1>3
  <2>2. Append(replies[c], y) \in Seq(Ids \cup {EMPTY})
    BY <2>1 DEF Answers
  <2>3. Len(Append(replies[c], y)) = 1
    BY Zenon, <1>2, OneSeq
  <2> QED
    BY <2>2, <2>3
<1>5. /\ replies' \in [Clients -> Seq(Ids \cup {EMPTY})]
      /\ replies'[c] = Append(replies[c], y) /\ \A d \in Clients : d # c => replies'[d] = replies[d]
  BY Zenon, <1>3, <1>4 DEF Answers
<1>6. ASSUME NEW d \in Clients PROVE ClientInv(d)'
  <2>1. ClientInv(d)
    BY Zenon DEF CalmInv
  <2>2. CASE d = c
    BY Zenon, <1>1, <1>2, <1>4, <1>5, <2>1, <2>2 DEF ClientInv, Holds, FirstLeft
  <2>3. CASE d # c
    BY Zenon, <1>1, <1>5, <2>1, <2>3 DEF ClientInv, Holds, FirstLeft
  <2> QED
    BY Zenon, <2>2, <2>3
<1>7. ASSUME NEW n \in Nodes PROVE QueueInv(n)'
  <2>1. ASSUME NEW p, Waits(n, p)', MsgInv(n, p) PROVE MsgInv(n, p)'
    <3>1. p \in Msgs
      BY <1>1, <2>1 DEF Waits
    <3>2. From(p) \in Clients
      BY Zenon, <3>1, MsgIs
    <3>3. CASE From(p) = c
      <4>1. n # x
        BY Zenon, <1>2, <2>1, <3>3
      <4> QED
        BY Zenon, <1>1, <1>2, <2>1, <3>3, <4>1 DEF MsgInv, Holds, FirstLeft
    <3>4. CASE From(p) # c
      <4>1. replies'[From(p)] = replies[From(p)]
        BY Zenon, <1>5, <3>2, <3>4
      <4> QED
        BY Zenon, <1>1, <2>1, <4>1 DEF MsgInv, Holds, FirstLeft
    <3> QED
      BY Zenon, <3>3, <3>4
  <2>2. QueueInv(n)
    BY Zenon DEF CalmInv
  <2> QED
    BY Zenon, <1>1, <2>1, <2>2, QueueServed
<1>8. \A n \in Nodes, d \in Clients, id \in Ids :
        Own(n, d, id)' <=> (Own(n, d, id) \/ (n = x /\ d = c /\ id = y))
  BY AnswerOwn
<1>9. ASSUME NEW n \in Nodes PROVE ApartInv(n)'
  <2>1. ApartInv(n) /\ ApartInv(x)
    BY Zenon DEF CalmInv
  <2>2. \A id \in Ids : id \in free'[n] => id \in free[n] /\ (n = x => id # y)
    BY <1>3 DEF Gives
  <2>3. ASSUME NEW id \in Ids, NEW e \in Clients, Own(n, e, id)'
        PROVE  id \notin free'[n] /\ \A d \in Clients : Own(n, d, id)' => d = e
    <3>1. \A d \in Clients : Own(n, d, id)' <=> (Own(n, d, id) \/ (n = x /\ d = c /\ id = y))
      BY Zenon, <1>8
    <3>2. CASE n = x /\ id = y
      <4>1. \A d \in Clients : ~ Own(n, d, id)
        BY Zenon, <2>1, <3>2 DEF ApartInv, Gives
      <4> QED
        BY Zenon, <2>2, <2>3, <3>1, <3>2, <4>1
    <3>3. CASE ~ (n = x /\ id = y)
      <4>1. id \notin free[n] /\ \A d \in Clients : Own(n, d, id) => d = e
        BY Zenon, <2>1, <2>3, <3>1, <3>3 DEF ApartInv
      <4> QED
        BY Zenon, <2>2, <3>1, <3>3, <4>1
    <3> QED
      BY Zenon, <3>2, <3>3
  <2> QED
    BY Zenon, <2>3 DEF ApartInv
<1> QED
  BY Zenon, <1>5, <1>6, <1>7, <1>9

\* the slot axiom_spawn_req finds is that of the session, or an empty one
LEMMA SlotIn ==
  ASSUME NEW n, NEW id, NEW i \in SlotOf(n, id)
  PROVE  /\ i \in Slots
         /\ \/ info[n][i].id = id
            \/ info[n][i].id = EMPTY /\ \A k \in Slots : info[n][k].id # id
<1> DEFINE mine == {k \in Slots : info[n][k].id = id}
           empty == {k \in Slots : info[n][k].id = EMPTY}
<1>1. CASE mine # {}
  BY Zenon, <1>1 DEF SlotOf
<1>2. CASE mine = {} /\ empty # {}
  <2>1. PICK k \in empty : \A j \in empty : j <= k
    <3> DEFINE left == {NSlots - k : k \in empty}
    <3>1. left \subseteq Nat /\ left # {}
      BY <1>2, SessionsAssumption DEF Slots
    <3> HIDE DEF left
    <3>2. PICK l \in left : \A j \in left : ~ (<<j, l>> \in OpToRel(<, Nat))
      BY Zenon, <3>1, NatLessThanWellFounded, WFMin
    <3>3. \A j \in left : ~ (j < l)
      BY Zenon, <3>1, <3>2 DEF OpToRel
    <3>4. PICK k \in empty : l = NSlots - k
      BY Zenon DEF left
    <3>5. ASSUME NEW j \in empty PROVE j <= k
      <4>1. NSlots - j \in left
        BY Zenon DEF left
      <4> QED
        BY <3>3, <3>4, <4>1, SessionsAssumption DEF Slots
    <3> QED
      BY Zenon, <3>5
  <2> DEFINE g == CHOOSE e \in empty : \A j \in empty : j <= e
  <2>2. g \in empty
    BY Zenon, <2>1
  <2>3. i = g
    BY Zenon, <1>2 DEF SlotOf
  <2> QED
    BY Zenon, <1>2, <2>2, <2>3
<1>3. CASE mine = {} /\ empty = {}
  BY Zenon, <1>3 DEF SlotOf
<1> QED
  BY Zenon, <1>1, <1>2, <1>3

\* what the slot holds once the piece is in it
LEMMA StoredIs ==
  ASSUME NEW c \in Clients, NEW id \in Ids, NEW j \in 1 .. 4, NEW m, m = Piece(c, id, j), NEW s,
         j = 1 \/ s = Partial(c, id, j - 1)
  PROVE  /\ j \in 1 .. 3 => m.flag # "EXEC" /\ Stored(ResetBy(s, m), m) = Partial(c, id, j)
         /\ j = 4 => m.flag = "EXEC" /\ Started(Stored(ResetBy(s, m), m)) = Program(c)
<1>1. id # EMPTY
  BY Zenon, IdsApart
<1>2. CASE j = 1
  <2>1. m = Packet(id, "EXE", "RESET", c)
    BY Zenon, <1>2, PieceShape
  <2>2. m.id = id /\ m.type = "EXE" /\ m.flag = "RESET" /\ m.data = c
    BY <2>1 DEF Packet
  <2>3. ResetBy(s, m) = [Free EXCEPT !.id = id]
    BY Zenon, <2>2 DEF ResetBy
  <2>4. Stored(ResetBy(s, m), m) = [ResetBy(s, m) EXCEPT !.exec = c]
    BY <2>2 DEF Stored
  <2>5. [Free EXCEPT !.id = id] =
          [id |-> id, exec |-> Nobody, cwd |-> Nobody, args |-> << >>, env |-> << >>]
    BY DEF Free
  <2>6. [[id |-> id, exec |-> Nobody, cwd |-> Nobody, args |-> << >>, env |-> << >>] EXCEPT !.exec = c]
        = [id |-> id, exec |-> c, cwd |-> Nobody, args |-> << >>, env |-> << >>]
    OBVIOUS
  <2>7. Partial(c, id, 1) = [id |-> id, exec |-> c, cwd |-> Nobody, args |-> << >>, env |-> << >>]
    BY DEF Partial
  <2>8. Stored(ResetBy(s, m), m) = Partial(c, id, j)
    <3>1. Stored(ResetBy(s, m), m) = [[Free EXCEPT !.id = id] EXCEPT !.exec = c]
      BY Zenon, <2>3, <2>4
    <3>2. Stored(ResetBy(s, m), m) = Partial(c, id, 1)
      BY Zenon, <2>5, <2>6, <2>7, <3>1
    <3> QED
      BY Zenon, <1>2, <3>2
  <2>9. j # 4 /\ m.flag # "EXEC"
    BY <1>2, <2>2
  <2> QED
    BY Zenon, <2>8, <2>9
<1>3. CASE j = 2
  <2>1. m.id = id /\ m.type = "ARG" /\ m.flag = "NONE" /\ m.data = c
    BY <1>3, PieceShape DEF Packet
  <2>2. s = Partial(c, id, 1)
    BY <1>3
  <2>3. ResetBy(s, m) = s
    BY <1>1, <2>1, <2>2 DEF ResetBy, Partial
  <2>4. Stored(s, m) = [s EXCEPT !.args = Append(@, c)]
    BY <2>1 DEF Stored
  <2>5. [s EXCEPT !.args = Append(@, c)] = Partial(c, id, 2)
    BY <2>2 DEF Partial
  <2>6. j # 4 /\ m.flag # "EXEC"
    BY <1>3, <2>1
  <2> QED
    BY Zenon, <1>3, <2>3, <2>4, <2>5, <2>6
<1>4. CASE j = 3
  <2>1. m.id = id /\ m.type = "ENV" /\ m.flag = "NONE" /\ m.data = c
    BY <1>4, PieceShape DEF Packet
  <2>2. s = Partial(c, id, 2)
    BY <1>4
  <2>3. ResetBy(s, m) = s
    BY <1>1, <2>1, <2>2 DEF ResetBy, Partial
  <2>4. Stored(s, m) = [s EXCEPT !.env = Append(@, c)]
    BY <2>1 DEF Stored
  <2>5. [s EXCEPT !.env = Append(@, c)] = Partial(c, id, 3)
    BY <2>2 DEF Partial
  <2>6. j # 4 /\ m.flag # "EXEC"
    BY <1>4, <2>1
  <2> QED
    BY Zenon, <1>4, <2>3, <2>4, <2>5, <2>6
<1>5. CASE j = 4
  <2>1. m.id = id /\ m.type = "CWD" /\ m.flag = "EXEC" /\ m.data = c
    BY <1>5, PieceShape DEF Packet
  <2>2. s = Partial(c, id, 3)
    BY <1>5
  <2>3. ResetBy(s, m) = s
    BY <1>1, <2>1, <2>2 DEF ResetBy, Partial
  <2>4. Stored(s, m) = [s EXCEPT !.cwd = c]
    BY <2>1 DEF Stored
  <2>5. Started([s EXCEPT !.cwd = c]) = Program(c)
    BY <2>2 DEF Partial, Started, Program
  <2> QED
    BY <1>5, <2>1, <2>3, <2>4, <2>5
<1> QED
  BY <1>2, <1>3, <1>4, <1>5

\* a piece after the first finds the pieces before it in the slot
LEMMA SlotHas ==
  ASSUME CalmInv, NEW x \in Nodes, NEW m, Serves(x, m), NEW c \in Clients, NEW id \in Ids,
         NEW j \in 1 .. 4, m = Piece(c, id, j), x \notin dropped, NEW i \in SlotOf(x, id)
  PROVE  j = 1 \/ info[x][i] = Partial(c, id, j - 1)
<1> SUFFICES ASSUME j # 1 PROVE info[x][i] = Partial(c, id, j - 1)
  BY Zenon
<1>1. j \in 2 .. 4 /\ j - 1 \in 1 .. 4 /\ j - 1 < j
  OBVIOUS
<1>2. QueueInv(x) /\ ClientInv(c) /\ SlotInv(x)
  BY Zenon DEF CalmInv
<1>3. Out(x, c, id, j) /\ \A k \in 1 .. 4 : k < j => ~ Out(x, c, id, k)
  BY Zenon, <1>2, FirstServed
<1>4. PICK k \in Slots : info[x][k] = Partial(c, id, j - 1)
  BY Zenon, <1>1, <1>2, <1>3 DEF SlotInv
<1>5. info[x][k].id = id /\ id # EMPTY
  BY <1>4, IdsApart DEF Partial
<1>6. i \in Slots /\ info[x][i].id = id
  BY Zenon, <1>5, SlotIn
<1>7. i = k
  BY Zenon, <1>2, <1>5, <1>6 DEF SlotInv
<1> QED
  BY Zenon, <1>4, <1>7

\* slot i of node x, the one for session id, becomes t
Fills(x, i, id, t) ==
  /\ i \in Slots /\ info'[x][i] = t /\ \A k \in Slots : k # i => info'[x][k] = info[x][k]
  /\ \/ info[x][i].id = id
     \/ info[x][i].id = EMPTY /\ \A k \in Slots : info[x][k].id # id

\* the piece is stored: the pieces left still follow those in the slot
LEMMA FillSlots ==
  ASSUME CalmInv, NEW x \in Nodes, NEW m, Serves(x, m), NEW c \in Clients, NEW id \in Ids,
         NEW j \in 1 .. 4, m = Piece(c, id, j), x \notin dropped, NEW i, NEW t, Fills(x, i, id, t),
         j \in 1 .. 3 => t = Partial(c, id, j), j = 4 => t = Free,
         ran'[x] \subseteq ran[x] \cup {Program(c)}
  PROVE  SlotInv(x)'
<1>1. QueueInv(x) /\ ClientInv(c) /\ SlotInv(x) /\ ApartInv(x)
  BY Zenon DEF CalmInv
<1>2. /\ Out(x, c, id, j) /\ \A k \in 1 .. j : ~ Out(x, c, id, k)'
      /\ \A k \in 1 .. 4 : k < j => ~ Out(x, c, id, k)
  BY Zenon, <1>1, FirstServed
<1>3. From(m) = c /\ m.id = id /\ Rank(m) = j /\ id # EMPTY
  BY PieceIs, IdsApart
<1>4. t.id = id \/ t.id = EMPTY
  <2>1. j \in 1 .. 3 \/ j = 4
    OBVIOUS
  <2>2. Partial(c, id, j).id = id /\ Free.id = EMPTY
    BY DEF Partial, Free
  <2> QED
    BY Zenon, <2>1, <2>2
<1>5. ASSUME NEW k \in Slots, NEW l \in Slots, info'[x][k].id = info'[x][l].id
      PROVE  k = l \/ info'[x][k].id = EMPTY
  <2>1. ASSUME NEW a \in Slots, NEW b \in Slots, info[x][a].id = info[x][b].id
        PROVE  a = b \/ info[x][a].id = EMPTY
    BY Zenon, <1>1, <2>1 DEF SlotInv
  <2>2. ASSUME NEW b \in Slots, b # i PROVE info[x][b].id # id
    BY Zenon, <1>3, <2>1, <2>2 DEF Fills
  <2>3. info'[x][i] = t /\ \A b \in Slots : b # i => info'[x][b] = info[x][b]
    BY Zenon DEF Fills
  <2>4. CASE k = i /\ l # i
    BY Zenon, <1>4, <1>5, <2>2, <2>3, <2>4
  <2>5. CASE k # i /\ l = i
    BY Zenon, <1>4, <1>5, <2>2, <2>3, <2>5
  <2>6. CASE k # i /\ l # i
    BY Zenon, <1>5, <2>1, <2>3, <2>6
  <2> QED
    BY Zenon, <2>4, <2>5, <2>6
<1>6. ASSUME NEW p \in ran'[x] PROVE \E d \in Clients : p = Program(d)
  <2>1. p \in ran[x] \/ p = Program(c)
    BY Zenon
  <2> QED
    BY Zenon, <1>1, <2>1 DEF SlotInv
<1>7. ASSUME NEW d \in Clients, NEW e \in Ids, NEW k \in 2 .. 4, Out(x, d, e, k)'
      PROVE  \/ Out(x, d, e, k - 1)'
             \/ /\ \A q \in 1 .. k - 1 : ~ Out(x, d, e, q)'
                /\ \E h \in Slots : info'[x][h] = Partial(d, e, k - 1)
  <2>1. k \in 1 .. 4 /\ k - 1 \in 1 .. 4 /\ k - 1 + 1 = k /\ \A q \in 1 .. k - 1 : q \in 1 .. 4
    OBVIOUS
  <2>2. ASSUME NEW q PROVE (Out(x, d, e, q)' => Out(x, d, e, q))
                           /\ (Out(x, d, e, q) => Out(x, d, e, q)' \/ m = Piece(d, e, q))
    BY OutServed
  <2>3. Own(x, d, e) /\ (e = id => d = c)
    <3>1. Own(x, d, e)
      BY Zenon, <1>7, <2>1, <2>2, OutOwn
    <3>2. Own(x, d, id) => d = c
      BY Zenon, <1>1, <1>3, HeadOwn
    <3> QED
      BY Zenon, <3>1, <3>2
  <2>4. \/ Out(x, d, e, k - 1)
        \/ /\ \A q \in 1 .. k - 1 : ~ Out(x, d, e, q)
           /\ \E h \in Slots : info[x][h] = Partial(d, e, k - 1)
    BY Zenon, <1>1, <1>7, <2>2 DEF SlotInv
  <2>5. CASE Out(x, d, e, k - 1) /\ m # Piece(d, e, k - 1)
    BY Zenon, <2>2, <2>5
  <2>6. CASE m = Piece(d, e, k - 1)
    <3>1. d = c /\ e = id /\ k - 1 = j
      BY <1>3, <2>1, <2>6, PieceIs
    <3>2. j \in 1 .. 3 /\ t = Partial(c, id, j)
      BY <3>1
    <3> QED
      BY Zenon, <1>2, <3>1, <3>2 DEF Fills
  <2>7. CASE /\ \A q \in 1 .. k - 1 : ~ Out(x, d, e, q)
             /\ \E h \in Slots : info[x][h] = Partial(d, e, k - 1)
    <3>1. CASE e = id
      <4>1. ~ (j \in 1 .. k - 1) /\ ~ (k \in 1 .. j)
        BY Zenon, <1>2, <1>7, <2>3, <2>7, <3>1
      <4> QED
        BY <4>1
    <3>2. CASE e # id
      <4>1. PICK h \in Slots : info[x][h] = Partial(d, e, k - 1)
        BY Zenon, <2>7
      <4>2. info[x][h].id = e /\ e # EMPTY
        BY <4>1, IdsApart DEF Partial
      <4>3. h # i
        BY Zenon, <3>2, <4>2 DEF Fills
      <4> QED
        BY Zenon, <2>1, <2>2, <2>7, <4>1, <4>3 DEF Fills
    <3> QED
      BY Zenon, <3>1, <3>2
  <2> QED
    BY Zenon, <2>4, <2>5, <2>6, <2>7
<1> QED
  BY Zenon, <1>5, <1>6, <1>7 DEF SlotInv

-----------------------------------------------------------------------------
\* what axiom_session and axiom_spawn_req do with message m of node x: the
\* request is answered, or the answer is lost; a session is released; a piece
\* finds no slot, or is gathered in slot i
Answered(x, m, c) ==
  /\ AskOf(m, c) /\ Gives(x, next(x)) /\ info' = info /\ ran' = ran /\ dropped' = dropped
  /\ Answers(c, next(x)) /\ faults' = faults

Unanswered(x, m, c) ==
  /\ AskOf(m, c) /\ Gives(x, next(x)) /\ info' = info /\ ran' = ran /\ dropped' = dropped
  /\ replies' = replies /\ faults' = faults + 1

GivenBack(x, m) ==
  /\ Rank(m) = 5 /\ free' = [free EXCEPT ![x] = @ \cup {m.id}]
  /\ info' = info /\ ran' = ran /\ dropped' = dropped /\ replies' = replies /\ faults' = faults

TurnedAway(x, m) ==
  /\ Rank(m) \in 1 .. 4 /\ dropped' = dropped \cup {x}
  /\ free' = free /\ info' = info /\ ran' = ran /\ replies' = replies /\ faults' = faults

Gathered(x, m, i) ==
  /\ Rank(m) \in 1 .. 3 /\ i \in SlotOf(x, m.id)
  /\ info' = [info EXCEPT ![x][i] = Stored(ResetBy(info[x][i], m), m)]
  /\ free' = free /\ ran' = ran /\ dropped' = dropped /\ replies' = replies /\ faults' = faults

Spawned(x, m, i) ==
  /\ Rank(m) = 4 /\ i \in SlotOf(x, m.id)
  /\ info' = [info EXCEPT ![x][i] = Free] /\ free' = [free EXCEPT ![x] = @ \cup {m.id}]
  /\ \/ /\ ran' = [ran EXCEPT ![x] = @ \cup {Started(Stored(ResetBy(info[x][i], m), m))}]
        /\ faults' = faults
     \/ ran' = ran /\ faults' = faults + 1
  /\ dropped' = dropped /\ replies' = replies

Served(x, m) ==
  \/ \E c \in Clients : Answered(x, m, c) \/ Unanswered(x, m, c)
  \/ GivenBack(x, m) \/ TurnedAway(x, m)
  \/ \E i : Gathered(x, m, i) \/ Spawned(x, m, i)

\* the last packet of a spawn, and only that, is marked EXEC
LEMMA FlagIs ==
  ASSUME NEW m \in Msgs
  PROVE  /\ m.cmd = "SESSION_REQ" => Rank(m) = 0 \/ Rank(m) = 5
         /\ m.cmd = "SPAWN_REQ" => /\ Rank(m) \in 1 .. 4
                                   /\ m.flag = "EXEC" <=> Rank(m) = 4
<1>1. PICK c \in Clients, id \in Ids \cup {EMPTY}, j \in 0 .. 5 : From(m) = c /\ m.id = id /\ Rank(m) = j
  BY Zenon, MsgIs
<1>2. CASE j = 0 \/ j = 5
  <2>1. m = Request(id, c)
    BY Zenon, <1>1, <1>2, MsgIs
  <2>2. m.cmd = "SESSION_REQ"
    BY <2>1, RequestIs
  <2>3. "SESSION_REQ" # "SPAWN_REQ"
    OBVIOUS
  <2> QED
    BY Zenon, <1>1, <1>2, <2>2, <2>3
<1>3. CASE j \in 1 .. 4
  <2>1. m = Piece(c, id, j) /\ id \in Ids
    BY Zenon, <1>1, <1>3, MsgIs
  <2>2. m.cmd = "SPAWN_REQ"
    BY <1>3, <2>1, PieceIs
  <2>3. m.flag = "EXEC" <=> j = 4
    <3>1. j = 1 \/ j = 2 \/ j = 3 \/ j = 4
      BY <1>3
    <3>2. CASE j = 1
      BY <2>1, <3>2, PieceShape DEF Packet
    <3>3. CASE j = 2
      BY <2>1, <3>3, PieceShape DEF Packet
    <3>4. CASE j = 3
      BY <2>1, <3>4, PieceShape DEF Packet
    <3>5. CASE j = 4
      BY <2>1, <3>5, PieceShape DEF Packet
    <3> QED
      BY Zenon, <3>1, <3>2, <3>3, <3>4, <3>5
  <2>4. "SESSION_REQ" # "SPAWN_REQ"
    OBVIOUS
  <2> QED
    BY Zenon, <1>1, <1>3, <2>2, <2>3, <2>4
<1>4. j = 0 \/ j = 5 \/ j \in 1 .. 4
  OBVIOUS
<1> QED
  BY Zenon, <1>2, <1>3, <1>4

\* Serve is one of these
LEMMA ServeIs ==
  ASSUME CalmInv, NEW x \in Nodes, Serve(x)
  PROVE  \E m : Serves(x, m) /\ Served(x, m)
<1>1. /\ initq[x] # << >> /\ initq' = [initq EXCEPT ![x] = Tail(@)]
      /\ axiom_session(x, Head(initq[x])) \/ axiom_spawn_req(x, Head(initq[x]))
      /\ pc' = pc /\ node' = node /\ session' = session /\ todo' = todo /\ started' = started
  BY Zenon DEF Serve, client
<1>2. SessionsTypeOK
  BY Zenon DEF CalmInv
<1>3. PICK m : m = Head(initq[x])
  BY Zenon
<1>4. Serves(x, m)
  BY Zenon, <1>1, <1>2, <1>3, ServeShrinks DEF Serves
<1>5. m \in Msgs /\ From(m) \in Clients
  BY Zenon, <1>4, MsgIs DEF Serves
<1>6. free[x] \in SUBSET Ids /\ free \in [Nodes -> SUBSET Ids]
  BY Zenon, <1>2 DEF SessionsTypeOK
<1>7. ASSUME axiom_session(x, m) PROVE Served(x, m)
  <2>1. /\ m.cmd = "SESSION_REQ" /\ info' = info /\ ran' = ran /\ dropped' = dropped
    BY Zenon, <1>7 DEF axiom_session
  <2>2. Rank(m) = 0 \/ Rank(m) = 5
    BY Zenon, <1>5, <2>1, FlagIs
  <2>3. CASE Rank(m) = 0
    <3>1. m = Request(EMPTY, From(m)) /\ m.id = EMPTY
      BY Zenon, <1>5, <2>3, MsgIs
    <3>2. m.from = From(m)
      BY Zenon, <2>1 DEF From
    <3>3. Gives(x, next(x)) /\ next(x) \in Ids \cup {EMPTY}
      BY Zenon, <1>6, <1>7, <3>1, NextIs DEF axiom_session, Gives
    <3>4. \/ replies' = [replies EXCEPT ![From(m)] = Append(@, next(x))] /\ faults' = faults
          \/ replies' = replies /\ faults' = faults + 1
      BY Zenon, <1>7, <3>1, <3>2 DEF axiom_session, Fault
    <3>5. Answered(x, m, From(m)) \/ Unanswered(x, m, From(m))
      BY Zenon, <2>1, <3>1, <3>3, <3>4 DEF Answered, Unanswered, AskOf, Answers
    <3> QED
      BY Zenon, <1>5, <3>5 DEF Served
  <2>4. CASE Rank(m) = 5
    <3>1. m.id \in Ids /\ m.id # EMPTY
      BY Zenon, <1>5, <2>4, MsgIs, IdsApart
    <3>2. /\ free' = [free EXCEPT ![x] = IF used(x, m.id) THEN @ \cup {m.id} ELSE @]
          /\ replies' = replies /\ faults' = faults
      BY Zenon, <1>7, <3>1 DEF axiom_session
    <3>3. free' = [free EXCEPT ![x] = @ \cup {m.id}]
      <4>1. CASE used(x, m.id)
        BY Zenon, <3>2, <4>1
      <4>2. CASE ~ used(x, m.id)
        <5>1. free[x] \cup {m.id} = free[x] /\ free' = [free EXCEPT ![x] = @]
          BY Zenon, <3>1, <3>2, <4>2 DEF used
        <5> QED
          BY Zenon, <1>6, <5>1
      <4> QED
        BY Zenon, <4>1, <4>2
    <3>4. GivenBack(x, m)
      BY Zenon, <2>1, <2>4, <3>2, <3>3 DEF GivenBack
    <3> QED
      BY Zenon, <3>4 DEF Served
  <2> QED
    BY Zenon, <2>2, <2>3, <2>4
<1>8. ASSUME axiom_spawn_req(x, m) PROVE Served(x, m)
  <2>1. m.cmd = "SPAWN_REQ" /\ replies' = replies
    BY Zenon, <1>8 DEF axiom_spawn_req
  <2>2. Rank(m) \in 1 .. 4 /\ (m.flag = "EXEC" <=> Rank(m) = 4)
    BY Zenon, <1>5, <2>1, FlagIs
  <2>3. m.id \in Ids
    BY Zenon, <1>5, <2>2, MsgIs
  <2>4. used(x, m.id)
    <3>1. ApartInv(x)
      BY Zenon DEF CalmInv
    <3> QED
      BY Zenon, <1>4, <1>5, <2>3, <3>1, HeadOwn DEF used
  <2>5. CASE SlotOf(x, m.id) = {}
    <3>1. TurnedAway(x, m)
      BY Zenon, <1>8, <2>1, <2>2, <2>4, <2>5 DEF axiom_spawn_req, TurnedAway
    <3> QED
      BY Zenon, <3>1 DEF Served
  <2>6. CASE SlotOf(x, m.id) # {}
    <3>1. PICK i \in SlotOf(x, m.id) :
            LET s == Stored(ResetBy(info[x][i], m), m)
            IN IF m.flag = "EXEC"
               THEN daemonize(x, s) /\ SlotDone(x, i, m.id) /\ UNCHANGED dropped
               ELSE /\ info' = [info EXCEPT ![x][i] = s]
                    /\ UNCHANGED <<free, ran, copies, dropped, faults>>
      BY Zenon, <1>8, <2>4, <2>6 DEF axiom_spawn_req
    <3>2. CASE Rank(m) = 4
      <4>1. Spawned(x, m, i)
        BY Zenon, <2>1, <2>2, <3>1, <3>2 DEF Spawned, daemonize, SlotDone, Fault
      <4> QED
        BY Zenon, <4>1 DEF Served
    <3>3. CASE Rank(m) # 4
      <4>1. Rank(m) \in 1 .. 3
        BY <2>2, <3>3
      <4>2. Gathered(x, m, i)
        BY Zenon, <2>1, <2>2, <3>1, <3>3, <4>1 DEF Gathered
      <4> QED
        BY Zenon, <4>2 DEF Served
    <3> QED
      BY Zenon, <3>2, <3>3
  <2> QED
    BY Zenon, <2>5, <2>6
<1> QED
  BY Zenon, <1>1, <1>3, <1>4, <1>7, <1>8

\* the type, once the variables axiom-init changes have theirs
LEMMA ServedType ==
  ASSUME SessionsTypeOK, NEW x, NEW m, Serves(x, m), free' \in [Nodes -> SUBSET Ids],
         info' = [n \in Nodes |-> [i \in Slots |-> info'[n][i]]], ran' = [n \in Nodes |-> ran'[n]],
         replies' \in [Clients -> Seq(Ids \cup {EMPTY})], faults' \in Nat
  PROVE  SessionsTypeOK'
BY Zenon DEF SessionsTypeOK, Serves

\* axiom-init answers a request
LEMMA AnsweredKeeps ==
  ASSUME CalmInv, NEW x \in Nodes, NEW m, Serves(x, m), NEW c \in Clients, Answered(x, m, c)
  PROVE  CalmInv'
<1>1. SessionsTypeOK
  BY Zenon DEF CalmInv
<1>2. /\ AskOf(m, c) /\ Gives(x, next(x)) /\ Answers(c, next(x))
      /\ info' = info /\ ran' = ran /\ dropped' = dropped /\ faults' = faults
  BY Zenon DEF Answered
<1>3. /\ replies' \in [Clients -> Seq(Ids \cup {EMPTY})] /\ \A d \in Clients : ClientInv(d)'
      /\ \A n \in Nodes : QueueInv(n)' /\ ApartInv(n)'
  BY Zenon, <1>2, AnswerServed
<1>4. free' \in [Nodes -> SUBSET Ids]
  BY <1>1, <1>2 DEF SessionsTypeOK, Gives
<1>5. SessionsTypeOK'
  <2>1. /\ info' = [n \in Nodes |-> [i \in Slots |-> info'[n][i]]] /\ ran' = [n \in Nodes |-> ran'[n]]
        /\ faults' \in Nat
    BY Zenon, <1>1, <1>2 DEF SessionsTypeOK
  <2> QED
    BY Zenon, <1>1, <1>3, <1>4, <2>1, ServedType
<1>6. ASSUME NEW n \in Nodes, n \notin dropped' PROVE SlotInv(n)'
  <2>1. Rank(m) \notin 1 .. 4
    <3>1. Rank(m) = 0
      BY <1>2, RequestIs DEF AskOf
    <3> QED
      BY <3>1
  <2>2. n \notin dropped /\ info'[n] = info[n] /\ ran'[n] = ran[n]
    BY Zenon, <1>2, <1>6
  <2> QED
    BY Zenon, <2>1, <2>2, ServedSlots
<1> QED
  BY Zenon, <1>3, <1>5, <1>6 DEF CalmInv

\* the answer is lost: the session stays in use for ever
LEMMA UnansweredKeeps ==
  ASSUME CalmInv, NEW x \in Nodes, NEW m, Serves(x, m), NEW c \in Clients, Unanswered(x, m, c)
  PROVE  CalmInv'
<1>1. SessionsTypeOK
  BY Zenon DEF CalmInv
<1>2. /\ AskOf(m, c) /\ Gives(x, next(x)) /\ replies' = replies
      /\ info' = info /\ ran' = ran /\ dropped' = dropped /\ faults' = faults + 1
  BY Zenon DEF Unanswered
<1>3. /\ free' \in [Nodes -> SUBSET Ids] /\ \A n \in Nodes : n # x => free'[n] = free[n]
      /\ free'[x] \subseteq free[x]
  BY <1>1, <1>2 DEF SessionsTypeOK, Gives
<1>4. /\ \A d \in Clients : ClientInv(d)'
      /\ \A n \in Nodes : QueueInv(n)' /\ ApartInv(n)'
  BY Zenon, <1>2, <1>3, ServedApart
<1>5. SessionsTypeOK'
  <2>1. /\ info' = [n \in Nodes |-> [i \in Slots |-> info'[n][i]]] /\ ran' = [n \in Nodes |-> ran'[n]]
        /\ replies' \in [Clients -> Seq(Ids \cup {EMPTY})]
    BY Zenon, <1>1, <1>2 DEF SessionsTypeOK
  <2>2. faults' \in Nat
    BY <1>1, <1>2 DEF SessionsTypeOK
  <2> QED
    BY Zenon, <1>1, <1>3, <2>1, <2>2, ServedType
<1>6. ASSUME NEW n \in Nodes, n \notin dropped' PROVE SlotInv(n)'
  <2>1. Rank(m) \notin 1 .. 4
    <3>1. Rank(m) = 0
      BY <1>2, RequestIs DEF AskOf
    <3> QED
      BY <3>1
  <2>2. n \notin dropped /\ info'[n] = info[n] /\ ran'[n] = ran[n]
    BY Zenon, <1>2, <1>6
  <2> QED
    BY Zenon, <2>1, <2>2, ServedSlots
<1> QED
  BY Zenon, <1>4, <1>5, <1>6 DEF CalmInv

\* a session is released
LEMMA GivenBackKeeps ==
  ASSUME CalmInv, NEW x \in Nodes, NEW m, Serves(x, m), GivenBack(x, m)
  PROVE  CalmInv'
<1>1. SessionsTypeOK /\ m \in Msgs
  BY Zenon DEF CalmInv, Serves
<1>2. /\ Rank(m) = 5 /\ free' = [free EXCEPT ![x] = @ \cup {m.id}] /\ replies' = replies
      /\ info' = info /\ ran' = ran /\ dropped' = dropped /\ faults' = faults
  BY Zenon DEF GivenBack
<1>3. m.id \in Ids
  BY Zenon, <1>1, <1>2, MsgIs
<1>4. /\ free' \in [Nodes -> SUBSET Ids] /\ \A n \in Nodes : n # x => free'[n] = free[n]
      /\ free'[x] = free[x] \cup {m.id}
  BY <1>1, <1>2, <1>3 DEF SessionsTypeOK
<1>5. /\ \A d \in Clients : ClientInv(d)'
      /\ \A n \in Nodes : QueueInv(n)' /\ ApartInv(n)'
  BY Zenon, <1>2, <1>4, ServedApart
<1>6. SessionsTypeOK'
  <2>1. /\ info' = [n \in Nodes |-> [i \in Slots |-> info'[n][i]]] /\ ran' = [n \in Nodes |-> ran'[n]]
        /\ replies' \in [Clients -> Seq(Ids \cup {EMPTY})] /\ faults' \in Nat
    BY Zenon, <1>1, <1>2 DEF SessionsTypeOK
  <2> QED
    BY Zenon, <1>1, <1>4, <2>1, ServedType
<1>7. ASSUME NEW n \in Nodes, n \notin dropped' PROVE SlotInv(n)'
  <2>1. Rank(m) \notin 1 .. 4
    BY <1>2
  <2>2. n \notin dropped /\ info'[n] = info[n] /\ ran'[n] = ran[n]
    BY Zenon, <1>2, <1>7
  <2> QED
    BY Zenon, <2>1, <2>2, ServedSlots
<1> QED
  BY Zenon, <1>5, <1>6, <1>7 DEF CalmInv

\* a piece is lost for want of a slot
LEMMA TurnedAwayKeeps ==
  ASSUME CalmInv, NEW x \in Nodes, NEW m, Serves(x, m), TurnedAway(x, m)
  PROVE  CalmInv'
<1>1. SessionsTypeOK
  BY Zenon DEF CalmInv
<1>2. /\ dropped' = dropped \cup {x} /\ free' = free /\ replies' = replies
      /\ info' = info /\ ran' = ran /\ faults' = faults
  BY Zenon DEF TurnedAway
<1>3. /\ free' \in [Nodes -> SUBSET Ids] /\ \A n \in Nodes : n # x => free'[n] = free[n]
      /\ free'[x] \subseteq free[x]
  BY Zenon, <1>1, <1>2 DEF SessionsTypeOK
<1>4. /\ \A d \in Clients : ClientInv(d)'
      /\ \A n \in Nodes : QueueInv(n)' /\ ApartInv(n)'
  BY Zenon, <1>2, <1>3, ServedApart
<1>5. SessionsTypeOK'
  <2>1. /\ info' = [n \in Nodes |-> [i \in Slots |-> info'[n][i]]] /\ ran' = [n \in Nodes |-> ran'[n]]
        /\ replies' \in [Clients -> Seq(Ids \cup {EMPTY})] /\ faults' \in Nat
    BY Zenon, <1>1, <1>2 DEF SessionsTypeOK
  <2> QED
    BY Zenon, <1>1, <1>3, <2>1, ServedType
<1>6. ASSUME NEW n \in Nodes, n \notin dropped' PROVE SlotInv(n)'
  <2>1. n # x /\ n \notin dropped /\ info'[n] = info[n] /\ ran'[n] = ran[n]
    BY Zenon, <1>2, <1>6
  <2> QED
    BY Zenon, <2>1, ServedSlots
<1> QED
  BY Zenon, <1>4, <1>5, <1>6 DEF CalmInv

\* axiom_spawn_req changes one slot of its node
LEMMA FillsIs ==
  ASSUME SessionsTypeOK, NEW x \in Nodes, NEW id, NEW i \in SlotOf(x, id), NEW t,
         info' = [info EXCEPT ![x][i] = t]
  PROVE  /\ Fills(x, i, id, t) /\ \A n \in Nodes : n # x => info'[n] = info[n]
         /\ info' = [n \in Nodes |-> [k \in Slots |-> info'[n][k]]]
<1>1. info = [n \in Nodes |-> [k \in Slots |-> info[n][k]]]
  BY Zenon DEF SessionsTypeOK
<1>2. /\ i \in Slots
      /\ \/ info[x][i].id = id
         \/ info[x][i].id = EMPTY /\ \A k \in Slots : info[x][k].id # id
  BY Zenon, SlotIn
<1>3. info' = [info EXCEPT ![x] = [info[x] EXCEPT ![i] = t]]
  OBVIOUS
<1>4. info[x] = [k \in Slots |-> info[x][k]]
  BY Zenon, <1>1
<1>5. PICK u : u = [info[x] EXCEPT ![i] = t]
  BY Zenon
<1>6. u = [k \in Slots |-> u[k]] /\ u[i] = t /\ \A k \in Slots : k # i => u[k] = info[x][k]
  BY <1>2, <1>4, <1>5
<1>7. info' = [info EXCEPT ![x] = u]
  BY Zenon, <1>3, <1>5
<1>8. info'[x] = u /\ \A n \in Nodes : n # x => info'[n] = info[n]
  BY <1>1, <1>7
<1>9. info' = [n \in Nodes |-> info'[n]]
  BY Zenon, <1>1, <1>7
<1>10. \A n \in Nodes : info'[n] = [k \in Slots |-> info'[n][k]]
  <2>1. \A n \in Nodes : info[n] = [k \in Slots |-> info[n][k]]
    BY Zenon, <1>1
  <2> QED
    BY Zenon, <1>6, <1>8, <2>1
<1>11. info' = [n \in Nodes |-> [k \in Slots |-> info'[n][k]]]
  BY Zenon, <1>9, <1>10
<1>12. Fills(x, i, id, t)
  BY Zenon, <1>2, <1>6, <1>8 DEF Fills
<1> QED
  BY Zenon, <1>8, <1>11, <1>12

\* a piece that is not the last is gathered
LEMMA GatheredKeeps ==
  ASSUME CalmInv, NEW x \in Nodes, NEW m, Serves(x, m), NEW i, Gathered(x, m, i)
  PROVE  CalmInv'
<1>1. SessionsTypeOK /\ m \in Msgs
  BY Zenon DEF CalmInv, Serves
<1>2. /\ Rank(m) \in 1 .. 3 /\ i \in SlotOf(x, m.id) /\ free' = free /\ ran' = ran
      /\ dropped' = dropped /\ replies' = replies /\ faults' = faults
  BY Zenon DEF Gathered
<1>3. PICK t : t = Stored(ResetBy(info[x][i], m), m) /\ info' = [info EXCEPT ![x][i] = t]
  BY Zenon DEF Gathered
<1>4. /\ Fills(x, i, m.id, t) /\ \A n \in Nodes : n # x => info'[n] = info[n]
      /\ info' = [n \in Nodes |-> [k \in Slots |-> info'[n][k]]]
  BY Zenon, <1>1, <1>2, <1>3, FillsIs
<1>5. /\ free' \in [Nodes -> SUBSET Ids] /\ \A n \in Nodes : n # x => free'[n] = free[n]
      /\ free'[x] \subseteq free[x]
  BY Zenon, <1>1, <1>2 DEF SessionsTypeOK
<1>6. /\ \A d \in Clients : ClientInv(d)'
      /\ \A n \in Nodes : QueueInv(n)' /\ ApartInv(n)'
  BY Zenon, <1>2, <1>5, ServedApart
<1>7. SessionsTypeOK'
  <2>1. /\ ran' = [n \in Nodes |-> ran'[n]]
        /\ replies' \in [Clients -> Seq(Ids \cup {EMPTY})] /\ faults' \in Nat
    BY Zenon, <1>1, <1>2 DEF SessionsTypeOK
  <2> QED
    BY Zenon, <1>1, <1>4, <1>5, <2>1, ServedType
<1>8. ASSUME x \notin dropped PROVE SlotInv(x)'
  <2>1. PICK c \in Clients, id \in Ids, j \in 1 .. 4 :
          j \in 1 .. 3 /\ m = Piece(c, id, j) /\ m.id = id
    <3>1. Rank(m) \in 1 .. 4
      BY <1>2
    <3>2. From(m) \in Clients /\ m.id \in Ids /\ m = Piece(From(m), m.id, Rank(m))
      BY Zenon, <1>1, <3>1, MsgIs
    <3> QED
      BY Zenon, <1>2, <3>1, <3>2
  <2>2. j = 1 \/ info[x][i] = Partial(c, id, j - 1)
    <3>1. i \in SlotOf(x, id) /\ m = Piece(c, id, j)
      BY Zenon, <1>2, <2>1
    <3> QED
      BY <1>8, <3>1, SlotHas
  <2>3. t = Partial(c, id, j)
    BY <1>3, <2>1, <2>2, StoredIs
  <2>4. j # 4 /\ ran'[x] \subseteq ran[x] \cup {Program(c)} /\ Fills(x, i, id, t)
    BY <1>2, <1>4, <2>1
  <2> QED
    BY Zenon, <1>8, <2>1, <2>3, <2>4, FillSlots
<1>9. ASSUME NEW n \in Nodes, n \notin dropped', n # x PROVE SlotInv(n)'
  <2>1. n \notin dropped /\ info'[n] = info[n] /\ ran'[n] = ran[n]
    BY Zenon, <1>2, <1>4, <1>9
  <2> QED
    BY Zenon, <1>9, <2>1, ServedSlots
<1> QED
  BY Zenon, <1>2, <1>6, <1>7, <1>8, <1>9 DEF CalmInv

\* the last piece: the program is started, the slot and the session are free
LEMMA SpawnedKeeps ==
  ASSUME CalmInv, NEW x \in Nodes, NEW m, Serves(x, m), NEW i, Spawned(x, m, i)
  PROVE  CalmInv'
<1>1. SessionsTypeOK /\ m \in Msgs
  BY Zenon DEF CalmInv, Serves
<1>2. /\ Rank(m) = 4 /\ i \in SlotOf(x, m.id) /\ free' = [free EXCEPT ![x] = @ \cup {m.id}]
      /\ info' = [info EXCEPT ![x][i] = Free] /\ dropped' = dropped /\ replies' = replies
  BY Zenon DEF Spawned
<1>3. PICK p : /\ p = Started(Stored(ResetBy(info[x][i], m), m))
               /\ \/ ran' = [ran EXCEPT ![x] = @ \cup {p}] /\ faults' = faults
                  \/ ran' = ran /\ faults' = faults + 1
  BY Zenon DEF Spawned
<1>4. /\ Fills(x, i, m.id, Free) /\ \A n \in Nodes : n # x => info'[n] = info[n]
      /\ info' = [n \in Nodes |-> [k \in Slots |-> info'[n][k]]]
  BY Zenon, <1>1, <1>2, FillsIs
<1>5. From(m) \in Clients /\ m.id \in Ids /\ m = Piece(From(m), m.id, 4)
  <2>1. Rank(m) \in 1 .. 4
    BY <1>2
  <2> QED
    BY Zenon, <1>1, <1>2, <2>1, MsgIs
<1>6. /\ free' \in [Nodes -> SUBSET Ids] /\ \A n \in Nodes : n # x => free'[n] = free[n]
      /\ free'[x] = free[x] \cup {m.id}
  BY <1>1, <1>2, <1>5 DEF SessionsTypeOK
<1>7. /\ \A d \in Clients : ClientInv(d)'
      /\ \A n \in Nodes : QueueInv(n)' /\ ApartInv(n)'
  BY Zenon, <1>2, <1>6, ServedApart
<1>8. /\ ran' = [n \in Nodes |-> ran'[n]] /\ \A n \in Nodes : n # x => ran'[n] = ran[n]
      /\ ran'[x] \subseteq ran[x] \cup {p} /\ faults' \in Nat
  <2>1. ran = [n \in Nodes |-> ran[n]] /\ faults \in Nat
    BY Zenon, <1>1 DEF SessionsTypeOK
  <2>2. CASE ran' = [ran EXCEPT ![x] = @ \cup {p}] /\ faults' = faults
    BY Zenon, <2>1, <2>2
  <2>3. CASE ran' = ran /\ faults' = faults + 1
    BY <2>1, <2>3
  <2> QED
    BY Zenon, <1>3, <2>2, <2>3
<1>9. SessionsTypeOK'
  <2>1. replies' \in [Clients -> Seq(Ids \cup {EMPTY})]
    BY Zenon, <1>1, <1>2 DEF SessionsTypeOK
  <2> QED
    BY Zenon, <1>1, <1>4, <1>6, <1>8, <2>1, ServedType
<1>10. ASSUME x \notin dropped PROVE SlotInv(x)'
  <2>1. PICK c \in Clients, id \in Ids, j \in 1 .. 4 : j = 4 /\ m = Piece(c, id, j) /\ m.id = id
    <3>1. 4 \in 1 .. 4
      OBVIOUS
    <3> QED
      BY Zenon, <1>5, <3>1
  <2>2. j = 1 \/ info[x][i] = Partial(c, id, j - 1)
    <3>1. i \in SlotOf(x, id)
      BY Zenon, <1>2, <2>1
    <3> QED
      BY Zenon, <1>10, <2>1, <3>1, SlotHas
  <2>3. p = Program(c)
    BY <1>3, <2>1, <2>2, StoredIs
  <2>4. j \notin 1 .. 3 /\ ran'[x] \subseteq ran[x] \cup {Program(c)} /\ Fills(x, i, id, Free)
    BY <1>4, <1>8, <2>1, <2>3
  <2> QED
    BY Zenon, <1>10, <2>1, <2>4, FillSlots
<1>11. ASSUME NEW n \in Nodes, n \notin dropped', n # x PROVE SlotInv(n)'
  <2>1. n \notin dropped /\ info'[n] = info[n] /\ ran'[n] = ran[n]
    BY Zenon, <1>2, <1>4, <1>8, <1>11
  <2> QED
    BY Zenon, <1>11, <2>1, ServedSlots
<1> QED
  BY Zenon, <1>2, <1>7, <1>9, <1>10, <1>11 DEF CalmInv

\* axiom-init keeps sessions and spawns apart
LEMMA ServeKeeps ==
  ASSUME CalmInv, NEW x \in Nodes, NEW m, Serves(x, m), Served(x, m)
  PROVE  CalmInv'
BY Zenon, AnsweredKeeps, UnansweredKeeps, GivenBackKeeps, TurnedAwayKeeps, GatheredKeeps,
   SpawnedKeeps DEF Served
=============================================================================
