--------------------------- MODULE SessionsProofs ---------------------------
(***************************************************************************)
(* Remote execution: as long as nothing fails axiom-init loses nothing, and *)
(* the theorems about the sessions.                                        *)
(***************************************************************************)
EXTENDS SessionsServe, FiniteSetTheorems, TLAPS

\* what a client waits for, when the message served is not its request
LEMMA AnswerSame ==
  ASSUME NEW x \in Nodes, NEW m, Serves(x, m), NEW d \in Clients, ClientInv(d), AnswerInv(d),
         ~ AskOf(m, d), replies'[d] = replies[d]
  PROVE  AnswerInv(d)'
<1>1. pc'[d] = pc[d] /\ node'[d] = node[d]
  BY Zenon DEF Serves
<1>2. ASSUME NEW n \in Nodes
      PROVE  Waits(n, Request(EMPTY, d))' <=> Waits(n, Request(EMPTY, d))
  <2>1. \A p : Waits(n, p) <=> (Waits(n, p)' \/ (n = x /\ p = m))
    BY Zenon, ShrinksBy DEF Serves
  <2>2. Request(EMPTY, d) # m
    BY Zenon DEF AskOf
  <2> QED
    BY Zenon, <2>1, <2>2
<1>3. CASE pc[d] = "reply"
  <2>1. PICK y \in Nodes : y = node[d]
    BY Zenon, <1>3 DEF ClientInv
  <2>2. Waits(node[d], Request(EMPTY, d))' <=> Waits(node[d], Request(EMPTY, d))
    BY Zenon, <1>1, <1>2, <2>1 DEF Waits
  <2> QED
    BY Zenon, <1>1, <1>2, <2>2 DEF AnswerInv
<1>4. CASE pc[d] # "reply"
  BY Zenon, <1>1, <1>2, <1>4 DEF AnswerInv
<1> QED
  BY Zenon, <1>3, <1>4

\* sessions in use have a client, and nothing else changes
LEMMA KeptSame ==
  ASSUME NEW x \in Nodes, NEW m, Serves(x, m), NEW n \in Nodes, n # x \/ Rank(m) \notin 1 .. 4,
         KeptAt(n), info'[n] = info[n], ran'[n] = ran[n],
         \A id \in Ids \ free'[n] : \E c \in Clients : Own(n, c, id)'
  PROVE  KeptAt(n)'
<1>1. \A d \in Clients, id \in Ids : \A j \in 1 .. 4 : Out(n, d, id, j)' <=> Out(n, d, id, j)
  BY Zenon, OutSame
<1>2. started' = started /\ 4 \in 1 .. 4
  <2>1. 4 \in 1 .. 4
    OBVIOUS
  <2> QED
    BY Zenon, <2>1 DEF Serves
<1>3. \A d \in Clients, id \in Ids : Out(n, d, id, 4)' <=> Out(n, d, id, 4)
  BY Zenon, <1>1, <1>2
<1>4. \A d \in Clients, id \in Ids : \A j \in 1 .. 4 : Out(n, d, id, j)' => Out(n, d, id, 4)'
  BY Zenon, <1>1, <1>3 DEF KeptAt
<1>5. ASSUME NEW d \in Clients, NEW id \in Ids, Waits(n, Piece(d, id, 4))' PROVE n \in started'[d]
  <2>1. \A p : Waits(n, p)' => Waits(n, p)
    BY Zenon, ShrinksBy DEF Serves
  <2> QED
    BY Zenon, <1>2, <1>5, <2>1 DEF KeptAt
<1>6. ASSUME NEW i \in Slots
      PROVE  \/ info'[n][i] = Free
             \/ info'[n][i].id \in Ids /\ \E d \in Clients : Out(n, d, info[n][i].id, 4)'
  <2>1. CASE info[n][i] = Free
    BY Zenon, <2>1
  <2>2. CASE info[n][i] # Free
    <3>1. PICK id \in Ids : id = info[n][i].id /\ \E d \in Clients : Out(n, d, id, 4)
      <4>1. info[n][i].id \in Ids /\ \E d \in Clients : Out(n, d, info[n][i].id, 4)
        BY Zenon, <2>2 DEF KeptAt
      <4> QED
        BY Zenon, <4>1
    <3>2. \E d \in Clients : Out(n, d, id, 4)'
      BY Zenon, <1>3, <3>1
    <3>3. info'[n][i].id = id
      BY Zenon, <3>1
    <3> QED
      BY Zenon, <3>1, <3>2, <3>3 DEF Out
  <2> QED
    BY Zenon, <2>1, <2>2
<1>7. ASSUME NEW d \in Clients, n \in started'[d]
      PROVE  Program(d) \in ran'[n] \/ \E id \in Ids : Out(n, d, id, 4)'
  BY Zenon, <1>2, <1>3, <1>7 DEF KeptAt
<1>8. \A p \in ran'[n] : \E d \in Clients : p = Program(d) /\ n \in started'[d]
  BY Zenon, <1>2 DEF KeptAt
<1> QED
  BY Zenon, <1>4, <1>5, <1>6, <1>7, <1>8 DEF KeptAt

\* a piece to come has its session in use, after the step too
LEMMA OutOwnNext ==
  ASSUME NEW n, NEW c \in Clients, NEW id \in Ids, NEW j \in 1 .. 4, Out(n, c, id, j)'
  PROVE  Own(n, c, id)'
<1>1. From(Piece(c, id, j)) = c /\ Piece(c, id, j).id = id
  BY PieceIs
<1>2. Waits(n, Piece(c, id, j))' => Queued(n, c, id)'
  BY Zenon, <1>1 DEF Waits, Queued
<1>3. pc'[c] = "send" => Holds(c)'
  BY DEF Holds
<1> QED
  BY Zenon, <1>2, <1>3 DEF Out, Own

\* a piece is gathered: its spawn goes on
LEMMA GatheredLoses ==
  ASSUME CalmInv, NEW x \in Nodes, NEW m, Serves(x, m), NEW i, Gathered(x, m, i), x \notin dropped,
         KeptAt(x)
  PROVE  KeptAt(x)'
<1>1. SessionsTypeOK /\ m \in Msgs /\ started' = started /\ QueueInv(x) /\ ApartInv(x)
  BY Zenon DEF CalmInv, Serves
<1>2. /\ Rank(m) \in 1 .. 3 /\ i \in SlotOf(x, m.id) /\ free' = free /\ ran' = ran /\ replies' = replies
  BY Zenon DEF Gathered
<1>3. PICK t : t = Stored(ResetBy(info[x][i], m), m) /\ info' = [info EXCEPT ![x][i] = t]
  BY Zenon DEF Gathered
<1>4. PICK c \in Clients, id \in Ids, j \in 1 .. 4 :
        j \in 1 .. 3 /\ m = Piece(c, id, j) /\ m.id = id /\ From(m) = c /\ Rank(m) = j
  <2>1. Rank(m) \in 1 .. 4
    BY <1>2
  <2>2. From(m) \in Clients /\ m.id \in Ids /\ m = Piece(From(m), m.id, Rank(m))
    BY Zenon, <1>1, <2>1, MsgIs
  <2> QED
    BY Zenon, <1>2, <2>1, <2>2
<1>5. 4 \in 1 .. 4 /\ j # 4 /\ ClientInv(c)
  <2>1. 4 \in 1 .. 4 /\ j # 4
    BY <1>4
  <2> QED
    BY Zenon, <2>1 DEF CalmInv
<1>6. ASSUME NEW d \in Clients, NEW e \in Ids
      PROVE  /\ Out(x, d, e, 4)' <=> Out(x, d, e, 4)
             /\ \A k \in 1 .. 4 : Out(x, d, e, k)' => Out(x, d, e, k)
  <2>1. \A k : (Out(x, d, e, k)' => Out(x, d, e, k))
               /\ (Out(x, d, e, k) => Out(x, d, e, k)' \/ m = Piece(d, e, k))
    BY OutServed
  <2>2. Rank(Piece(d, e, 4)) = 4
    BY PieceIs
  <2> QED
    BY Zenon, <1>4, <1>5, <2>1, <2>2
<1>7. Out(x, c, id, 4)'
  <2>1. Out(x, c, id, j)
    BY <1>1, <1>4, <1>5, FirstServed
  <2>2. Out(x, c, id, 4)
    BY Zenon, <2>1 DEF KeptAt
  <2> QED
    BY Zenon, <1>6, <2>2
<1>8. /\ i \in Slots /\ info'[x][i] = t /\ \A k \in Slots : k # i => info'[x][k] = info[x][k]
  <2>1. Fills(x, i, m.id, t)
    BY Zenon, <1>1, <1>2, <1>3, FillsIs
  <2> QED
    BY Zenon, <2>1 DEF Fills
<1>9. t.id = id
  <2>1. i \in SlotOf(x, id) /\ m = Piece(c, id, j)
    BY Zenon, <1>2, <1>4
  <2>2. j = 1 \/ info[x][i] = Partial(c, id, j - 1)
    BY <2>1, SlotHas
  <2>3. t = Partial(c, id, j)
    BY <1>3, <1>4, <2>2, StoredIs
  <2> QED
    BY <2>3 DEF Partial
<1>10. \A d \in Clients, e \in Ids : \A k \in 1 .. 4 : Out(x, d, e, k)' => Out(x, d, e, 4)'
  BY Zenon, <1>6 DEF KeptAt
<1>11. ASSUME NEW d \in Clients, NEW e \in Ids, Waits(x, Piece(d, e, 4))' PROVE x \in started'[d]
  <2>1. \A p : Waits(x, p)' => Waits(x, p)
    BY Zenon, ShrinksBy DEF Serves
  <2> QED
    BY Zenon, <1>1, <1>11, <2>1 DEF KeptAt
<1>12. ASSUME NEW e \in Ids, e \notin free'[x] PROVE \E d \in Clients : Own(x, d, e)'
  <2>1. PICK d \in Clients : Own(x, d, e)
    BY Zenon, <1>2, <1>12 DEF KeptAt
  <2>2. CASE d = c /\ e = id
    BY Zenon, <1>5, <1>7, <2>2, OutOwnNext
  <2>3. CASE ~ (d = c /\ e = id)
    <3>1. replies'[d] = replies[d]
      BY Zenon, <1>2
    <3>2. Own(x, d, e) => Own(x, d, e)' \/ (From(m) = d /\ m.id = e)
      BY <3>1, OwnServed
    <3> QED
      BY Zenon, <1>4, <2>1, <2>3, <3>2
  <2> QED
    BY Zenon, <2>2, <2>3
<1>13. ASSUME NEW k \in Slots
       PROVE  \/ info'[x][k] = Free
              \/ info'[x][k].id \in Ids /\ \E d \in Clients : Out(x, d, info[x][k].id, 4)'
  <2>1. CASE k = i
    <3>1. info'[x][k].id = id
      BY Zenon, <1>8, <1>9, <2>1
    <3> QED
      BY Zenon, <1>7, <3>1 DEF Out
  <2>2. CASE k # i
    <3>1. info'[x][k] = info[x][k]
      BY Zenon, <1>8, <2>2
    <3>2. CASE info[x][k] = Free
      BY Zenon, <3>1, <3>2
    <3>3. CASE info[x][k] # Free
      <4>1. PICK e \in Ids : e = info[x][k].id /\ \E d \in Clients : Out(x, d, e, 4)
        <5>1. info[x][k].id \in Ids /\ \E d \in Clients : Out(x, d, info[x][k].id, 4)
          BY Zenon, <3>3 DEF KeptAt
        <5> QED
          BY Zenon, <5>1
      <4>2. info'[x][k].id = e /\ \E d \in Clients : Out(x, d, e, 4)'
        BY Zenon, <1>6, <3>1, <4>1
      <4> QED
        BY Zenon, <4>2 DEF Out
    <3> QED
      BY Zenon, <3>2, <3>3
  <2> QED
    BY Zenon, <2>1, <2>2
<1>14. ASSUME NEW d \in Clients, x \in started'[d]
       PROVE  Program(d) \in ran'[x] \/ \E e \in Ids : Out(x, d, e, 4)'
  BY Zenon, <1>1, <1>2, <1>6, <1>14 DEF KeptAt
<1>15. \A p \in ran'[x] : \E d \in Clients : p = Program(d) /\ x \in started'[d]
  BY Zenon, <1>1, <1>2 DEF KeptAt
<1> QED
  BY Zenon, <1>10, <1>11, <1>12, <1>13, <1>14, <1>15 DEF KeptAt

\* the last piece: its program runs, and nothing of its spawn is left
LEMMA SpawnedLoses ==
  ASSUME CalmInv, NEW x \in Nodes, NEW m, Serves(x, m), NEW i, Spawned(x, m, i), x \notin dropped,
         KeptAt(x), faults \in Nat, faults' = 0
  PROVE  KeptAt(x)'
<1>1. /\ SessionsTypeOK /\ m \in Msgs /\ started' = started /\ QueueInv(x) /\ ApartInv(x)
      /\ SlotInv(x)
  BY Zenon DEF CalmInv, Serves
<1>2. /\ Rank(m) = 4 /\ i \in SlotOf(x, m.id) /\ free' = [free EXCEPT ![x] = @ \cup {m.id}]
      /\ info' = [info EXCEPT ![x][i] = Free] /\ replies' = replies
  BY Zenon DEF Spawned
<1>3. PICK p : /\ p = Started(Stored(ResetBy(info[x][i], m), m))
               /\ ran' = [ran EXCEPT ![x] = @ \cup {p}]
  <2>1. faults' # faults + 1
    OBVIOUS
  <2> QED
    BY Zenon, <2>1 DEF Spawned
<1>4. PICK c \in Clients, id \in Ids, j \in 1 .. 4 :
        j = 4 /\ m = Piece(c, id, 4) /\ m.id = id /\ From(m) = c
  <2>1. Rank(m) \in 1 .. 4
    BY <1>2
  <2>2. From(m) \in Clients /\ m.id \in Ids /\ m = Piece(From(m), m.id, 4)
    BY Zenon, <1>1, <1>2, <2>1, MsgIs
  <2> QED
    BY Zenon, <1>2, <2>1, <2>2
<1>5. 4 \in 1 .. 4 /\ ClientInv(c)
  <2>1. 4 \in 1 .. 4
    OBVIOUS
  <2> QED
    BY Zenon, <2>1 DEF CalmInv
<1>6. ASSUME NEW d \in Clients, NEW e \in Ids
      PROVE  /\ \A k \in 1 .. 4 : Out(x, d, e, k)' => Out(x, d, e, k)
             /\ Out(x, d, e, 4) => Out(x, d, e, 4)' \/ (d = c /\ e = id)
  <2>1. \A k : (Out(x, d, e, k)' => Out(x, d, e, k))
               /\ (Out(x, d, e, k) => Out(x, d, e, k)' \/ m = Piece(d, e, k))
    BY OutServed
  <2>2. From(Piece(d, e, 4)) = d /\ Piece(d, e, 4).id = e
    BY PieceIs
  <2>3. m = Piece(d, e, 4) => d = c /\ e = id
    BY Zenon, <1>4, <2>2
  <2> QED
    BY Zenon, <2>1, <2>3
<1>7. ASSUME NEW k \in 1 .. 4 PROVE ~ Out(x, c, id, k)'
  <2>1. ~ Own(x, c, m.id)'
    BY <1>1, <1>2, <1>4, <1>5, LastServed
  <2>2. ~ Own(x, c, id)'
    BY <1>4, <2>1
  <2> QED
    BY Zenon, <2>2, OutOwnNext
<1>8. /\ i \in Slots /\ info'[x][i] = Free /\ \A k \in Slots : k # i => info'[x][k] = info[x][k]
  <2>1. Fills(x, i, m.id, Free)
    BY Zenon, <1>1, <1>2, FillsIs
  <2> QED
    BY Zenon, <2>1 DEF Fills
<1>9. info[x][i].id = id /\ p = Program(c)
  <2>1. i \in SlotOf(x, id) /\ m = Piece(c, id, j) /\ j # 1 /\ j - 1 = 3
    BY <1>2, <1>4
  <2>2. info[x][i] = Partial(c, id, j - 1)
    BY <2>1, SlotHas
  <2>3. p = Program(c)
    BY <1>3, <1>4, <2>1, <2>2, StoredIs
  <2> QED
    BY <2>2, <2>3 DEF Partial
<1>10. free'[x] = free[x] \cup {id} /\ ran'[x] = ran[x] \cup {Program(c)}
  BY Zenon, <1>1, <1>2, <1>3, <1>4, <1>9 DEF SessionsTypeOK
<1>11. ASSUME NEW d \in Clients, NEW e \in Ids, NEW k \in 1 .. 4, Out(x, d, e, k)'
       PROVE  Out(x, d, e, 4)'
  <2>1. Out(x, d, e, 4)
    BY Zenon, <1>6, <1>11 DEF KeptAt
  <2> QED
    BY Zenon, <1>6, <1>7, <1>11, <2>1
<1>12. ASSUME NEW d \in Clients, NEW e \in Ids, Waits(x, Piece(d, e, 4))' PROVE x \in started'[d]
  <2>1. \A q : Waits(x, q)' => Waits(x, q)
    BY Zenon, ShrinksBy DEF Serves
  <2> QED
    BY Zenon, <1>1, <1>12, <2>1 DEF KeptAt
<1>13. ASSUME NEW e \in Ids, e \notin free'[x] PROVE \E d \in Clients : Own(x, d, e)'
  <2>1. PICK d \in Clients : Own(x, d, e)
    BY Zenon, <1>10, <1>13 DEF KeptAt
  <2>2. replies'[d] = replies[d] /\ e # id
    BY Zenon, <1>2, <1>10, <1>13
  <2>3. Own(x, d, e) => Own(x, d, e)' \/ (From(m) = d /\ m.id = e)
    BY <2>2, OwnServed
  <2> QED
    BY Zenon, <1>4, <2>1, <2>2, <2>3
<1>14. ASSUME NEW k \in Slots
       PROVE  \/ info'[x][k] = Free
              \/ info'[x][k].id \in Ids /\ \E d \in Clients : Out(x, d, info[x][k].id, 4)'
  <2>1. CASE k = i
    BY Zenon, <1>8, <2>1
  <2>2. CASE k # i
    <3>1. info'[x][k] = info[x][k]
      BY Zenon, <1>8, <2>2
    <3>2. CASE info[x][k] = Free
      BY Zenon, <3>1, <3>2
    <3>3. CASE info[x][k] # Free
      <4>1. PICK e \in Ids : e = info[x][k].id /\ \E d \in Clients : Out(x, d, e, 4)
        <5>1. info[x][k].id \in Ids /\ \E d \in Clients : Out(x, d, info[x][k].id, 4)
          BY Zenon, <3>3 DEF KeptAt
        <5> QED
          BY Zenon, <5>1
      <4>2. e # id
        BY Zenon, <1>1, <1>8, <1>9, <2>2, <4>1, IdsApart DEF SlotInv
      <4>3. info'[x][k].id = e /\ \E d \in Clients : Out(x, d, e, 4)'
        BY Zenon, <1>6, <3>1, <4>1, <4>2
      <4> QED
        BY Zenon, <4>3 DEF Out
    <3> QED
      BY Zenon, <3>2, <3>3
  <2> QED
    BY Zenon, <2>1, <2>2
<1>15. ASSUME NEW d \in Clients, x \in started'[d]
       PROVE  Program(d) \in ran'[x] \/ \E e \in Ids : Out(x, d, e, 4)'
  BY Zenon, <1>1, <1>6, <1>10, <1>15 DEF KeptAt
<1>16. ASSUME NEW q \in ran'[x] PROVE \E d \in Clients : q = Program(d) /\ x \in started'[d]
  <2>1. x \in started[c]
    <3>1. \A r : Waits(x, r) <=> (Waits(x, r)' \/ r = m)
      BY ShrinksBy DEF Serves
    <3>2. Waits(x, Piece(c, id, 4))
      BY Zenon, <1>4, <3>1
    <3> QED
      BY Zenon, <3>2 DEF KeptAt
  <2>2. q \in ran[x] \/ q = Program(c)
    BY Zenon, <1>10
  <2> QED
    BY Zenon, <1>1, <2>1, <2>2 DEF KeptAt
<1> QED
  BY Zenon, <1>11, <1>12, <1>13, <1>14, <1>15, <1>16 DEF KeptAt

\* the other nodes are not concerned
LEMMA ElseKept ==
  ASSUME NEW x \in Nodes, NEW m, Serves(x, m), replies' = replies, NEW n \in Nodes, n # x, KeptAt(n),
         free'[n] = free[n], info'[n] = info[n], ran'[n] = ran[n]
  PROVE  KeptAt(n)'
<1>1. ASSUME NEW id \in Ids \ free'[n] PROVE \E c \in Clients : Own(n, c, id)'
  <2>1. PICK c \in Clients : Own(n, c, id)
    BY Zenon DEF KeptAt
  <2>2. replies'[c] = replies[c]
    BY Zenon
  <2>3. Own(n, c, id) => Own(n, c, id)'
    BY <2>2, OwnServed
  <2> QED
    BY Zenon, <2>1, <2>3
<1> QED
  BY Zenon, <1>1, KeptSame

\* the request is answered: the session, if there is one, has its client
LEMMA AnsweredLoses ==
  ASSUME CalmInv, \A d \in Clients : AnswerInv(d), NEW x \in Nodes, NEW m, Serves(x, m),
         NEW c \in Clients, Answered(x, m, c)
  PROVE  /\ \A d \in Clients : AnswerInv(d)'
         /\ \A n \in Nodes : KeptAt(n) => KeptAt(n)'
<1>1. /\ AskOf(m, c) /\ Gives(x, next(x)) /\ Answers(c, next(x)) /\ info' = info /\ ran' = ran
      /\ pc' = pc /\ node' = node /\ SessionsTypeOK
  BY Zenon DEF Answered, Serves, CalmInv
<1>2. /\ node[c] = x /\ replies[c] = << >> /\ pc[c] \in {"reply", "failed"}
      /\ \A p : Waits(x, p)' => From(p) # c
  BY Zenon, <1>1, AskedBy
<1>3. ASSUME NEW d \in Clients, d # c PROVE AnswerInv(d)'
  <2>1. ~ AskOf(m, d)
    <3>1. From(Request(EMPTY, d)) = d /\ From(Request(EMPTY, c)) = c
      BY RequestIs
    <3> QED
      BY Zenon, <1>1, <1>3, <3>1 DEF AskOf
  <2>2. replies'[d] = replies[d]
    BY Zenon, <1>1, <1>3 DEF Answers, SessionsTypeOK
  <2>3. ClientInv(d)
    BY Zenon DEF CalmInv
  <2> QED
    BY Zenon, <2>1, <2>2, <2>3, AnswerSame
<1>4. AnswerInv(c)'
  <2>1. pc[c] # "failed"
    <3>1. \A p : Waits(x, p) <=> (Waits(x, p)' \/ p = m)
      BY ShrinksBy DEF Serves
    <3>2. Waits(x, Request(EMPTY, c))
      BY Zenon, <1>1, <3>1 DEF AskOf
    <3> QED
      BY Zenon, <3>2 DEF AnswerInv
  <2>2. pc[c] = "reply" /\ "reply" # "failed" /\ "reply" # "release"
    BY <1>2, <2>1
  <2>3. replies'[c] # << >>
    <3>1. replies'[c] = Append(replies[c], next(x))
      BY Zenon, <1>1 DEF Answers, SessionsTypeOK
    <3> QED
      BY Zenon, <1>2, <3>1, OneSeq
  <2>4. ~ Waits(x, Request(EMPTY, c))'
    <3>1. From(Request(EMPTY, c)) = c
      BY RequestIs
    <3> QED
      BY Zenon, <1>2, <3>1
  <2>5. ~ Waits(node[c], Request(EMPTY, c))'
    BY Zenon, <1>1, <1>2, <2>4 DEF Waits
  <2>6. pc'[c] = "reply"
    BY Zenon, <1>1, <2>2
  <2> QED
    BY Zenon, <2>2, <2>3, <2>5, <2>6 DEF AnswerInv
<1>5. ASSUME NEW n \in Nodes, KeptAt(n) PROVE KeptAt(n)'
  <2>1. \A k \in Nodes, d \in Clients, id \in Ids :
          Own(k, d, id)' <=> (Own(k, d, id) \/ (k = x /\ d = c /\ id = next(x)))
    BY <1>1, AnswerOwn
  <2>2. ASSUME NEW id \in Ids \ free'[n] PROVE \E d \in Clients : Own(n, d, id)'
    <3>1. id \in Ids /\ (id \notin free[n] \/ (n = x /\ id = next(x)))
      BY <1>1 DEF Gives, SessionsTypeOK
    <3> QED
      BY Zenon, <1>5, <2>1, <3>1 DEF KeptAt
  <2>3. Rank(m) \notin 1 .. 4
    <3>1. Rank(m) = 0
      BY <1>1, RequestIs DEF AskOf
    <3> QED
      BY <3>1
  <2>4. info'[n] = info[n] /\ ran'[n] = ran[n]
    BY Zenon, <1>1
  <2> QED
    BY Zenon, <1>5, <2>2, <2>3, <2>4, KeptSame
<1> QED
  BY Zenon, <1>3, <1>4, <1>5

\* the release of a session: it is free
LEMMA GivenBackLoses ==
  ASSUME CalmInv, NEW x \in Nodes, NEW m, Serves(x, m), GivenBack(x, m), NEW n \in Nodes, KeptAt(n)
  PROVE  KeptAt(n)'
<1>1. /\ Rank(m) = 5 /\ free' = [free EXCEPT ![x] = @ \cup {m.id}] /\ replies' = replies
      /\ info'[n] = info[n] /\ ran'[n] = ran[n] /\ SessionsTypeOK
  BY Zenon DEF GivenBack, CalmInv
<1>2. ASSUME NEW id \in Ids \ free'[n] PROVE \E d \in Clients : Own(n, d, id)'
  <2>1. id \in Ids /\ id \notin free[n] /\ ~ (n = x /\ id = m.id)
    BY <1>1 DEF SessionsTypeOK
  <2>2. PICK d \in Clients : Own(n, d, id)
    BY Zenon, <2>1 DEF KeptAt
  <2>3. replies'[d] = replies[d]
    BY Zenon, <1>1
  <2>4. Own(n, d, id) => Own(n, d, id)' \/ (n = x /\ From(m) = d /\ m.id = id)
    BY <2>3, OwnServed
  <2> QED
    BY Zenon, <2>1, <2>2, <2>4
<1>3. Rank(m) \notin 1 .. 4
  BY <1>1
<1> QED
  BY Zenon, <1>1, <1>2, <1>3, KeptSame

\* together
LEMMA ServeLoses ==
  ASSUME CalmInv, KeptInv, NEW x \in Nodes, NEW m, Serves(x, m), Served(x, m), released' = released
  PROVE  KeptInv'
<1> SUFFICES ASSUME faults' = 0
             PROVE  /\ \A d \in Clients : AnswerInv(d)'
                    /\ \A n \in Nodes : n \notin dropped' => KeptAt(n)'
                    /\ faults = 0
  BY Zenon DEF KeptInv
<1>1. faults \in Nat /\ faults' # faults + 1 /\ SessionsTypeOK
  <2>1. faults \in Nat /\ SessionsTypeOK
    BY Zenon DEF CalmInv, SessionsTypeOK
  <2> QED
    BY <2>1
<1>2. faults = 0
  BY Zenon, <1>1 DEF Served, Answered, Unanswered, GivenBack, TurnedAway, Gathered, Spawned
<1>3. /\ \A d \in Clients : AnswerInv(d) /\ ClientInv(d)
      /\ \A n \in Nodes : n \notin dropped => KeptAt(n)
  BY Zenon, <1>2 DEF KeptInv, CalmInv
<1>4. CASE \E c \in Clients : Answered(x, m, c)
  <2>1. PICK c \in Clients : Answered(x, m, c)
    BY Zenon, <1>4
  <2>2. dropped' = dropped
    BY Zenon, <2>1 DEF Answered
  <2> QED
    BY Zenon, <1>2, <1>3, <2>1, <2>2, AnsweredLoses
<1>5. CASE replies' = replies /\ Rank(m) # 0
  <2>1. ASSUME NEW d \in Clients PROVE AnswerInv(d)'
    <3>1. ~ AskOf(m, d)
      BY <1>5, RequestIs DEF AskOf
    <3>2. replies'[d] = replies[d]
      BY Zenon, <1>5
    <3> QED
      BY Zenon, <1>3, <3>1, <3>2, AnswerSame
  <2>2. CASE GivenBack(x, m)
    <3>1. dropped' = dropped
      BY Zenon, <2>2 DEF GivenBack
    <3> QED
      BY Zenon, <1>2, <1>3, <2>1, <2>2, <3>1, GivenBackLoses
  <2>3. CASE TurnedAway(x, m)
    <3>1. ASSUME NEW n \in Nodes, n \notin dropped' PROVE KeptAt(n)'
      <4>1. /\ n # x /\ n \notin dropped /\ free'[n] = free[n] /\ info'[n] = info[n]
            /\ ran'[n] = ran[n]
        BY Zenon, <2>3, <3>1 DEF TurnedAway
      <4> QED
        BY Zenon, <1>3, <1>5, <4>1, ElseKept
    <3> QED
      BY Zenon, <1>2, <2>1, <3>1
  <2>4. CASE \E i : Gathered(x, m, i)
    <3>1. PICK i : Gathered(x, m, i)
      BY Zenon, <2>4
    <3>2. /\ i \in SlotOf(x, m.id) /\ free' = free /\ ran' = ran /\ dropped' = dropped
      BY Zenon, <3>1 DEF Gathered
    <3>3. PICK t : info' = [info EXCEPT ![x][i] = t]
      BY Zenon, <3>1 DEF Gathered
    <3>4. \A n \in Nodes : n # x => info'[n] = info[n]
      BY Zenon, <1>1, <3>2, <3>3, FillsIs
    <3>5. ASSUME NEW n \in Nodes, n \notin dropped' PROVE KeptAt(n)'
      <4>1. CASE n = x
        BY Zenon, <1>3, <3>1, <3>2, <3>5, <4>1, GatheredLoses
      <4>2. CASE n # x
        <5>1. free'[n] = free[n] /\ info'[n] = info[n] /\ ran'[n] = ran[n] /\ KeptAt(n)
          BY Zenon, <1>3, <3>2, <3>4, <3>5, <4>2
        <5> QED
          BY Zenon, <1>5, <4>2, <5>1, ElseKept
      <4> QED
        BY Zenon, <4>1, <4>2
    <3> QED
      BY Zenon, <1>2, <2>1, <3>5
  <2>5. CASE \E i : Spawned(x, m, i)
    <3>1. PICK i : Spawned(x, m, i)
      BY Zenon, <2>5
    <3>2. /\ i \in SlotOf(x, m.id) /\ free' = [free EXCEPT ![x] = @ \cup {m.id}]
          /\ dropped' = dropped /\ info' = [info EXCEPT ![x][i] = Free]
      BY Zenon, <3>1 DEF Spawned
    <3>3. \A n \in Nodes : n # x => info'[n] = info[n]
      BY Zenon, <1>1, <3>2, FillsIs
    <3>4. \A n \in Nodes : n # x => free'[n] = free[n] /\ ran'[n] = ran[n]
      BY Zenon, <1>1, <3>1 DEF Spawned, SessionsTypeOK
    <3>5. ASSUME NEW n \in Nodes, n \notin dropped' PROVE KeptAt(n)'
      <4>1. CASE n = x
        BY Zenon, <1>1, <1>3, <3>1, <3>2, <3>5, <4>1, SpawnedLoses
      <4>2. CASE n # x
        <5>1. free'[n] = free[n] /\ info'[n] = info[n] /\ ran'[n] = ran[n] /\ KeptAt(n)
          BY Zenon, <1>3, <3>2, <3>3, <3>4, <3>5, <4>2
        <5> QED
          BY Zenon, <1>5, <4>2, <5>1, ElseKept
      <4> QED
        BY Zenon, <4>1, <4>2
    <3> QED
      BY Zenon, <1>2, <2>1, <3>5
  <2>6. ~ \E c \in Clients : Answered(x, m, c) \/ Unanswered(x, m, c)
    <3>1. \A c \in Clients : Rank(Request(EMPTY, c)) = 0
      BY RequestIs
    <3> QED
      BY Zenon, <1>5, <3>1 DEF Answered, Unanswered, AskOf
  <2> QED
    BY Zenon, <2>2, <2>3, <2>4, <2>5, <2>6 DEF Served
<1>6. (\E c \in Clients : Answered(x, m, c)) \/ (replies' = replies /\ Rank(m) # 0)
  <2>1. GivenBack(x, m) \/ TurnedAway(x, m) \/ (\E i : Gathered(x, m, i) \/ Spawned(x, m, i))
          => replies' = replies /\ Rank(m) # 0
    <3>1. ~ (0 \in 1 .. 3) /\ ~ (0 \in 1 .. 4) /\ 0 # 4 /\ 0 # 5
      OBVIOUS
    <3> QED
      BY Zenon, <3>1 DEF GivenBack, TurnedAway, Gathered, Spawned
  <2>2. \A c \in Clients : ~ Unanswered(x, m, c)
    BY Zenon, <1>1 DEF Unanswered
  <2> QED
    BY Zenon, <2>1, <2>2 DEF Served
<1> QED
  BY Zenon, <1>4, <1>5, <1>6

-----------------------------------------------------------------------------
(***************************************************************************)
(* The invariants, and the theorems.                                       *)
(***************************************************************************)

\* a step counts at most one failing call, and takes no release back
LEMMA StepCounts ==
  ASSUME Next
  PROVE  /\ faults' = faults \/ faults' = faults + 1
         /\ Calm' => Calm
<1>1. \/ \E c \in Clients : ClientStep(c)
      \/ \E n \in Nodes : Serve(n) \/ CopyEnds(n)
  BY Zenon DEF Next
<1>2. ASSUME NEW c \in Clients, ClientStep(c)
      PROVE  /\ faults' = faults \/ faults' = faults + 1
             /\ aligned' = aligned /\ (released' = released \/ released' = released \cup {c})
  BY Zenon, <1>2 DEF ClientStep, SkipSelf, AskSession, TakeReply, ReplyError, SendPacket, Release, Fault
<1>3. ASSUME NEW n \in Nodes, Serve(n)
      PROVE  /\ faults' = faults \/ faults' = faults + 1
             /\ aligned' = aligned /\ released' = released
  BY Zenon, <1>3 DEF Serve, axiom_session, axiom_spawn_req, daemonize, Fault
<1>4. ASSUME NEW n \in Nodes, CopyEnds(n)
      PROVE  faults' = faults /\ aligned' = aligned /\ released' = released
  BY Zenon, <1>4 DEF CopyEnds
<1>5. ASSUME NEW c PROVE released \cup {c} # {}
  BY Zenon
<1> QED
  BY Zenon, <1>1, <1>2, <1>3, <1>4, <1>5 DEF Calm

\* the state the invariants speak of
Concern == <<free, info, ran, dropped, pc, node, session, todo, started, initq, replies,
             faults, released>>

\* a copy of axiom-init that ends is of no concern
LEMMA Unconcerned ==
  ASSUME UNCHANGED Concern
  PROVE  (CalmInv => CalmInv') /\ (KeptInv => KeptInv')
<1>1. /\ free' = free /\ info' = info /\ ran' = ran /\ dropped' = dropped /\ pc' = pc /\ node' = node
      /\ session' = session /\ todo' = todo /\ started' = started /\ initq' = initq
      /\ replies' = replies /\ faults' = faults /\ released' = released
  BY Zenon DEF Concern
<1>2. ASSUME NEW n PROVE \A p : Waits(n, p)' <=> Waits(n, p)
  BY Zenon, <1>1 DEF Waits
<1>3. ASSUME NEW n, NEW c, NEW id
      PROVE  /\ Own(n, c, id)' <=> Own(n, c, id)
             /\ \A j : Out(n, c, id, j)' <=> Out(n, c, id, j)
  <2>1. /\ Holds(c)' <=> Holds(c)
        /\ FirstLeft(c)' = FirstLeft(c)
        /\ Queued(n, c, id)' <=> Queued(n, c, id)
    BY Zenon, <1>1 DEF Holds, FirstLeft, Queued
  <2>2. Own(n, c, id)' <=> Own(n, c, id)
    BY Zenon, <1>1, <2>1 DEF Own
  <2>3. \A j : Out(n, c, id, j)' <=> Out(n, c, id, j)
    BY Zenon, <1>1, <1>2, <2>1 DEF Out
  <2> QED
    BY Zenon, <2>2, <2>3
<1>4. SessionsTypeOK => SessionsTypeOK'
  BY Zenon, <1>1 DEF SessionsTypeOK
<1>5. ASSUME NEW c, ClientInv(c) PROVE ClientInv(c)'
  BY Zenon, <1>1, <1>5 DEF ClientInv, Holds, FirstLeft
<1>6. ASSUME NEW n, QueueInv(n) PROVE QueueInv(n)'
  <2>1. ASSUME NEW p, MsgInv(n, p) PROVE MsgInv(n, p)'
    BY Zenon, <1>1, <2>1 DEF MsgInv, Holds, FirstLeft
  <2> QED
    BY Zenon, <1>1, <1>6, <2>1 DEF QueueInv
<1>7. ASSUME NEW n, ApartInv(n) PROVE ApartInv(n)'
  BY Zenon, <1>1, <1>3, <1>7 DEF ApartInv
<1>8. ASSUME NEW n, SlotInv(n) PROVE SlotInv(n)'
  BY Zenon, <1>1, <1>3, <1>8 DEF SlotInv
<1>9. CalmInv => CalmInv'
  BY Zenon, <1>1, <1>4, <1>5, <1>6, <1>7, <1>8 DEF CalmInv
<1>10. ASSUME NEW c, AnswerInv(c) PROVE AnswerInv(c)'
  <2>1. Waits(node[c], Request(EMPTY, c))' <=> Waits(node[c], Request(EMPTY, c))
    BY Zenon, <1>1 DEF Waits
  <2> QED
    BY Zenon, <1>1, <1>2, <1>10, <2>1 DEF AnswerInv
<1>11. ASSUME NEW n, KeptAt(n) PROVE KeptAt(n)'
  <2>1. ASSUME NEW i \in Slots
        PROVE  \/ info'[n][i] = Free
               \/ info'[n][i].id \in Ids /\ \E c \in Clients : Out(n, c, info[n][i].id, 4)'
    <3>1. CASE info[n][i] = Free
      BY Zenon, <1>1, <3>1
    <3>2. CASE info[n][i].id \in Ids /\ \E c \in Clients : Out(n, c, info[n][i].id, 4)
      <4>1. PICK id : id = info[n][i].id
        OBVIOUS
      <4>2. PICK c \in Clients : Out(n, c, id, 4)
        BY Zenon, <3>2, <4>1
      <4>3. Out(n, c, id, 4)' /\ info'[n][i].id = id
        BY Zenon, <1>1, <1>3, <4>1, <4>2
      <4>4. Out(n, c, info[n][i].id, 4)'
        BY Zenon, <4>3 DEF Out
      <4> QED
        BY Zenon, <3>2, <4>1, <4>3, <4>4
    <3> QED
      BY Zenon, <1>11, <3>1, <3>2 DEF KeptAt
  <2>2. \A c \in Clients, id \in Ids : \A j \in 1 .. 4 : Out(n, c, id, j)' => Out(n, c, id, 4)'
    BY Zenon, <1>3, <1>11 DEF KeptAt
  <2>3. /\ \A c \in Clients, id \in Ids : Waits(n, Piece(c, id, 4))' => n \in started'[c]
        /\ \A id \in Ids \ free'[n] : \E c \in Clients : Own(n, c, id)'
    BY Zenon, <1>1, <1>2, <1>3, <1>11 DEF KeptAt
  <2>4. /\ \A c \in Clients : n \in started'[c] =>
             Program(c) \in ran'[n] \/ \E id \in Ids : Out(n, c, id, 4)'
        /\ \A p \in ran'[n] : \E c \in Clients : p = Program(c) /\ n \in started'[c]
    BY Zenon, <1>1, <1>3, <1>11 DEF KeptAt
  <2> QED
    BY Zenon, <2>1, <2>2, <2>3, <2>4 DEF KeptAt
<1>12. KeptInv => KeptInv'
  BY Zenon, <1>1, <1>10, <1>11 DEF KeptInv
<1> QED
  BY Zenon, <1>9, <1>12

\* at the start nothing is asked, sent, gathered or run
LEMMA SessionsStart == Init => SessionsInv /\ KeptInv
<1> SUFFICES ASSUME Init PROVE CalmInv /\ KeptInv
  <2>1. CalmInv => faults \in Nat
    BY Zenon DEF CalmInv, SessionsTypeOK
  <2> QED
    BY Zenon, <2>1 DEF SessionsInv
<1>1. /\ free = [n \in Nodes |-> Ids] /\ info = [n \in Nodes |-> [i \in Slots |-> Free]]
      /\ initq = [n \in Nodes |-> << >>] /\ replies = [c \in Clients |-> << >>]
      /\ pc = [c \in Clients |-> "call"]
      /\ node = [c \in Clients |-> IF "BROADCAST" \in Flags[c] THEN 0 ELSE First[c]]
      /\ session = [c \in Clients |-> EMPTY] /\ todo = [c \in Clients |-> << >>]
      /\ started = [c \in Clients |-> {}] /\ ran = [n \in Nodes |-> {}]
      /\ faults = 0 /\ dropped = {} /\ released = {}
  BY Zenon DEF Init
<1>2. ASSUME NEW c \in Clients PROVE node[c] \in Nodes /\ node[c] \in Nat
  <2>1. node[c] = 0 \/ node[c] = First[c]
    BY Zenon, <1>1
  <2> QED
    BY <2>1, SessionsAssumption DEF Nodes
<1>3. SessionsTypeOK
  <2>1. /\ free \in [Nodes -> SUBSET Ids] /\ started \in [Clients -> SUBSET Nodes] /\ faults \in Nat
        /\ session \in [Clients -> Ids \cup {EMPTY}]
    BY <1>1
  <2>2. /\ info = [n \in Nodes |-> [i \in Slots |-> info[n][i]]] /\ ran = [n \in Nodes |-> ran[n]]
    BY Zenon, <1>1
  <2>3. /\ initq \in [Nodes -> Seq(Msgs)] /\ replies \in [Clients -> Seq(Ids \cup {EMPTY})]
        /\ todo \in [Clients -> Seq(Pieces)]
    BY <1>1
  <2>4. node \in [Clients -> Nat]
    BY Zenon, <1>1, <1>2
  <2>5. pc \in [Clients -> Pcs]
    BY <1>1 DEF Pcs
  <2> QED
    BY Zenon, <2>1, <2>2, <2>3, <2>4, <2>5 DEF SessionsTypeOK
<1>4. ASSUME NEW n \in Nodes PROVE Len(initq[n]) = 0 /\ ~ \E k : k \in 1 .. Len(initq[n])
  <2>1. initq[n] = << >>
    BY Zenon, <1>1
  <2>2. Len(initq[n]) = 0
    BY <2>1
  <2>3. ~ \E k : k \in 1 .. 0
    OBVIOUS
  <2> QED
    BY Zenon, <2>2, <2>3
<1>5. ASSUME NEW c \in Clients PROVE pc[c] = "call" /\ replies[c] = << >> /\ ~ Holds(c)
  <2>1. pc[c] = "call" /\ replies[c] = << >>
    BY Zenon, <1>1
  <2> QED
    BY <2>1 DEF Holds
<1>6. "call" # "send" /\ "call" # "reply" /\ "call" # "failed" /\ "call" # "release"
  OBVIOUS
<1>7. ASSUME NEW n \in Nodes, NEW c \in Clients
      PROVE  /\ \A id : ~ Own(n, c, id) /\ \A j : ~ Out(n, c, id, j)
             /\ \A p : ~ Waits(n, p)
  BY Zenon, <1>4, <1>5, <1>6 DEF Own, Out, Queued, Waits
<1>8. ASSUME NEW c \in Clients PROVE ClientInv(c) /\ AnswerInv(c)
  <2>1. Len(replies[c]) <= 1
    BY <1>5
  <2>2. ClientInv(c)
    BY Zenon, <1>2, <1>5, <2>1 DEF ClientInv
  <2>3. AnswerInv(c)
    BY Zenon, <1>5, <1>6 DEF AnswerInv
  <2> QED
    BY Zenon, <2>2, <2>3
<1>9. ASSUME NEW n \in Nodes PROVE QueueInv(n) /\ ApartInv(n) /\ SlotInv(n) /\ KeptAt(n)
  <2>1. /\ free[n] = Ids /\ ran[n] = {} /\ \A i \in Slots : info[n][i] = Free
        /\ \A c \in Clients : started[c] = {}
    BY Zenon, <1>1
  <2>2. Free.id = EMPTY
    BY DEF Free
  <2>3. QueueInv(n) /\ ApartInv(n)
    BY Zenon, <1>4, <1>7 DEF QueueInv, ApartInv
  <2>4. \A c \in Clients, id \in Ids : \A j \in 1 .. 4 : ~ Out(n, c, id, j)
    BY Zenon, <1>7
  <2>5. \A c \in Clients, id \in Ids : \A j \in 2 .. 4 : ~ Out(n, c, id, j)
    BY Zenon, <1>7
  <2>6. SlotInv(n)
    BY Zenon, <2>1, <2>2, <2>5 DEF SlotInv
  <2>7. KeptAt(n)
    BY Zenon, <1>7, <2>1, <2>4 DEF KeptAt
  <2> QED
    BY Zenon, <2>3, <2>6, <2>7
<1> QED
  BY Zenon, <1>1, <1>3, <1>8, <1>9 DEF CalmInv, KeptInv

\* every step keeps both
LEMMA SessionsStep == SessionsInv /\ KeptInv /\ [Next]_vars => SessionsInv' /\ KeptInv'
<1> SUFFICES ASSUME SessionsInv, KeptInv, [Next]_vars PROVE SessionsInv' /\ KeptInv'
  BY Zenon
<1>1. faults \in Nat /\ (Calm => CalmInv) /\ (faults = 0 => Calm)
  BY Zenon DEF SessionsInv, KeptInv, Calm
<1>2. CASE UNCHANGED vars
  <2>1. UNCHANGED Concern /\ aligned' = aligned /\ faults' = faults /\ released' = released
    BY Zenon, <1>2 DEF vars, server, client, Concern
  <2>2. Calm' => Calm
    BY Zenon, <2>1 DEF Calm
  <2> QED
    BY Zenon, <1>1, <2>1, <2>2, Unconcerned DEF SessionsInv
<1>3. CASE Next
  <2>1. /\ faults' \in Nat /\ (faults' = 0 => faults = 0)
    <3>1. faults' = faults \/ faults' = faults + 1
      BY Zenon, <1>3, StepCounts
    <3> QED
      BY <1>1, <3>1
  <2>2. Calm' => Calm
    BY Zenon, <1>3, StepCounts
  <2>3. SUFFICES ASSUME CalmInv
                 PROVE  (Calm' => CalmInv') /\ (faults' = 0 => KeptInv')
    <3>1. Calm' => CalmInv'
      BY Zenon, <1>1, <2>2, <2>3
    <3>2. faults' = 0 => KeptInv'
      BY Zenon, <1>1, <2>1, <2>3
    <3>3. faults' # 0 => KeptInv'
      BY Zenon DEF KeptInv
    <3> QED
      BY Zenon, <2>1, <3>1, <3>2, <3>3 DEF SessionsInv
  <2>4. ASSUME NEW c \in Clients, ClientStep(c)
        PROVE  (Calm' => CalmInv') /\ (faults' = 0 => KeptInv')
    <3>1. SessionsTypeOK /\ ClientInv(c)
      BY Zenon, <2>3 DEF CalmInv
    <3>2. PICK x \in Nodes : \E M : StepRight(c, x, M)
      BY Zenon, <2>4, <3>1, ClientFacts
    <3>3. PICK M : StepRight(c, x, M)
      BY Zenon, <3>2
    <3>4. Calm' => CalmInv'
      BY Zenon, <2>3, <3>3, ClientKeeps
    <3>5. KeptInv' \/ pc[c] = "release"
      BY Zenon, <2>3, <3>3, ClientLoses
    <3>6. faults = 0 => pc[c] # "release"
      BY Zenon DEF KeptInv, AnswerInv
    <3> QED
      BY Zenon, <2>1, <3>4, <3>5, <3>6
  <2>5. ASSUME NEW n \in Nodes, Serve(n) PROVE CalmInv' /\ KeptInv'
    <3>1. PICK m : Serves(n, m) /\ Served(n, m)
      BY Zenon, <2>3, <2>5, ServeIs
    <3>2. released' = released
      BY Zenon, <2>5 DEF Serve
    <3> QED
      BY Zenon, <2>3, <3>1, <3>2, ServeKeeps, ServeLoses
  <2>6. ASSUME NEW n \in Nodes, CopyEnds(n) PROVE CalmInv' /\ KeptInv'
    <3>1. UNCHANGED Concern
      BY Zenon, <2>6 DEF CopyEnds, client, Concern
    <3> QED
      BY Zenon, <2>3, <3>1, Unconcerned
  <2> QED
    BY Zenon, <1>3, <2>4, <2>5, <2>6 DEF Next
<1> QED
  BY Zenon, <1>2, <1>3

\* a port that is not empty has a length
LEMMA SomeLength ==
  ASSUME NEW S, NEW s \in Seq(S), s # << >>
  PROVE  Len(s) \in Nat /\ Len(s) # 0
OBVIOUS

\* remote execution keeps its inductive invariants: see SessionsInv and
\* KeptInv (axinit_execvpe, axiom_session, axiom_spawn_req)
THEOREM SessionsInductive == Spec => [](SessionsInv /\ KeptInv)
BY SessionsStart, SessionsStep, PTL DEF Spec

\* two calls of axinit_execvpe that send to the same axiom-init use two
\* sessions, and axiom_session gives out neither of them again, for any number
\* of clients, nodes, sessions and failing calls
THEOREM SessionsApartHolds == Spec => []SessionsApart
<1>1. SessionsInv => SessionsApart
  <2> SUFFICES ASSUME SessionsInv, NEW n \in Nodes, Undisturbed(n), NEW c \in Holders(n)
               PROVE  /\ session[c] \notin free[n]
                      /\ \A d \in Holders(n) : session[c] = session[d] => c = d
    BY Zenon DEF SessionsApart
  <2>1. CalmInv
    BY Zenon DEF SessionsInv, Undisturbed, Calm
  <2>2. ASSUME NEW d \in Holders(n)
        PROVE  d \in Clients /\ session[d] \in Ids /\ Own(n, d, session[d])
    <3>1. d \in Clients /\ Holds(d) /\ node[d] = n
      BY Zenon DEF Holders, Holds
    <3> QED
      BY Zenon, <2>1, <3>1 DEF CalmInv, ClientInv, Own
  <2>3. ApartInv(n)
    BY Zenon, <2>1 DEF CalmInv
  <2>4. ASSUME NEW d \in Holders(n), session[c] = session[d] PROVE c = d
    <3>1. PICK id \in Ids : id = session[c] /\ id = session[d] /\ Own(n, c, id) /\ Own(n, d, id)
      BY Zenon, <2>2, <2>4
    <3> QED
      BY Zenon, <2>2, <2>3, <3>1 DEF ApartInv
  <2>5. session[c] \notin free[n]
    BY Zenon, <2>2, <2>3 DEF ApartInv
  <2> QED
    BY Zenon, <2>4, <2>5
<1> QED
  BY <1>1, SessionsInductive, PTL

\* every program daemonize starts on a node that turned no packet away is the
\* whole program of one client, however the pieces of the clients interleave
\* in the queue of axiom-init and whichever calls fail
THEOREM SpawnWholeHolds == Spec => []SpawnWhole
<1>1. SessionsInv => SpawnWhole
  <2> SUFFICES ASSUME SessionsInv, NEW n \in Nodes, Undisturbed(n), NEW p \in ran[n]
               PROVE  \E c \in Clients : p = Program(c)
    BY Zenon DEF SpawnWhole
  <2>1. SlotInv(n)
    BY Zenon DEF SessionsInv, CalmInv, Undisturbed, Calm
  <2> QED
    BY Zenon, <2>1 DEF SlotInv
<1> QED
  BY <1>1, SessionsInductive, PTL

\* as long as no call fails, a client that waits for a session has exactly one
\* message under way, its request or the answer of axiom_session
THEOREM AnswerComesHolds == Spec => []AnswerComes
<1>1. SessionsInv /\ KeptInv => AnswerComes
  <2> SUFFICES ASSUME SessionsInv, KeptInv, NEW c \in Clients, pc[c] = "reply", faults = 0
               PROVE  Len(replies[c]) + Cardinality({k \in DOMAIN initq[node[c]] :
                        initq[node[c]][k] = Request(EMPTY, c)}) = 1
    BY Zenon DEF AnswerComes
  <2>1. released = {} /\ AnswerInv(c) /\ CalmInv
    BY Zenon DEF KeptInv, SessionsInv, Calm
  <2>2. SessionsTypeOK /\ ClientInv(c)
    BY Zenon, <2>1 DEF CalmInv
  <2>3. PICK x \in Nodes : x = node[c]
    BY Zenon, <2>2 DEF ClientInv
  <2>4. initq[x] \in Seq(Msgs) /\ replies[c] \in Seq(Ids \cup {EMPTY})
    BY Zenon, <2>2 DEF SessionsTypeOK
  <2>5. PICK S : S = {k \in DOMAIN initq[x] : initq[x][k] = Request(EMPTY, c)}
    BY Zenon
  <2>6. \A k : k \in S <=> k \in 1 .. Len(initq[x]) /\ initq[x][k] = Request(EMPTY, c)
    BY <2>4, <2>5
  <2>7. (replies[c] = << >>) <=> Waits(x, Request(EMPTY, c))
    BY Zenon, <2>1, <2>3 DEF AnswerInv
  <2>8. Len(replies[c]) + Cardinality(S) = 1
    <3>1. CASE replies[c] = << >>
      <4>1. PICK k \in S : TRUE
        BY Zenon, <2>6, <2>7, <3>1 DEF Waits
      <4>2. ASSUME NEW j \in S PROVE j = k
        <5>1. /\ j \in 1 .. Len(initq[x]) /\ initq[x][j] = Request(EMPTY, c)
              /\ k \in 1 .. Len(initq[x]) /\ initq[x][k] = Request(EMPTY, c)
          BY Zenon, <2>6
        <5>2. QueueInv(x) /\ ~ Follows(Request(EMPTY, c), Request(EMPTY, c))
          <6>1. Rank(Request(EMPTY, c)) \notin 1 .. 3
            <7>1. Rank(Request(EMPTY, c)) = 0
              BY RequestIs
            <7> QED
              BY <7>1
          <6> QED
            BY Zenon, <2>1, <6>1 DEF CalmInv, Follows
        <5>3. ~ (j < k) /\ ~ (k < j)
          BY Zenon, <5>1, <5>2 DEF QueueInv
        <5> QED
          BY <2>4, <5>1, <5>3
      <4>3. S = {k}
        BY Zenon, <4>1, <4>2
      <4>4. Cardinality(S) = 1
        BY Zenon, <4>3, FS_Singleton
      <4> QED
        BY <3>1, <4>4
    <3>2. CASE replies[c] # << >>
      <4>1. S = {}
        BY Zenon, <2>6, <2>7, <3>2 DEF Waits
      <4>2. Cardinality(S) = 0
        BY Zenon, <4>1, FS_EmptySet
      <4>3. Len(replies[c]) <= 1
        BY Zenon, <2>2 DEF ClientInv
      <4>4. Len(replies[c]) = 1
        <5>1. Len(replies[c]) \in Nat /\ Len(replies[c]) # 0
          BY Zenon, <2>4, <3>2, SomeLength
        <5>2. PICK l \in Nat : l = Len(replies[c])
          BY Zenon, <5>1
        <5>3. l # 0 /\ l <= 1 => l = 1
          OBVIOUS
        <5> QED
          BY Zenon, <4>3, <5>1, <5>2, <5>3
      <4> QED
        BY <4>2, <4>4
    <3> QED
      BY Zenon, <3>1, <3>2
  <2> QED
    BY Zenon, <2>3, <2>5, <2>8
<1> QED
  BY <1>1, SessionsInductive, PTL

\* when every call has ended, none has failed and every packet has been served,
\* no session and no slot of axiom-init is in use, and the programs that run on
\* a node are exactly those whose calls counted a start there
THEOREM NothingKeptHolds == Spec => []NothingKept
<1>1. SessionsInv /\ KeptInv => NothingKept
  <2> SUFFICES ASSUME SessionsInv, KeptInv, faults = 0, dropped = {}, \A c \in Clients : Ended(c),
                      NEW n \in Nodes, initq[n] = << >>
               PROVE  /\ free[n] = Ids
                      /\ \A i \in Slots : info[n][i] = Free
                      /\ ran[n] = {Program(c) : c \in {d \in Clients : n \in started[d]}}
    BY Zenon DEF NothingKept
  <2>1. CalmInv /\ KeptAt(n) /\ \A c \in Clients : AnswerInv(c)
    BY Zenon DEF KeptInv, SessionsInv, Calm
  <2>2. ~ \E k : k \in 1 .. Len(initq[n])
    <3>1. Len(initq[n]) = 0
      OBVIOUS
    <3>2. ~ \E k : k \in 1 .. 0
      OBVIOUS
    <3> QED
      BY Zenon, <3>1, <3>2
  <2>3. ASSUME NEW c \in Clients PROVE pc[c] # "send" /\ ~ Holds(c) /\ replies[c] = << >>
    <3>1. pc[c] = "done" \/ pc[c] = "failed"
      BY Zenon DEF Ended
    <3>2. pc[c] # "send" /\ ~ Holds(c) /\ (pc[c] = "failed" \/ pc[c] \notin {"reply", "failed"})
      BY <3>1 DEF Holds
    <3> QED
      BY Zenon, <2>1, <3>2 DEF CalmInv, ClientInv, AnswerInv
  <2>4. \A c \in Clients, id \in Ids : ~ Own(n, c, id) /\ ~ Out(n, c, id, 4)
    BY Zenon, <2>2, <2>3 DEF Own, Out, Queued, Waits
  <2>5. free[n] = Ids
    <3>1. free[n] \in SUBSET Ids
      BY Zenon, <2>1 DEF CalmInv, SessionsTypeOK
    <3> QED
      BY Zenon, <2>1, <2>4, <3>1 DEF KeptAt
  <2>6. \A i \in Slots : info[n][i] = Free
    BY Zenon, <2>1, <2>4 DEF KeptAt
  <2>7. ran[n] = {Program(c) : c \in {d \in Clients : n \in started[d]}}
    <3>1. ASSUME NEW p \in ran[n] PROVE p \in {Program(c) : c \in {d \in Clients : n \in started[d]}}
      BY Zenon, <2>1 DEF KeptAt
    <3>2. ASSUME NEW c \in Clients, n \in started[c] PROVE Program(c) \in ran[n]
      BY Zenon, <2>1, <2>4, <3>2 DEF KeptAt
    <3> QED
      BY Zenon, <3>1, <3>2
  <2> QED
    BY Zenon, <2>5, <2>6, <2>7
<1> QED
  BY <1>1, SessionsInductive, PTL
=============================================================================
