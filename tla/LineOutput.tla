----------------------------- MODULE LineOutput -----------------------------
(***************************************************************************)
(* The output of the redirect service (axiom-run/master.c): the master     *)
(* prints what the nodes write, in pieces of any length, line by line.     *)
(***************************************************************************)
EXTENDS Integers, Sequences, FiniteSets, SequencesExt

CONSTANTS Writers,         \* the nodes
          Pieces,          \* the payloads of CMD_SEND_TO_STDOUT: sequences of "x" and "nl"
          MAX_BUFFER_SIZE,
          MaxChars         \* bound on what a node writes

ASSUME LineOutputAssumption ==
  /\ MAX_BUFFER_SIZE \in Nat /\ MaxChars \in Nat
  /\ \A p \in Pieces : p \in Seq({"x", "nl"}) /\ p # <<>> /\ Len(p) <= MAX_BUFFER_SIZE

VARIABLES
  ident,      \* IDENT_FLAG
  other,      \* another bit of flags is set
  pend,       \* info[node].buffer, info[node].sz
  out,        \* what has been printed: <<node, character>>, "id" for {node}
  fed,        \* history: what each node has sent
  tooLong,    \* history: a line did not fit into the buffer
  flushed     \* master_receiver has left its loop

lineVars == <<ident, other, pend, out, fed, tooLong, flushed>>

LineInit ==
  /\ ident \in BOOLEAN /\ other \in BOOLEAN
  /\ pend = [n \in Writers |-> <<>>] /\ out = <<>> /\ fed = [n \in Writers |-> <<>>]
  /\ tooLong = FALSE /\ flushed = FALSE

\* output(): the characters of s, of node n
Text(n, s) == [k \in 1 .. Len(s) |-> <<n, s[k]>>]

Id(n) == IF ident THEN << <<n, "id">> >> ELSE <<>>

Breaks(s) == {k \in 1 .. Len(s) : s[k] = "nl"}

\* the end of the last full line of s, 0 if there is none
Full(s) == IF Breaks(s) = {} THEN 0 ELSE CHOOSE k \in Breaks(s) : \A j \in Breaks(s) : j <= k

\* the full lines of s; {node} in front of each but, after pending text, the first
Lines(n, s, continues) ==
  FlattenSeq([k \in 1 .. Full(s) |->
    (IF (k = 1 /\ ~continues) \/ (k > 1 /\ s[k - 1] = "nl") THEN Id(n) ELSE <<>>)
      \o << <<n, s[k]>> >>])

\* the pending text goes before the first full line
Pending(n) == IF pend[n] = <<>> THEN <<>> ELSE Id(n) \o Text(n, pend[n])

\* mutant: the pending text is printed and kept
Rest_Kept(n, s) == pend[n] \o SubSeq(s, Full(s) + 1, Len(s))

\* what is left after the last full line
Rest(n, s) == SubSeq(s, Full(s) + 1, Len(s))

emit(n, s) ==
  /\ ~flushed /\ Len(fed[n]) + Len(s) <= MaxChars
  /\ fed' = [fed EXCEPT ![n] = @ \o s]
  /\ IF Breaks(s) # {}
     THEN /\ out' = out \o Pending(n) \o Lines(n, s, pend[n] # <<>>)
          /\ pend' = [pend EXCEPT ![n] = Rest(n, s)]
          /\ UNCHANGED tooLong
     ELSE LET full == Len(pend[n]) + Len(s) > MAX_BUFFER_SIZE IN
          /\ out' = IF full THEN out \o Text(n, pend[n]) ELSE out
          /\ pend' = [pend EXCEPT ![n] = IF full THEN s ELSE @ \o s]
          /\ tooLong' = (tooLong \/ full)
  /\ UNCHANGED <<ident, other, flushed>>

\* at the end of master_receiver, a line break after every pending line; any
\* flag brings {node} here (flags && IDENT_FLAG)
Remaining(n) ==
  IF pend[n] = <<>> THEN <<>>
  ELSE (IF ident \/ other THEN << <<n, "id">> >> ELSE <<>>) \o Text(n, pend[n]) \o << <<n, "nl">> >>

flush ==
  /\ ~flushed /\ flushed' = TRUE
  /\ out' = out \o FlattenSeq([k \in 1 .. Cardinality(Writers) |-> Remaining(SetToSeq(Writers)[k])])
  /\ pend' = [n \in Writers |-> <<>>]
  /\ UNCHANGED <<ident, other, fed, tooLong>>

LineNext == (\E n \in Writers, s \in Pieces : emit(n, s)) \/ flush

\* what node n wrote, as far as it is printed
Printed(n) ==
  LET mine == SelectSeq(out, LAMBDA c : c[1] = n /\ c[2] # "id")
  IN [k \in 1 .. Len(mine) |-> mine[k][2]]

\* The output of a node is printed completely, once and in order, and as long
\* as every line fits into the buffer no line is torn: another node's text, or
\* the next {node}, follows only on a line break (master.c:188-231).
LinesWhole ==
  /\ \A n \in Writers : IF flushed THEN IsPrefix(fed[n], Printed(n))
                                   ELSE Printed(n) \o pend[n] = fed[n]
  /\ ~tooLong =>
       \A k \in 1 .. Len(out) :
         LET fresh == k = 1 \/ (k > 1 /\ out[k - 1][2] = "nl") IN
         /\ (k > 1 /\ out[k][1] # out[k - 1][1] => fresh)
         /\ (ident => (out[k][2] = "id" <=> fresh))
=============================================================================
