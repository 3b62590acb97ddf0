------------------------------ MODULE Listing ------------------------------
(***************************************************************************)
(* Sets written down in an order, by counting: an element comes where there *)
(* are as many elements up to it.  What is picked out of a sequence and a   *)
(* sequence of sequences made one are such lists of positions.              *)
(***************************************************************************)
EXTENDS Integers, Sequences, FiniteSets

\* The elements of S one by one; upTo[x]: x and those that come before it.
Listed(S, upTo) == [n \in 1 .. Cardinality(S) |-> CHOOSE x \in S : Cardinality(upTo[x]) = n]

\* Positions of a sequence in their order, and what a sequence has there.
UpTo(I) == [i \in I |-> {j \in I : j <= i}]
Picked(s, I) == LET places == Listed(I, UpTo(I)) IN [n \in 1 .. Cardinality(I) |-> s[places[n]]]

\* The positions in the sequences of a sequence, one sequence after the other.
Places(ss) == UNION {{i} \X DOMAIN ss[i] : i \in DOMAIN ss}
UpToPlace(ss) ==
  [p \in Places(ss) |-> {q \in Places(ss) : q[1] < p[1] \/ (q[1] = p[1] /\ q[2] <= p[2])}]
Flattened(ss) ==
  LET places == Listed(Places(ss), UpToPlace(ss))
  IN [n \in 1 .. Cardinality(Places(ss)) |-> ss[places[n][1]][places[n][2]]]
=============================================================================
