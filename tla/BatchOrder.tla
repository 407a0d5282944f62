----------------------------- MODULE BatchOrder -----------------------------
(* A batch of rows or of stream entries is a set of numbers that the code  *)
(* works off in ascending order (ORDER BY of the outbox, ids of a stream). *)
EXTENDS Naturals, FiniteSets

Least(S) == CHOOSE s \in S : \A t \in S : s <= t

Smaller(m, n) == IF m < n THEN m ELSE n

\* S is the first "limit" elements of C, or all of C if it has fewer.
IsFirstOf(S, C, limit) ==
  /\ S \subseteq C
  /\ Cardinality(S) <= limit
  /\ S # C => Cardinality(S) = limit
  /\ \A s \in S, c \in C \ S : s < c
=============================================================================
