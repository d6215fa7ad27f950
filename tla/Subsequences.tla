---- MODULE Subsequences ----
(***************************************************************************)
(* Parts of a list in its order, as filter and SQL's WHERE ... ORDER BY    *)
(* give them. SelectSeq says the same, but its proofs need an operator as  *)
(* a parameter; a recursive function can be expanded.                      *)
(***************************************************************************)
EXTENDS Naturals, Sequences

\* The elements of s that are in S, in their order.
kept(s, S) ==
    LET upTo[i \in 0..Len(s)] ==
          IF i = 0 THEN <<>> ELSE IF s[i] \in S THEN Append(upTo[i - 1], s[i]) ELSE upTo[i - 1]
    IN  upTo[Len(s)]

====
