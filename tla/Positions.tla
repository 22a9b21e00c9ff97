------------------------------ MODULE Positions ------------------------------
(***************************************************************************)
(* What filters and deduplicating pushes keep of a sequence, said by the   *)
(* positions they keep.                                                    *)
(***************************************************************************)
EXTENDS Integers, Sequences, FiniteSets

(* The k-th of a set of numbers.                                           *)
Ordinal(I, i) == Cardinality({j \in I : j <= i})
Nth(I, k) == CHOOSE i \in I : Ordinal(I, i) = k

(* The elements of s at the positions in I, in their order.  As the end of *)
(* a sequence TLC evaluates them once, and not at every use.               *)
AtPositions(s, I) == << >> \o [k \in 1..Cardinality(I) |-> s[Nth(I, k)]]

Keep(s, Test(_)) == AtPositions(s, {i \in DOMAIN s : Test(s[i])})

(* Where s has something for the first time.                               *)
FirstPositions(s) == {i \in DOMAIN s : \A j \in 1..(i - 1) : s[j] # s[i]}

(* What s does not have yet is added to it, in its order.                  *)
Merge(s, more) ==
  s \o AtPositions(more, {i \in FirstPositions(more) : \A j \in DOMAIN s : s[j] # more[i]})

=============================================================================
