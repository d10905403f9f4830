----------------------------- MODULE Positions -----------------------------
(***************************************************************************)
(* Sets of numbers in ascending order, as the sorts and the filters of the *)
(* code leave them: the pipeline sorts nodes and filters its plan, the     *)
(* tail reader takes lines of a buffer. Stated by what the result is, with *)
(* no recursion, so that it can be reasoned about.                         *)
(***************************************************************************)
EXTENDS Naturals, FiniteSets

\* The members of a finite set of numbers, the smallest first.
Ascending(S) ==
    CHOOSE s \in [1 .. Cardinality(S) -> S] :
        \A i, j \in 1 .. Cardinality(S) : i < j => s[i] < s[j]

\* What a sequence has at the positions P, in the order of the sequence.
Picked(seq, P) == LET order == Ascending(P) IN [k \in 1 .. Cardinality(P) |-> seq[order[k]]]

=============================================================================
