------------------------------ MODULE Selection ------------------------------
(***************************************************************************)
(* Parts of a sequence in their order, sums over it, and a set in          *)
(* ascending order, as the code's loops with an append or a += and its     *)
(* sorted key lists make them.  SelectSeq, SortSeq and FoldLeft would do,  *)
(* but the proof system has no definition of them.                         *)
(***************************************************************************)
EXTENDS Integers, Sequences, FiniteSets

\* The elements of s at the positions in keep.
Selected(s, keep) ==
    LET upTo[n \in 0 .. Len(s)] ==
            IF n = 0 THEN << >>
            ELSE IF n \in keep THEN Append(upTo[n - 1], s[n]) ELSE upTo[n - 1]
    IN  upTo[Len(s)]

\* The elements of s that pass the test.
Where(s, Test(_)) == Selected(s, {n \in DOMAIN s : Test(s[n])})

\* The sum of a sequence of numbers.
Total(s) ==
    LET upTo[n \in 0 .. Len(s)] == IF n = 0 THEN 0 ELSE upTo[n - 1] + s[n]
    IN  upTo[Len(s)]

\* A finite set of integers from the least to the greatest.
Ascending(S) ==
    CHOOSE s \in [1 .. Cardinality(S) -> S] :
        \A a, b \in 1 .. Cardinality(S) : a < b => s[a] < s[b]
=============================================================================
