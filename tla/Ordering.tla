------------------------------ MODULE Ordering ------------------------------
(***************************************************************************)
(* Sorting and filtering as the code's loops and sort.Slice do it: the     *)
(* member that comes n-th is the one with n - 1 others before it.          *)
(***************************************************************************)
EXTENDS Integers, FiniteSets

\* The members of a finite set of numbers in ascending order.
InOrder(S) ==
    [n \in 1 .. Cardinality(S) |->
        CHOOSE i \in S : Cardinality({j \in S : j < i}) = n - 1]

\* A list of numbers in ascending order, with the equal ones as they come.
SortedList(q) ==
    [n \in DOMAIN q |->
        q[CHOOSE j \in DOMAIN q :
            Cardinality({i \in DOMAIN q : q[i] < q[j] \/ (q[i] = q[j] /\ i < j)}) = n - 1]]

\* The members of a finite set by rank, a number that differs between them.
SortedBy(S, rank) ==
    [n \in 1 .. Cardinality(S) |->
        CHOOSE i \in S : Cardinality({j \in S : rank[j] < rank[i]}) = n - 1]

=============================================================================
