--------------------------- MODULE MCLoadBalancer ---------------------------
(***************************************************************************)
(* Model-checking instances of LoadBalancer.                               *)
(***************************************************************************)
EXTENDS LoadBalancer, TLC

CallerSymmetry == Permutations(Callers)

\* Lists without repetitions, of two lengths.
DistinctLists == {<<"a", "b", "c">>, <<"b", "a">>}

PairList == {<<"a", "b">>}

=============================================================================
