----------------------------- MODULE MCBalancers -----------------------------
(***************************************************************************)
(* The balancers of pkg/loadbalancing and pkg/ketama.  They share nothing: *)
(* a behaviour follows one of the two packages and leaves the other alone, *)
(* in one of its initial states.                                           *)
(***************************************************************************)
EXTENDS MCLoadBalancer, KetamaRing

VARIABLE part       \* the package this behaviour is about

\* A number for every point <<node, replica>> of three backends.
PointNumber(p) ==
    LET number == [a |-> 0, b |-> 1, c |-> 2]
    IN  2 * (2 * number[p[1][1]] + p[1][2]) + p[2]

PointsOfAll == (({"a", "b", "c"} \X {0, 1}) \X {0, 1})

\* All points apart; some points of two nodes equal; both points of each node equal.
SmallHashes ==
    {[p \in PointsOfAll |-> (5 * PointNumber(p)) % 12],
     [p \in PointsOfAll |-> (5 * PointNumber(p)) % 7],
     [p \in PointsOfAll |-> (5 * (PointNumber(p) \div 2)) % 12]}

SmallLists == {<<"b">>, <<"a", "b">>, <<"c", "a", "c">>}

BalancersInit ==
    /\ part \in {"loadbalancing", "ketama"}
    /\ Init /\ KetamaInit
    /\ part = "loadbalancing" =>
          balancer = "weighted" /\ hash = CHOOSE f \in HashFunctions : TRUE
    /\ part = "ketama" =>
          /\ method = CHOOSE name \in Methods : TRUE
          /\ backends = NewBackends(CHOOSE list \in AddressLists : TRUE)

BalancersNext ==
    /\ UNCHANGED part
    /\ \/ part = "loadbalancing" /\ Next /\ UNCHANGED ketamaVars
       \/ part = "ketama" /\ KetamaNext /\ UNCHANGED vars

BalancersSpec == BalancersInit /\ [][BalancersNext]_<<part, vars, ketamaVars>>

=============================================================================
