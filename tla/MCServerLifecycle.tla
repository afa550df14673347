-------------------------- MODULE MCServerLifecycle --------------------------
(***************************************************************************)
(* Model-checking instances of ServerLifecycle.                            *)
(***************************************************************************)
EXTENDS ServerLifecycle

\* A configuration as README.md shows it.
RoundRobinConfig == [upstreams |-> TRUE, method |-> "round_robin"]

\* A nil config: the defaults have a method and no upstream.
NilConfig == [upstreams |-> FALSE, method |-> "round_robin"]

AllConfigs == {RoundRobinConfig, NilConfig, SimpleProxyConfig}

GoodConfigs == {RoundRobinConfig}

=============================================================================
