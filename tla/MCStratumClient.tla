-------------------------- MODULE MCStratumClient --------------------------
(* Instances of StratumClient: a is a plain pool given by its address whose *)
(* stratum mode has to be detected, b a TLS pool with two addresses.        *)
EXTENDS StratumClient

CONSTANTS a, b

MCPools == {a, b}
MCSecure == {b}
MCHosts == {b}
MCVersion == [p \in MCPools |-> IF p = a THEN AutoMode ELSE 1]
\* the pool a alone
MCPoolsPlain == {a}
MCVersionPlain == [p \in MCPoolsPlain |-> AutoMode]
MCNone == {}

=============================================================================
