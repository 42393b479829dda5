--------------------------- MODULE MCPoolManager ---------------------------
(* Instances of PoolManager: a, b and c are the pools.                      *)
EXTENDS PoolManager

CONSTANTS a, b, c

MCPools == {a, b, c}
MCPoolsPair == {a, b}
MCConfigured == <<a, b>>
MCSecure == {b}
MCReachable == {b, c}
MCReachablePair == {b}
\* every pool has a scheme that names its stratum mode
MCVersion == [p \in MCPools |-> 1]
MCVersionPair == [p \in MCPoolsPair |-> 1]
\* the mode of b has to be detected
MCVersionDetect == [p \in MCPoolsPair |-> IF p = b THEN AutoMode ELSE 1]
MCVersionDetectAll == [p \in MCPools |-> IF p = b THEN AutoMode ELSE 1]
MCExit == {}
\* c is the entry "exit" that ends the failover loop
MCExitLast == {c}

=============================================================================
