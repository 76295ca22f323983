----------------------------- MODULE MCMcpSession -----------------------------
(* Two clients; the first runs two servers and uses two threads, the second   *)
(* one of each. The thread of the second is also one of the first.            *)
EXTENDS McpSession, TLC

CONSTANTS alice, bob, v1, v2, v3, t1, t2

MCClients == {alice, bob}
MCServers == {v1, v2, v3}
MCThreads == {t1, t2}
MCClientOf == (v1 :> alice) @@ (v2 :> alice) @@ (v3 :> bob)
MCThreadsOf == (alice :> {t1, t2}) @@ (bob :> {t2})

Symmetry == Permutations(Sessions) \cup Permutations({v1, v2})
=============================================================================
