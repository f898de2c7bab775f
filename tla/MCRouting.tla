----------------------------- MODULE MCRouting -----------------------------
(* A small cluster for TLC: a router r and the servers s1 and s2.            *)
EXTENDS Routing

CONSTANTS read, write, verify, r, s1, s2

RoleOfCaller == [c \in Callers |-> CASE c = read   -> "reader"
                                     [] c = write  -> "writer"
                                     [] c = verify -> "router"]
NoResolver == [a \in Addrs |-> a]
TwoRouters == <<r, s2>>

\* The cluster with its leader s2, and during an election, without a writer.
Full == [router |-> {r, s2}, reader |-> {s1, s2}, writer |-> {s2}]
Electing == [router |-> {r}, reader |-> {s1, s2}, writer |-> {}]
\* NoServers: an answer whose "servers" are missing or cannot be read.
ClusterAnswers == {Full, Electing, NoServers}
HealthyAnswers == {Full}
=============================================================================
