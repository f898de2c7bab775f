-------------------------- MODULE MCConnectionPool --------------------------
(* Small pools for TLC: who asks for which address, and which connection     *)
(* identities belong to which address.                                       *)
EXTENDS ConnectionPool, TLC

CONSTANTS t1, t2, t3, a, b, ca1, ca2, ca3, cb1, cb2

OneAddr == {a}
TwoAddrs == {a, b}

\* One address: every caller competes for the same connections.
TargetOneAddr == [t \in Callers |-> a]
AddrOneAddr == [c \in Conns |-> a]

\* Two addresses: t2 alone asks for b.
TargetTwoAddrs == [t \in Callers |-> IF t = t2 THEN b ELSE a]
AddrTwoAddrs == [c \in Conns |-> IF c \in {cb1, cb2} THEN b ELSE a]

\* Callers of one address are interchangeable, so are its connections.
SymOneAddr == Permutations(Callers) \cup Permutations(Conns)

=============================================================================
