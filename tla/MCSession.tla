------------------------------ MODULE MCSession ------------------------------
(* Small systems for TLC: sessions, connections and streams are             *)
(* interchangeable.                                                         *)
EXTENDS Session, TLC

Symmetry == Permutations(Sessions) \cup Permutations(Conns) \cup Permutations(Streams)

=============================================================================
