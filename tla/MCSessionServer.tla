--------------------------- MODULE MCSessionServer ---------------------------
(* SessionServer on small instances.  Connections and addresses are            *)
(* interchangeable, tokens too; symmetry is used in the runs without liveness. *)
EXTENDS SessionServer, TLC

Symmetry == Permutations(Conns) \cup Permutations(IPs) \cup Permutations(Tokens)
=============================================================================
