-------------------------- MODULE MCConnectionTable --------------------------
(* ConnectionTable on small instances; connections and addresses are symmetric. *)
EXTENDS ConnectionTable, TLC

Symmetry == Permutations(Conns) \cup Permutations(IPs)
=============================================================================
