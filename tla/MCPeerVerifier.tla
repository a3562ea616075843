--------------------------- MODULE MCPeerVerifier ---------------------------
(* Model checking of PeerVerifier: two SPKIs, two BLS keys and one bad      *)
(* point, and one leaf of every kind the verifier tells apart.              *)
EXTENDS PeerVerifier, TLC

CONSTANTS s1, s2, k1, k2, bad

Leaf(spki, ext) == [parses |-> TRUE, chains |-> TRUE, spki |-> spki, ext |-> ext]

Unbound == [kind |-> "none"]

MCLeaves ==
  { Leaf(s1, attach_binding(s1, k1)),                              \* bound
    Leaf(s2, attach_binding(s2, k2)),                              \* bound, another peer
    Leaf(s2, Unbound),                                             \* legacy peer
    Leaf(s2, attach_binding(s1, k1)),                              \* bound to another SPKI
    Leaf(s1, [kind |-> "other"]),                                  \* unknown version
    Leaf(s1, attach_binding(s1, bad)),                             \* not a public key
    [Leaf(s1, attach_binding(s1, k2)) EXCEPT !.chains = FALSE],    \* self-signed
    [Leaf(s2, Unbound) EXCEPT !.parses = FALSE, !.chains = FALSE]  \* not X.509
  }

ConnSymmetry == Permutations(Conns)

=============================================================================
