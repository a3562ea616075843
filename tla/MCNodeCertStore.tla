--------------------------- MODULE MCNodeCertStore ---------------------------
(* Model checking of NodeCertStore: identities are interchangeable. *)
EXTENDS NodeCertStore, TLC

IdSymmetry == Permutations(Ids)

=============================================================================
