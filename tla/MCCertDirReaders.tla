-------------------------- MODULE MCCertDirReaders --------------------------
(* Model checking of CertDirReaders: identities are interchangeable. *)
EXTENDS CertDirReaders, TLC

IdSymmetry == Permutations(Ids)

=============================================================================
