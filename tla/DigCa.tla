-------------------------------- MODULE DigCa --------------------------------
(***************************************************************************)
(* The DigNetwork CA (src/src/ca.rs), the leaves it signs                  *)
(* (NodeCert::generate_signed_by in src/src/node_cert.rs) and the chain    *)
(* check (src/src/verify.rs). Times are minutes. The path validation of    *)
(* webpki is external, by what the verifier asks of it; a key is a symbol. *)
(***************************************************************************)
EXTENDS CertBinding, Integers

CONSTANTS
  CaKeys,     \* the keys CAs sign with
  DIG_CA_KEY  \* the key of the shipped CA

ASSUME CaAssumption == DIG_CA_KEY \in CaKeys

Day                 == 24 * 60
CLOCK_SKEW_BACKDATE == 60
LEAF_LIFETIME       == 365 * 10 * Day
CA_LIFETIME         == 365 * 100 * Day
CA_COMMON_NAME      == "DIG Network CA"

generate_dig_ca(key, now) ==
  [subject    |-> CA_COMMON_NAME,
   key        |-> key,
   not_before |-> now - CLOCK_SKEW_BACKDATE,
   not_after  |-> now + CA_LIFETIME]

(* The issuer handle: the name of the certificate and the key it is given. *)
from_pem(cert, key) == [subject |-> cert.subject, key |-> key]

(* The anchor in DIG_CA_CERT_PEM; nothing reads its validity.              *)
embedded_ca_cert_der == generate_dig_ca(DIG_CA_KEY, 0)

embedded == from_pem(embedded_ca_cert_der, DIG_CA_KEY)

(* Faulty variant: the leaf of a server only.                              *)
ServerUsage == {"serverAuth"}

BothUsages == {"serverAuth", "clientAuth"}

(* Faulty variant: not_before is the time of issuance.                     *)
GenerateNotBackdated(ca, spki, bls_sk, now) ==
  [parses |-> TRUE, spki |-> spki, ext |-> attach_binding(spki, bls_sk),
   issuer |-> ca.subject, signed_by |-> ca.key,
   not_before |-> now, not_after |-> now + LEAF_LIFETIME, ekus |-> BothUsages]

generate_signed_by(ca, spki, bls_sk, now) ==
  [parses     |-> TRUE,
   spki       |-> spki,
   ext        |-> attach_binding(spki, bls_sk),
   issuer     |-> ca.subject,
   signed_by  |-> ca.key,
   not_before |-> now - CLOCK_SKEW_BACKDATE,
   not_after  |-> now + LEAF_LIFETIME,
   ekus       |-> BothUsages]

generate_signed(spki, bls_sk, now) == generate_signed_by(embedded, spki, bls_sk, now)

(* Faulty variant: the issuer is compared by its name.                     *)
ChainByName(leaf, now, usage) ==
  /\ leaf.issuer = embedded_ca_cert_der.subject
  /\ leaf.not_before <= now /\ now <= leaf.not_after
  /\ usage \in leaf.ekus

verify_chain_to_dig_ca(leaf, now, usage) ==
  /\ leaf.issuer = embedded_ca_cert_der.subject
  /\ leaf.signed_by = embedded_ca_cert_der.key
  /\ leaf.not_before <= now /\ now <= leaf.not_after
  /\ usage \in leaf.ekus

=============================================================================
