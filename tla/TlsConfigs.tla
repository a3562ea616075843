------------------------------ MODULE TlsConfigs ------------------------------
(***************************************************************************)
(* The rustls configurations of src/src/config.rs, each by the verifier of *)
(* src/src/verify.rs it is built around.                                   *)
(***************************************************************************)
EXTENDS CertBinding

CONSTANT NoPeer  \* no peer_id: `expected` is None, a cell is empty

ASSUME ConfigAssumption == NoPeer \notin PeerIds

(* DigServerCertVerifier and DigClientCertVerifier keep the same fields.   *)
Verifier(require_ca_chain, expected, policy) ==
  [require_ca_chain |-> require_ca_chain, expected |-> expected, binding_policy |-> policy]

new(expected, policy)             == Verifier(TRUE, expected, policy)
new_spki_pinned(expected, policy) == Verifier(FALSE, expected, policy)

server_config(policy)                       == new(NoPeer, policy)
client_config(expected, policy)             == new(expected, policy)
server_config_spki_pinned(policy)           == new_spki_pinned(NoPeer, policy)
client_config_spki_pinned(expected, policy) == new_spki_pinned(expected, policy)

ServerConfigs ==
  {server_config(p) : p \in Policies} \cup {server_config_spki_pinned(p) : p \in Policies}

ClientConfigs ==
  {client_config(e, p) : e \in PeerIds \cup {NoPeer}, p \in Policies}
  \cup {client_config_spki_pinned(e, p) : e \in PeerIds \cup {NoPeer}, p \in Policies}

Configs == ServerConfigs \cup ClientConfigs

=============================================================================
