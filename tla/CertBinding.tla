----------------------------- MODULE CertBinding -----------------------------
(***************************************************************************)
(* The BLS binding of a leaf certificate: src/src/binding.rs over          *)
(* src/src/bls.rs, and peer_id (src/src/identity.rs).                      *)
(*                                                                         *)
(* Cryptography is symbolic. A digest and a message are tuples of what     *)
(* they are computed from; a signature is the key that made it and the     *)
(* message it covers. A leaf is a record, of which this module reads:      *)
(*   parses  x509-parser reads it                                          *)
(*   spki    its SubjectPublicKeyInfo                                      *)
(*   ext     its binding extension, a member of Extensions                 *)
(***************************************************************************)

CONSTANTS
  Spkis,     \* the public keys of leaves
  BlsKeys,   \* the compressed G1 points that are proper public keys
  BadPoints, \* 48-byte strings that are not
  NoBls      \* no BLS public key

ASSUME BindingAssumption ==
  /\ BlsKeys \cap BadPoints = {}
  /\ NoBls \notin BlsKeys \cup BadPoints

Policies == {"Off", "Opportunistic", "Required"}

-----------------------------------------------------------------------------
(* identity.rs *)

peer_id_from_tls_spki_der(spki) == <<"SHA-256", spki>>

PeerIds == {peer_id_from_tls_spki_der(s) : s \in Spkis}

(* bls.rs: AugScheme signatures cover the key that made them. *)

sign_message(sk, msg) == [by |-> sk, over |-> msg]

g1_subgroup_check(pub) == pub \notin BadPoints

(* That the key is a proper one is left to g1_subgroup_check: a point      *)
(* outside BlsKeys may decode, and an identity point verify.               *)
verify_signature(pub, msg, sig) == sig = sign_message(pub, msg)

-----------------------------------------------------------------------------
(* binding.rs: the extension *)

BINDING_SIG_CONTEXT == "dig-nat/cert-bls-binding/v1"
Contexts            == {BINDING_SIG_CONTEXT, "another protocol"}

binding_message(spki) == <<BINDING_SIG_CONTEXT, spki>>

Signatures == [by : BlsKeys \cup BadPoints, over : Contexts \X Spkis]

(* "other" is any value that is not version 1 of the right length. *)
Extensions ==
  {[kind |-> "none"], [kind |-> "other"]}
  \cup [kind : {"v1"}, bls_pub : BlsKeys \cup BadPoints, bls_sig : Signatures]

attach_binding(spki, bls_sk) ==
  [kind    |-> "v1",
   bls_pub |-> bls_sk,
   bls_sig |-> sign_message(bls_sk, binding_message(spki))]

(* Faulty variants: the signature alone, and any signature of the key.     *)
BindingAnyPoint(leaf) ==
  /\ leaf.ext.kind = "v1"
  /\ verify_signature(leaf.ext.bls_pub, binding_message(leaf.spki), leaf.ext.bls_sig)

BindingAnyMessage(leaf) ==
  /\ leaf.ext.kind = "v1"
  /\ g1_subgroup_check(leaf.ext.bls_pub)
  /\ leaf.ext.bls_sig.by = leaf.ext.bls_pub

(* parse_binding_extension_value, then the two checks of the verifier.     *)
BindingVerifies(leaf) ==
  /\ leaf.ext.kind = "v1"
  /\ g1_subgroup_check(leaf.ext.bls_pub)
  /\ verify_signature(leaf.ext.bls_pub, binding_message(leaf.spki), leaf.ext.bls_sig)

(* Not of the code, but what it is to find out: the keys whose holders     *)
(* attached the binding of a leaf to this very SPKI.                       *)
BoundKeys(leaf) == {k \in BlsKeys : leaf.ext = attach_binding(leaf.spki, k)}

verify_binding_from_leaf_cert(leaf) ==
  IF ~ leaf.parses               THEN [outcome |-> "Invalid", bls_pub |-> NoBls]
  ELSE IF leaf.ext.kind = "none" THEN [outcome |-> "Absent",  bls_pub |-> NoBls]
  ELSE IF BindingVerifies(leaf)  THEN [outcome |-> "Bound",   bls_pub |-> leaf.ext.bls_pub]
  ELSE                                [outcome |-> "Invalid", bls_pub |-> NoBls]

-----------------------------------------------------------------------------
(* evaluate: Ok(bls_pub), with NoBls for Ok(None), or Err *)

(* Faulty variant: a stripped extension passes Required.                   *)
AcceptsStripped(outcome, policy) == policy = "Off" \/ outcome \in {"Bound", "Absent"}

Accepts(outcome, policy) ==
  \/ policy = "Off"
  \/ outcome = "Bound"
  \/ outcome = "Absent" /\ policy = "Opportunistic"

evaluate(result, policy) ==
  [ok      |-> Accepts(result.outcome, policy),
   bls_pub |-> IF policy = "Off" THEN NoBls ELSE result.bls_pub]

=============================================================================
