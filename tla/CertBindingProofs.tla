-------------------------- MODULE CertBindingProofs --------------------------
(***************************************************************************)
(* What the checks of binding.rs establish, for every set of keys and      *)
(* SPKIs.                                                                  *)
(***************************************************************************)
EXTENDS CertBinding, TLAPS

(* A verified binding is one its BLS key attached to this very SPKI        *)
(* (verify_binding_from_leaf_cert): neither the key nor the SPKI can be    *)
(* another.                                                                *)
THEOREM BindingSound ==
  ASSUME NEW l, l.ext \in Extensions
  PROVE  /\ BindingVerifies(l) <=> BoundKeys(l) # {}
         /\ BindingVerifies(l) => l.ext.bls_pub \in BoundKeys(l)
<1> USE DEF BindingVerifies, BoundKeys, attach_binding, verify_signature,
            g1_subgroup_check, sign_message, Extensions, Signatures
<1>1. l.ext \in Extensions
  OBVIOUS
<1>2. CASE l.ext \in {[kind |-> "none"], [kind |-> "other"]}
  <2>1. l.ext.kind # "v1"
    BY <1>2
  <2>2. ASSUME NEW k \in BlsKeys PROVE l.ext # attach_binding(l.spki, k)
    BY <2>1
  <2> QED
    BY <2>1, <2>2
<1>3. CASE l.ext \in [kind : {"v1"}, bls_pub : BlsKeys \cup BadPoints, bls_sig : Signatures]
  <2>1. ASSUME BindingVerifies(l) PROVE l.ext.bls_pub \in BoundKeys(l)
    <3>1. l.ext.bls_pub \in BlsKeys
      BY <1>3, <2>1
    <3>2. l.ext = attach_binding(l.spki, l.ext.bls_pub)
      BY <1>3, <2>1
    <3> QED
      BY <3>1, <3>2
  <2>2. ASSUME NEW k \in BlsKeys, l.ext = attach_binding(l.spki, k)
        PROVE  BindingVerifies(l)
    BY <2>2, BindingAssumption
  <2> QED
    BY <2>1, <2>2
<1> QED
  BY <1>1, <1>2, <1>3

(* What verify_binding_from_leaf_cert answers, outcome by outcome.         *)
LEMMA VerifyOutcome ==
  ASSUME NEW l
  PROVE  LET b == verify_binding_from_leaf_cert(l)
         IN  \/ b = [outcome |-> "Invalid", bls_pub |-> NoBls]
             \/ b = [outcome |-> "Absent", bls_pub |-> NoBls] /\ l.ext.kind = "none"
             \/ b = [outcome |-> "Bound", bls_pub |-> l.ext.bls_pub] /\ BindingVerifies(l)
<1>1. CASE ~ l.parses
  BY <1>1, Zenon DEF verify_binding_from_leaf_cert
<1>2. CASE l.parses /\ l.ext.kind = "none"
  BY <1>2, Zenon DEF verify_binding_from_leaf_cert
<1>3. CASE l.parses /\ l.ext.kind # "none" /\ BindingVerifies(l)
  BY <1>3, Zenon DEF verify_binding_from_leaf_cert
<1>4. CASE l.parses /\ l.ext.kind # "none" /\ ~ BindingVerifies(l)
  BY <1>4, Zenon DEF verify_binding_from_leaf_cert
<1> QED
  BY <1>1, <1>2, <1>3, <1>4

(* What verification yields is a key of BlsKeys or none.                   *)
LEMMA EvaluatedType ==
  ASSUME NEW l, l.ext \in Extensions, NEW p \in Policies
  PROVE  evaluate(verify_binding_from_leaf_cert(l), p).bls_pub \in BlsKeys \cup {NoBls}
  BY BindingSound, VerifyOutcome DEF evaluate, BoundKeys

(* An accepted leaf is one the policy table admits, and what its           *)
(* evaluation yields is a key bound to it; Required yields a key.          *)
THEOREM AcceptedBinding ==
  ASSUME NEW l, l.ext \in Extensions, NEW p \in Policies,
         evaluate(verify_binding_from_leaf_cert(l), p).ok
  PROVE  LET k == evaluate(verify_binding_from_leaf_cert(l), p).bls_pub
         IN  /\ \/ p = "Off"
                \/ BoundKeys(l) # {}
                \/ p = "Opportunistic" /\ l.ext.kind = "none"
             /\ k = NoBls \/ k \in BoundKeys(l)
             /\ p = "Required" => k # NoBls
<1>1. CASE p = "Off"
  BY <1>1 DEF evaluate
<1>2. CASE p # "Off"
  BY <1>2, BindingSound, VerifyOutcome, BindingAssumption DEF evaluate, Accepts, BoundKeys
<1> QED
  BY <1>1, <1>2

(* The other way round, evaluate refuses no leaf that the policy admits:   *)
(* a leaf that parses is accepted if the policy is Off, the holder of a    *)
(* key has bound it, or there is no binding and need not be.               *)
THEOREM AdmissibleAccepted ==
  ASSUME NEW l, l.ext \in Extensions, l.parses, NEW p \in Policies,
         \/ p = "Off"
         \/ BoundKeys(l) # {}
         \/ p = "Opportunistic" /\ l.ext.kind = "none"
  PROVE  evaluate(verify_binding_from_leaf_cert(l), p).ok
<1>1. CASE p = "Off"
  BY <1>1 DEF evaluate, Accepts
<1>2. CASE BoundKeys(l) # {}
  <2>1. BindingVerifies(l) /\ l.ext.kind # "none"
    BY <1>2, BindingSound DEF BindingVerifies
  <2>2. verify_binding_from_leaf_cert(l).outcome = "Bound"
    <3>1. verify_binding_from_leaf_cert(l) = [outcome |-> "Bound", bls_pub |-> l.ext.bls_pub]
      BY <2>1, Zenon DEF verify_binding_from_leaf_cert
    <3> QED
      BY <3>1
  <2> QED
    BY <2>2 DEF evaluate, Accepts
<1>3. CASE p = "Opportunistic" /\ l.ext.kind = "none"
  <2>1. verify_binding_from_leaf_cert(l) = [outcome |-> "Absent", bls_pub |-> NoBls]
    BY <1>3, Zenon DEF verify_binding_from_leaf_cert
  <2> QED
    BY <1>3, <2>1 DEF evaluate, Accepts
<1> QED
  BY <1>1, <1>2, <1>3

=============================================================================
