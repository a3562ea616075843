------------------------- MODULE PeerVerifierProofs -------------------------
(***************************************************************************)
(* Safety of PeerVerifier for every set of connections, of leaves and of   *)
(* keys, with and without resumption, whatever the application's schedule. *)
(***************************************************************************)
EXTENDS PeerVerifier, CertBindingProofs

-----------------------------------------------------------------------------
(* Typing *)

LEMMA ConfigType ==
  ASSUME NEW cfg \in Configs
  PROVE  cfg.binding_policy \in Policies /\ cfg.expected \in PeerIds \cup {NoPeer}
<1>1. CASE \E p \in Policies : cfg = server_config(p) \/ cfg = server_config_spki_pinned(p)
  BY <1>1 DEF server_config, server_config_spki_pinned, new, new_spki_pinned, Verifier
<1>2. CASE \E e \in PeerIds \cup {NoPeer}, p \in Policies :
             cfg = client_config(e, p) \/ cfg = client_config_spki_pinned(e, p)
  BY <1>2 DEF client_config, client_config_spki_pinned, new, new_spki_pinned, Verifier
<1> QED
  BY <1>1, <1>2 DEF Configs, ServerConfigs, ClientConfigs

(* A connection that has left "new" has a leaf, which never changes.       *)
LeafInv == \A c \in Conns : pc[c] = "new" <=> leaf[c] = NoLeaf

TypeInv == TypeOK /\ LeafInv

LEMMA TypeInit == Init => TypeInv
  BY VerifierAssumption DEF Init, TypeInv, TypeOK, LeafInv

LEMMA TypeNext == TypeInv /\ [Next]_vars => TypeInv'
<1> SUFFICES ASSUME TypeInv, [Next]_vars PROVE TypeInv'
  OBVIOUS
<1> USE VerifierAssumption DEF TypeInv, TypeOK, LeafInv, Verifying, Refused, Done,
        Accepted, fixed, peers, cells, Step
<1>1. ASSUME NEW c \in Conns, PresentLeaf(c) PROVE TypeInv'
  BY <1>1 DEF PresentLeaf
<1>2. ASSUME NEW c \in Conns, Resume(c) PROVE TypeInv'
  BY <1>2 DEF Resume
<1>3. ASSUME NEW c \in Conns, VerifyChain(c) \/ CheckPin(c) \/ CheckBinding(c)
      PROVE  TypeInv'
  BY <1>3 DEF VerifyChain, CheckPin, CheckBinding, Judge
<1>4. ASSUME NEW c \in Conns, CapturePeerId(c) PROVE TypeInv'
  <2>1. leaf[c] \in Leaves
    BY <1>4 DEF CapturePeerId
  <2>2. derived(c) \in PeerIds
    BY <2>1 DEF derived, PeerIds
  <2> QED
    BY <1>4, <2>2 DEF CapturePeerId
<1>5. ASSUME NEW c \in Conns, CaptureBls(c) PROVE TypeInv'
  <2>1. leaf[c] \in Leaves
    BY <1>5 DEF CaptureBls
  <2>2. Evaluated(c).bls_pub \in BlsKeys \cup {NoBls}
    BY <2>1, EvaluatedType, ConfigType DEF Evaluated
  <2> QED
    BY <1>5, <2>2 DEF CaptureBls
<1>6. ASSUME NEW c \in Conns, VerifySignature(c) PROVE TypeInv'
  BY <1>6 DEF VerifySignature
<1>7. ASSUME NEW c \in Conns, Drop(c) PROVE TypeInv'
  BY <1>7 DEF Drop
<1>8. ASSUME NEW c \in Conns, GetPeerId(c) \/ GetBls(c) PROVE TypeInv'
  <2>1. seen[c] \in [peer_id : PeerIds \cup {NoPeer}, bls_pub : BlsKeys \cup {NoBls}]
    OBVIOUS
  <2>2. CASE GetPeerId(c)
    BY <2>1, <2>2 DEF GetPeerId
  <2>3. CASE GetBls(c)
    BY <2>1, <2>3 DEF GetBls
  <2> QED
    BY <1>8, <2>2, <2>3
<1>9. CASE UNCHANGED vars
  BY <1>9 DEF vars
<1> QED
  BY <1>1, <1>2, <1>3, <1>4, <1>5, <1>6, <1>7, <1>8, <1>9
  DEF Next, Handshake, Application

(* Every reachable state is well typed; a key outside the proper BLS keys  *)
(* is never captured.                                                      *)
THEOREM VerifierTypeCorrect == Spec => []TypeOK
<1>1. TypeInv => TypeOK
  BY DEF TypeInv
<1> QED
  BY <1>1, TypeInit, TypeNext, PTL DEF Spec

-----------------------------------------------------------------------------
(* What each point of verify_server_cert has established of the leaf *)

ChainOk(c) == config.require_ca_chain => verify_chain_to_dig_ca(leaf[c])
PinOk(c)   == config.expected # NoPeer => derived(c) = config.expected

AfterChain   == {"capture", "pin", "bind", "captureBls", "signature"} \cup Accepted
AfterCapture == AfterChain \ {"capture"}
AfterPin     == AfterCapture \ {"pin"}
AfterBinding == AfterPin \ {"bind"}

DecisionInv ==
  /\ \A c \in Conns :
       /\ pc[c] \in AfterChain => ChainOk(c)
       /\ pc[c] \in AfterCapture => leaf[c].parses
       /\ pc[c] \in AfterPin => PinOk(c)
       /\ pc[c] \in AfterBinding => Admissible(leaf[c])
       /\ pc[c] \in Accepted => owns[c]
       /\ pc[c] \in Refused \ {"badSignature"} => ~ Admissible(leaf[c])
  /\ \A l \in tickets : Admissible(l)

(* The verifier's decision on a binding is the policy table's.             *)
LEMMA EvaluateAdmits ==
  ASSUME NEW l \in Leaves, l.parses, NEW p \in Policies
  PROVE  evaluate(verify_binding_from_leaf_cert(l), p).ok
         <=> \/ p = "Off"
             \/ BoundKeys(l) # {}
             \/ p = "Opportunistic" /\ l.ext.kind = "none"
<1>1. l.ext \in Extensions
  BY VerifierAssumption
<1> QED
  BY <1>1, BindingSound
  DEF evaluate, Accepts, verify_binding_from_leaf_cert, BindingVerifies, Policies

LEMMA DecisionInit == Init => DecisionInv
  BY DEF Init, DecisionInv, AfterChain, AfterCapture, AfterPin, AfterBinding, Accepted, Refused

LEMMA DecisionNext == TypeInv /\ DecisionInv /\ [Next]_vars => DecisionInv'
<1> SUFFICES ASSUME TypeInv, DecisionInv, [Next]_vars PROVE DecisionInv'
  OBVIOUS
<1> USE DEF TypeInv, TypeOK, LeafInv, DecisionInv, ChainOk, PinOk, derived, Admissible,
            verify_chain_to_dig_ca, AfterChain, AfterCapture, AfterPin, AfterBinding,
            Verifying, Refused, Done, Accepted, fixed, peers, cells, Step
<1>1. ASSUME NEW c \in Conns, PresentLeaf(c) PROVE DecisionInv'
  BY <1>1 DEF PresentLeaf
<1>2. ASSUME NEW c \in Conns, Resume(c) PROVE DecisionInv'
  BY <1>2 DEF Resume
<1>3. ASSUME NEW c \in Conns, VerifyChain(c) PROVE DecisionInv'
  BY <1>3 DEF VerifyChain, Judge
<1>4. ASSUME NEW c \in Conns, CapturePeerId(c) PROVE DecisionInv'
  BY <1>4 DEF CapturePeerId
<1>5. ASSUME NEW c \in Conns, CheckPin(c) PROVE DecisionInv'
  BY <1>5 DEF CheckPin, Judge
<1>6. ASSUME NEW c \in Conns, CheckBinding(c) PROVE DecisionInv'
  <2>1. leaf[c] \in Leaves /\ leaf[c].parses
    BY <1>6 DEF CheckBinding, Judge
  <2>2. config.binding_policy \in Policies
    BY ConfigType
  <2>3. Evaluated(c).ok <=> Admissible(leaf[c])
    BY <1>6, <2>1, <2>2, EvaluateAdmits DEF Evaluated, CheckBinding, Judge
  <2> QED
    BY <1>6, <2>3 DEF CheckBinding, Judge
<1>7. ASSUME NEW c \in Conns, CaptureBls(c) PROVE DecisionInv'
  BY <1>7 DEF CaptureBls
<1>8. ASSUME NEW c \in Conns, VerifySignature(c) PROVE DecisionInv'
  BY <1>8 DEF VerifySignature
<1>9. ASSUME NEW c \in Conns, Drop(c) PROVE DecisionInv'
  BY <1>9 DEF Drop
<1>10. ASSUME NEW c \in Conns, GetPeerId(c) \/ GetBls(c) PROVE DecisionInv'
  <2>1. CASE GetPeerId(c)
    BY <2>1 DEF GetPeerId
  <2>2. CASE GetBls(c)
    BY <2>2 DEF GetBls
  <2> QED
    BY <1>10, <2>1, <2>2
<1>11. CASE UNCHANGED vars
  BY <1>11 DEF vars
<1> QED
  BY <1>1, <1>2, <1>3, <1>4, <1>5, <1>6, <1>7, <1>8, <1>9, <1>10, <1>11
  DEF Next, Handshake, Application

(* A connection is established, by a full handshake or by a resumed        *)
(* session, only with a peer that holds the key of a leaf the policy       *)
(* admits, and the verifier refuses no leaf the policy admits.             *)
THEOREM DecisionCorrect == Spec => []DecisionFollowsPolicy
<1>1. DecisionInv => DecisionFollowsPolicy
  BY DEF DecisionInv, DecisionFollowsPolicy, AfterBinding, AfterPin, AfterCapture,
         AfterChain, Accepted
<1> QED
  BY <1>1, TypeInit, TypeNext, DecisionInit, DecisionNext, PTL DEF Spec

-----------------------------------------------------------------------------
(* The cells *)

(* Either cell changes in one action only; a leaf, once presented, stays.  *)
LEMMA CellsChange ==
  ASSUME TypeInv, [Next]_vars
  PROVE  /\ config' = config
         /\ \A c \in Conns : leaf[c] # NoLeaf => leaf'[c] = leaf[c]
         /\ captured' # captured => \E c \in Conns : CapturePeerId(c)
         /\ captured_bls' # captured_bls => \E c \in Conns : CaptureBls(c)
<1> USE DEF TypeInv, TypeOK, LeafInv, fixed, peers, cells, Step
<1>1. ASSUME NEW d \in Conns, PresentLeaf(d) \/ Resume(d)
      PROVE  /\ UNCHANGED <<config, cells>>
             /\ \A c \in Conns : leaf[c] # NoLeaf => leaf'[c] = leaf[c]
  BY <1>1 DEF PresentLeaf, Resume
<1>2. ASSUME NEW d \in Conns,
             \/ VerifyChain(d) \/ CheckPin(d) \/ CheckBinding(d) \/ VerifySignature(d)
             \/ Drop(d) \/ GetPeerId(d) \/ GetBls(d)
      PROVE  UNCHANGED <<config, cells, leaf>>
  BY <1>2 DEF VerifyChain, CheckPin, CheckBinding, Judge, VerifySignature, Drop,
              GetPeerId, GetBls
<1>3. ASSUME NEW d \in Conns, CapturePeerId(d)
      PROVE  UNCHANGED <<config, captured_bls, leaf>>
  BY <1>3 DEF CapturePeerId
<1>4. ASSUME NEW d \in Conns, CaptureBls(d)
      PROVE  UNCHANGED <<config, captured, leaf>>
  BY <1>4 DEF CaptureBls
<1>5. CASE UNCHANGED vars
  BY <1>5 DEF vars
<1> QED
  BY <1>1, <1>2, <1>3, <1>4, <1>5 DEF Next, Handshake, Application

LEMMA BlsNext ==
  TypeInv /\ DecisionInv /\ CapturedBlsIsBound /\ [Next]_vars => CapturedBlsIsBound'
<1> SUFFICES ASSUME TypeInv, DecisionInv, CapturedBlsIsBound, [Next]_vars,
                    captured_bls' # NoBls
             PROVE  \E c \in Conns : /\ leaf'[c] # NoLeaf
                                     /\ Admissible(leaf[c])'
                                     /\ captured_bls' \in BoundKeys(leaf'[c])
  BY DEF CapturedBlsIsBound
<1>1. PICK c \in Conns : /\ leaf[c] # NoLeaf
                         /\ Admissible(leaf[c])
                         /\ captured_bls' \in BoundKeys(leaf[c])
  <2>1. CASE captured_bls' = captured_bls
    BY <2>1 DEF CapturedBlsIsBound
  <2>2. ASSUME NEW c \in Conns, CaptureBls(c)
        PROVE  /\ leaf[c] # NoLeaf /\ Admissible(leaf[c])
               /\ captured_bls' \in BoundKeys(leaf[c])
    <3>1. leaf[c] \in Leaves /\ leaf[c] # NoLeaf /\ Admissible(leaf[c])
      BY <2>2 DEF CaptureBls, Step, TypeInv, TypeOK, LeafInv, DecisionInv, AfterBinding,
                  AfterPin, AfterCapture, AfterChain
    <3>2. captured_bls' = Evaluated(c).bls_pub
      BY <2>2 DEF CaptureBls
    <3>3. BindingVerifies(leaf[c]) /\ captured_bls' = leaf[c].ext.bls_pub
      BY <3>2 DEF Evaluated, evaluate, verify_binding_from_leaf_cert
    <3>4. leaf[c].ext \in Extensions
      BY <3>1, VerifierAssumption
    <3> QED
      BY <3>1, <3>3, <3>4, BindingSound
  <2> QED
    BY <2>1, <2>2, CellsChange
<1>2. leaf'[c] = leaf[c] /\ config' = config
  BY <1>1, CellsChange
<1> QED
  BY <1>1, <1>2 DEF Admissible

(* Whatever connections share the configuration, a captured BLS key is     *)
(* bound to the SPKI of a leaf the policy admits.                          *)
THEOREM BlsCellCorrect == Spec => []CapturedBlsIsBound
<1>1. Init => CapturedBlsIsBound
  BY DEF Init, CapturedBlsIsBound
<1> QED
  BY <1>1, TypeInit, TypeNext, DecisionInit, DecisionNext, BlsNext, PTL DEF Spec

LEMMA ForeignNext ==
  TypeInv /\ DecisionInv /\ ForeignNeverCaptured /\ [Next]_vars => ForeignNeverCaptured'
<1> SUFFICES ASSUME TypeInv, DecisionInv, ForeignNeverCaptured, [Next]_vars,
                    config'.require_ca_chain, captured' # NoPeer
             PROVE  \E c \in Conns : /\ leaf'[c] # NoLeaf /\ leaf'[c].chains
                                     /\ derived(c)' = captured'
  BY DEF ForeignNeverCaptured
<1>1. PICK c \in Conns : /\ leaf[c] # NoLeaf /\ leaf[c].chains
                         /\ derived(c) = captured'
  <2>1. config.require_ca_chain
    BY CellsChange
  <2>2. CASE captured' = captured
    BY <2>1, <2>2 DEF ForeignNeverCaptured
  <2>3. ASSUME NEW c \in Conns, CapturePeerId(c), captured' # captured
        PROVE  leaf[c] # NoLeaf /\ leaf[c].chains /\ derived(c) = captured'
    <3>1. ChainOk(c) /\ leaf[c] # NoLeaf
      BY <2>3 DEF CapturePeerId, Step, TypeInv, LeafInv, DecisionInv, AfterChain
    <3> QED
      BY <2>1, <2>3, <3>1 DEF CapturePeerId, ChainOk, verify_chain_to_dig_ca
  <2> QED
    BY <2>2, <2>3, CellsChange
<1>2. leaf'[c] = leaf[c]
  BY <1>1, CellsChange
<1> QED
  BY <1>1, <1>2 DEF derived

(* Under a configuration that requires the CA, no refused stranger's       *)
(* identity reaches the application.                                       *)
THEOREM PeerCellCorrect == Spec => []ForeignNeverCaptured
<1>1. Init => ForeignNeverCaptured
  BY DEF Init, ForeignNeverCaptured
<1> QED
  BY <1>1, TypeInit, TypeNext, DecisionInit, DecisionNext, ForeignNext, PTL DEF Spec

-----------------------------------------------------------------------------
(* One connection at a time *)

Busy == Verifying \cup {"established", "readBls"}

(* With Off the BLS cell is never written.                                 *)
OffInv ==
  /\ \A c \in Conns : pc[c] \in {"bind", "captureBls"} => config.binding_policy # "Off"
  /\ config.binding_policy = "Off" => captured_bls = NoBls

SoleInv == schedule = "alone" => \A c, d \in Conns : pc[c] \in Busy /\ pc[d] \in Busy => c = d

(* What the cells hold of the peer of c, and c's application has read.     *)
ExactFor(c) ==
  /\ pc[c] \in Busy \ {"chain", "capture"} => captured = derived(c)
  /\ pc[c] \in {"signature", "established", "readBls"} => captured_bls = WhatPeerIs(c).bls_pub
  /\ pc[c] \in {"readBls", "read"} => seen[c].peer_id = derived(c)
  /\ pc[c] = "read" => seen[c].bls_pub = WhatPeerIs(c).bls_pub

AloneInv == OffInv /\ SoleInv /\ (schedule = "alone" => \A c \in Conns \ resumed : ExactFor(c))

(* What CaptureBls writes is what the peer is: a leaf has one bound key.   *)
LEMMA EvaluatedIsExact ==
  ASSUME NEW c \in Conns, leaf[c] \in Leaves, leaf[c].parses, config \in Configs,
         config.binding_policy # "Off"
  PROVE  Evaluated(c).bls_pub = WhatPeerIs(c).bls_pub
<1>1. leaf[c].ext \in Extensions
  BY VerifierAssumption
<1>2. \A k \in BoundKeys(leaf[c]) : k = leaf[c].ext.bls_pub
  BY DEF BoundKeys, attach_binding
<1>3. CASE BindingVerifies(leaf[c])
  <2>1. BoundKeys(leaf[c]) = {leaf[c].ext.bls_pub}
    BY <1>1, <1>2, <1>3, BindingSound
  <2>2. Evaluated(c).bls_pub = leaf[c].ext.bls_pub
    BY <1>3 DEF Evaluated, evaluate, verify_binding_from_leaf_cert, BindingVerifies
  <2> QED
    BY <2>1, <2>2 DEF WhatPeerIs
<1>4. CASE ~ BindingVerifies(leaf[c])
  <2>1. BoundKeys(leaf[c]) = {}
    BY <1>1, <1>4, BindingSound
  <2>2. Evaluated(c).bls_pub = NoBls
    BY <1>4 DEF Evaluated, evaluate, verify_binding_from_leaf_cert
  <2> QED
    BY <2>1, <2>2 DEF WhatPeerIs
<1> QED
  BY <1>3, <1>4

LEMMA OffNext == TypeInv /\ OffInv /\ [Next]_vars => OffInv'
<1> SUFFICES ASSUME TypeInv, OffInv, [Next]_vars PROVE OffInv'
  OBVIOUS
<1>1. CASE UNCHANGED vars
  BY <1>1 DEF vars, fixed, cells, OffInv
<1>2. ASSUME NEW c \in Conns, Handshake(c) \/ Application(c) PROVE OffInv'
  BY <1>2 DEF TypeInv, TypeOK, OffInv, fixed, cells, Step, Handshake, Application, PresentLeaf,
              Resume, VerifyChain, CapturePeerId, CheckPin, CheckBinding, CaptureBls,
              VerifySignature, Drop, GetPeerId, GetBls, Judge
<1> QED
  BY <1>1, <1>2 DEF Next

LEMMA SoleNext == TypeInv /\ SoleInv /\ [Next]_vars => SoleInv'
<1> SUFFICES ASSUME TypeInv, SoleInv, [Next]_vars PROVE SoleInv'
  OBVIOUS
<1>1. CASE UNCHANGED vars
  BY <1>1 DEF vars, fixed, SoleInv
<1>2. ASSUME NEW c \in Conns, PresentLeaf(c) \/ Resume(c) PROVE SoleInv'
  BY <1>2 DEF TypeInv, TypeOK, SoleInv, Busy, Verifying, Done, Refused, fixed, Step,
              PresentLeaf, Resume, MayStart
<1>3. ASSUME NEW c \in Conns, Handshake(c) \/ Application(c),
             ~ PresentLeaf(c), ~ Resume(c)
      PROVE  SoleInv'
  <2>1. pc[c] \in Busy /\ schedule' = schedule /\ pc' = [pc EXCEPT ![c] = pc'[c]]
    BY <1>3 DEF TypeInv, TypeOK, Busy, Verifying, fixed, Step, Handshake, Application,
                VerifyChain, CapturePeerId, CheckPin, CheckBinding, CaptureBls,
                VerifySignature, Drop, GetPeerId, GetBls, Judge
  <2> QED
    BY <2>1 DEF SoleInv, TypeInv, TypeOK
<1> QED
  BY <1>1, <1>2, <1>3 DEF Next

(* The peer of a connection does not change.                               *)
LEMMA PeerStays ==
  ASSUME TypeInv, [Next]_vars, NEW c \in Conns, leaf[c] # NoLeaf
  PROVE  derived(c)' = derived(c) /\ WhatPeerIs(c)' = WhatPeerIs(c)
  BY CellsChange DEF derived, WhatPeerIs

(* A connection that does not move, while another has the cells, keeps     *)
(* what it has read.                                                       *)
LEMMA OthersStay ==
  ASSUME TypeInv, [Next]_vars, NEW d \in Conns, ExactFor(d), pc[d] \notin Busy,
         pc'[d] = pc[d], seen'[d] = seen[d]
  PROVE  ExactFor(d)'
  BY PeerStays DEF ExactFor, Busy, Verifying, TypeInv, LeafInv

LEMMA ExactNext ==
  ASSUME TypeInv, DecisionInv, AloneInv, [Next]_vars, schedule = "alone",
         NEW c \in Conns, Handshake(c) \/ Application(c), c \notin resumed'
  PROVE  ExactFor(c)'
<1> USE DEF TypeInv, TypeOK, LeafInv, Busy, Verifying, Refused, Done, Accepted, fixed, peers,
            cells, Step, AloneInv, ExactFor
<1>1. CASE PresentLeaf(c)
  BY <1>1 DEF PresentLeaf
<1>2. CASE Resume(c)
  BY <1>2 DEF Resume
<1>3. CASE leaf[c] # NoLeaf /\ ~ Resume(c)
  <2>0. /\ derived(c)' = derived(c) /\ WhatPeerIs(c)' = WhatPeerIs(c)
        /\ c \notin resumed => ExactFor(c)
    BY <1>3, PeerStays
  <2>1. CASE VerifyChain(c) \/ CheckBinding(c)
    BY <2>0, <2>1 DEF VerifyChain, CheckBinding, Judge
  <2>2. CASE CheckPin(c)
    <3>1. config.binding_policy = "Off" => captured_bls = WhatPeerIs(c).bls_pub
      BY DEF OffInv, WhatPeerIs
    <3> QED
      BY <2>0, <2>2, <3>1 DEF CheckPin, Judge
  <2>3. CASE CapturePeerId(c)
    BY <2>0, <2>3 DEF CapturePeerId
  <2>4. CASE CaptureBls(c)
    <3>1. leaf[c] \in Leaves /\ leaf[c].parses /\ config.binding_policy # "Off"
      BY <2>4 DEF CaptureBls, DecisionInv, AfterCapture, AfterChain, OffInv
    <3>2. captured_bls' = WhatPeerIs(c).bls_pub
      BY <2>4, <3>1, EvaluatedIsExact DEF CaptureBls
    <3> QED
      BY <2>0, <2>4, <3>2 DEF CaptureBls
  <2>5. CASE VerifySignature(c) \/ Drop(c)
    BY <2>0, <2>5 DEF VerifySignature, Drop
  <2>6. CASE GetPeerId(c)
    <3>1. seen'[c].peer_id = captured
      BY <2>6 DEF GetPeerId
    <3> QED
      BY <2>0, <2>6, <3>1 DEF GetPeerId
  <2>7. CASE GetBls(c)
    <3>1. seen'[c].bls_pub = captured_bls /\ seen'[c].peer_id = seen[c].peer_id
      BY <2>7 DEF GetBls
    <3> QED
      BY <2>0, <2>7, <3>1 DEF GetBls
  <2> QED
    BY <1>3, <2>1, <2>2, <2>3, <2>4, <2>5, <2>6, <2>7 DEF Handshake, Application, PresentLeaf
<1> QED
  BY <1>1, <1>2, <1>3
  DEF Handshake, Application, VerifyChain, CapturePeerId, CheckPin, CheckBinding, CaptureBls,
      VerifySignature, Drop, GetPeerId, GetBls, Judge

LEMMA AloneNext == TypeInv /\ DecisionInv /\ AloneInv /\ [Next]_vars => AloneInv'
<1> SUFFICES ASSUME TypeInv, DecisionInv, AloneInv, [Next]_vars PROVE AloneInv'
  OBVIOUS
<1>1. OffInv' /\ SoleInv'
  BY OffNext, SoleNext DEF AloneInv
<1>2. CASE UNCHANGED vars
  BY <1>1, <1>2, Zenon
  DEF vars, fixed, peers, cells, AloneInv, ExactFor, derived, WhatPeerIs
<1>3. ASSUME NEW c \in Conns, Handshake(c) \/ Application(c), schedule' = "alone",
             NEW d \in Conns, d \notin resumed'
      PROVE  ExactFor(d)'
  <2>1. schedule = "alone" /\ d \notin resumed
    BY <1>3 DEF Handshake, Application, PresentLeaf, Resume, VerifyChain, CapturePeerId,
                CheckPin, CheckBinding, CaptureBls, VerifySignature, Drop, GetPeerId,
                GetBls, Judge, fixed
  <2>2. CASE d = c
    BY <1>3, <2>1, <2>2, ExactNext
  <2>3. CASE d # c
    <3>1. pc'[d] = pc[d] /\ seen'[d] = seen[d]
      BY <1>3, <2>3
      DEF TypeInv, TypeOK, Handshake, Application, PresentLeaf, Resume, VerifyChain,
          CapturePeerId, CheckPin, CheckBinding, CaptureBls, VerifySignature, Drop,
          GetPeerId, GetBls, Judge, Step
    <3>2. pc[d] \notin Busy
      BY <1>3, <2>1, <2>3
      DEF AloneInv, SoleInv, Busy, Verifying, Done, Refused, Handshake, Application,
          PresentLeaf, Resume, MayStart, VerifyChain, CapturePeerId, CheckPin, CheckBinding,
          CaptureBls, VerifySignature, Drop, GetPeerId, GetBls, Judge, Step
    <3> QED
      BY <2>1, <3>1, <3>2, OthersStay DEF AloneInv
  <2> QED
    BY <2>2, <2>3
<1> QED
  BY <1>1, <1>2, <1>3 DEF Next, AloneInv

(* One connection at a time, the cells are exactly the peer of each full   *)
(* handshake.                                                              *)
THEOREM ReadAloneCorrect == Spec => []ReadAloneIsExact
<1>1. Init => AloneInv
  BY DEF Init, AloneInv, OffInv, SoleInv, ExactFor, Busy, Verifying
<1>2. TypeInv /\ AloneInv => ReadAloneIsExact
  <2> SUFFICES ASSUME TypeInv, AloneInv, schedule = "alone", NEW c \in Conns \ resumed,
                      pc[c] = "read"
               PROVE  seen[c] = WhatPeerIs(c)
    BY DEF ReadAloneIsExact
  <2>1. seen[c].peer_id = derived(c) /\ seen[c].bls_pub = WhatPeerIs(c).bls_pub
    BY DEF AloneInv, ExactFor
  <2>2. /\ seen[c] = [peer_id |-> seen[c].peer_id, bls_pub |-> seen[c].bls_pub]
        /\ WhatPeerIs(c) = [peer_id |-> derived(c), bls_pub |-> WhatPeerIs(c).bls_pub]
    BY DEF TypeInv, TypeOK, WhatPeerIs
  <2> QED
    BY <2>1, <2>2
<1> QED
  BY <1>1, <1>2, TypeInit, TypeNext, DecisionInit, DecisionNext, AloneNext, PTL DEF Spec

=============================================================================
