---------------------------- MODULE PeerVerifier ----------------------------
(***************************************************************************)
(* The certificate verifier of one rustls configuration                    *)
(* (src/src/verify.rs) and the connections that share it                   *)
(* (src/src/config.rs). A configuration is built once and serves many      *)
(* connections; its two capture cells, captured_peer_id and captured_bls,  *)
(* belong to the configuration and not to a connection, so every handshake *)
(* writes the same two cells.                                              *)
(*                                                                         *)
(* rustls itself is external: it calls verify_server_cert or               *)
(* verify_client_cert when the peer's certificate arrives, checks the      *)
(* peer's handshake signature afterwards, and may resume a session without *)
(* calling the verifier. The verifier of a server and that of a client run *)
(* the same steps; they differ in what the builders pass for `expected`.   *)
(***************************************************************************)
EXTENDS TlsConfigs

CONSTANTS
  Conns,      \* the connections of the configuration
  Leaves,     \* the leaves peers present; `chains`: webpki finds a valid
              \* path from the leaf to the DigNetwork CA
  NoLeaf,     \* no certificate yet
  Schedules,  \* how connections follow each other: see Schedule
  Resumption  \* TRUE: rustls resumes sessions (its default in both builders)

ASSUME VerifierAssumption ==
  /\ Leaves \subseteq [parses : BOOLEAN, chains : BOOLEAN, spki : Spkis, ext : Extensions]
  /\ NoLeaf \notin Leaves
  /\ Schedules \subseteq {"alone", "overlapping"}
  /\ Resumption \in BOOLEAN

VARIABLES
  config,       \* the configuration; fixed
  schedule,     \* the application's use of it, of Schedules; fixed
  pc,           \* where each connection is
  leaf,         \* the leaf the peer of each connection presented
  owns,         \* TRUE: that peer holds the private key of its leaf
  captured,     \* the CapturedPeerId cell
  captured_bls, \* the CapturedBlsPub cell
  tickets,      \* the leaves whose sessions rustls can resume
  resumed,      \* the connections that resumed a session
  seen          \* what the application of each connection read from the cells

cells == <<captured, captured_bls>>
peers == <<leaf, owns>>
fixed == <<config, schedule>>
vars  == <<fixed, pc, peers, cells, tickets, resumed, seen>>

Verifying == {"chain", "capture", "pin", "bind", "captureBls", "signature"}
Refused   == {"badChain", "badPin", "badBinding", "badSignature"}
Done      == {"read", "dropped"} \cup Refused
Accepted  == {"established", "readBls", "read"}

TypeOK ==
  /\ config \in Configs /\ schedule \in Schedules
  /\ pc \in [Conns -> {"new"} \cup Verifying \cup Accepted \cup Done]
  /\ leaf \in [Conns -> Leaves \cup {NoLeaf}] /\ owns \in [Conns -> BOOLEAN]
  /\ captured \in PeerIds \cup {NoPeer}
  /\ captured_bls \in BlsKeys \cup {NoBls}
  /\ tickets \in SUBSET Leaves /\ resumed \in SUBSET Conns
  /\ seen \in [Conns -> [peer_id : PeerIds \cup {NoPeer}, bls_pub : BlsKeys \cup {NoBls}]]

Init ==
  /\ config \in Configs /\ schedule \in Schedules
  /\ pc = [c \in Conns |-> "new"]
  /\ leaf = [c \in Conns |-> NoLeaf] /\ owns = [c \in Conns |-> FALSE]
  /\ captured = NoPeer /\ captured_bls = NoBls
  /\ tickets = {} /\ resumed = {}
  /\ seen = [c \in Conns |-> [peer_id |-> NoPeer, bls_pub |-> NoBls]]

-----------------------------------------------------------------------------
Step(c, from, to) == pc[c] = from /\ pc' = [pc EXCEPT ![c] = to]

(* "alone": the application starts a connection only when it is done with  *)
(* the one before, its reads of the cells included. "overlapping": it does *)
(* not wait.                                                               *)
MayStart(c) ==
  schedule = "alone" => \A d \in Conns \ {c} : pc[d] \in {"new"} \cup Done

PresentLeaf(c) ==
  /\ MayStart(c)
  /\ Step(c, "new", "chain")
  /\ \E l \in Leaves, o \in BOOLEAN : leaf' = [leaf EXCEPT ![c] = l] /\ owns' = [owns EXCEPT ![c] = o]
  /\ UNCHANGED <<fixed, cells, tickets, resumed, seen>>

(* rustls resumes a session: the peer of an earlier full handshake, and no *)
(* call of the verifier.                                                   *)
Resume(c) ==
  /\ Resumption
  /\ MayStart(c)
  /\ Step(c, "new", "established")
  /\ \E l \in tickets : leaf' = [leaf EXCEPT ![c] = l]
  /\ owns' = [owns EXCEPT ![c] = TRUE]
  /\ resumed' = resumed \cup {c}
  /\ UNCHANGED <<fixed, cells, tickets, seen>>

-----------------------------------------------------------------------------
(* verify_server_cert and verify_client_cert *)

Judge(c, from, verdict, to, refusal) ==
  /\ Step(c, from, IF verdict THEN to ELSE refusal)
  /\ UNCHANGED <<fixed, peers, cells, tickets, resumed, seen>>

verify_chain_to_dig_ca(l) == l.parses /\ l.chains

(* Faulty variant: a pin is taken for a reason to skip the chain.          *)
VerifyChainUnlessPinned(c) ==
  Judge(c, "chain", config.require_ca_chain /\ config.expected = NoPeer
                      => verify_chain_to_dig_ca(leaf[c]),
        "capture", "badChain")

VerifyChain(c) ==
  Judge(c, "chain", config.require_ca_chain => verify_chain_to_dig_ca(leaf[c]),
        "capture", "badChain")

derived(c) == peer_id_from_tls_spki_der(leaf[c].spki)

(* peer_id_from_leaf_cert_der fails on a leaf that does not parse;         *)
(* otherwise the cell is written before anything about the id is checked.  *)
CapturePeerId(c) ==
  /\ Step(c, "capture", IF leaf[c].parses THEN "pin" ELSE "badChain")
  /\ captured' = IF leaf[c].parses THEN derived(c) ELSE captured
  /\ UNCHANGED <<fixed, peers, captured_bls, tickets, resumed, seen>>

CheckPin(c) ==
  Judge(c, "pin", config.expected # NoPeer => derived(c) = config.expected,
        IF config.binding_policy = "Off" THEN "signature" ELSE "bind", "badPin")

Evaluated(c) ==
  evaluate(verify_binding_from_leaf_cert(leaf[c]), config.binding_policy)

CheckBinding(c) == Judge(c, "bind", Evaluated(c).ok, "captureBls", "badBinding")

(* Faulty variant: an absent binding leaves the cell as it was.            *)
CaptureBlsIfBound(c) ==
  /\ Step(c, "captureBls", "signature")
  /\ captured_bls' = IF Evaluated(c).bls_pub = NoBls THEN captured_bls ELSE Evaluated(c).bls_pub
  /\ UNCHANGED <<fixed, peers, captured, tickets, resumed, seen>>

CaptureBls(c) ==
  /\ Step(c, "captureBls", "signature")
  /\ captured_bls' = Evaluated(c).bls_pub
  /\ UNCHANGED <<fixed, peers, captured, tickets, resumed, seen>>

(* verify_tls13_signature: the peer proves that it holds the leaf's key.   *)
VerifySignature(c) ==
  /\ Step(c, "signature", IF owns[c] THEN "established" ELSE "badSignature")
  /\ tickets' = IF owns[c] THEN tickets \cup {leaf[c]} ELSE tickets
  /\ UNCHANGED <<fixed, peers, cells, resumed, seen>>

(* The peer goes away during the handshake.                                *)
Drop(c) ==
  /\ pc[c] \in Verifying
  /\ pc' = [pc EXCEPT ![c] = "dropped"]
  /\ UNCHANGED <<fixed, peers, cells, tickets, resumed, seen>>

-----------------------------------------------------------------------------
(* The application, after the handshake: captured_peer_id.get() and then   *)
(* captured_bls.get(), each under a lock of its own.                       *)

GetPeerId(c) ==
  /\ Step(c, "established", "readBls")
  /\ seen' = [seen EXCEPT ![c].peer_id = captured]
  /\ UNCHANGED <<fixed, peers, cells, tickets, resumed>>

GetBls(c) ==
  /\ Step(c, "readBls", "read")
  /\ seen' = [seen EXCEPT ![c].bls_pub = captured_bls]
  /\ UNCHANGED <<fixed, peers, cells, tickets, resumed>>

Handshake(c) == PresentLeaf(c) \/ Resume(c) \/ VerifyChain(c) \/ CapturePeerId(c)
                \/ CheckPin(c) \/ CheckBinding(c) \/ CaptureBls(c)
                \/ VerifySignature(c) \/ Drop(c)

Application(c) == GetPeerId(c) \/ GetBls(c)

Next == \E c \in Conns : Handshake(c) \/ Application(c)

Spec == Init /\ [][Next]_vars

-----------------------------------------------------------------------------
(* The policy of SPEC 4.1, 5 and 5.1, stated of the leaf and without the   *)
(* verifier's operators. A binding is valid when the holder of the BLS key *)
(* attached it to this very SPKI.                                          *)

Admissible(l) ==
  /\ l.parses
  /\ config.require_ca_chain => l.chains
  /\ config.expected # NoPeer => peer_id_from_tls_spki_der(l.spki) = config.expected
  /\ \/ config.binding_policy = "Off"
     \/ BoundKeys(l) # {}
     \/ config.binding_policy = "Opportunistic" /\ l.ext.kind = "none"

(* However handshakes interleave or resume, a connection is established    *)
(* only with a peer that holds its leaf's key and whose leaf the policy    *)
(* admits, and no leaf the policy admits is refused by the verifier.       *)
DecisionFollowsPolicy ==
  \A c \in Conns :
    /\ pc[c] \in Accepted => owns[c] /\ Admissible(leaf[c])
    /\ pc[c] \in Refused \ {"badSignature"} => ~ Admissible(leaf[c])

(* A BLS key in the cell is bound, by its holder, to the peer_id of a leaf *)
(* this configuration admits: with a pin, to the expected peer's. This is  *)
(* what a sender that seals to the key relies on.                          *)
CapturedBlsIsBound ==
  captured_bls # NoBls =>
    \E c \in Conns : /\ leaf[c] # NoLeaf
                     /\ Admissible(leaf[c])
                     /\ captured_bls \in BoundKeys(leaf[c])

(* With the CA required, the identity of a leaf that does not chain is     *)
(* never captured (tests/mtls_handshake.rs).                               *)
ForeignNeverCaptured ==
  config.require_ca_chain /\ captured # NoPeer =>
    \E c \in Conns : leaf[c] # NoLeaf /\ leaf[c].chains /\ derived(c) = captured

WhatPeerIs(c) ==
  [peer_id |-> derived(c),
   bls_pub |-> IF config.binding_policy = "Off" \/ BoundKeys(leaf[c]) = {} THEN NoBls
               ELSE CHOOSE k \in BoundKeys(leaf[c]) : TRUE]

(* An application that uses the configuration for one connection at a time *)
(* reads, after a full handshake, the peer of that handshake: nothing is   *)
(* left over from an earlier one, failed or not.                           *)
ReadAloneIsExact ==
  schedule = "alone" =>
    \A c \in Conns \ resumed : pc[c] = "read" => seen[c] = WhatPeerIs(c)

(* "read captured_peer_id after the handshake to learn who connected".     *)
WhoConnected == \A c \in Conns : pc[c] = "read" => seen[c].peer_id = derived(c)

(* captured_bls is "the BLS G1 pubkey the client's `peer_id` is bound to": *)
(* a key read after the peer_id is bound to that very peer_id, by a leaf   *)
(* that a peer presented.                                                  *)
ReadsOnePeer ==
  \A c \in Conns : pc[c] = "read" /\ seen[c].bls_pub # NoBls =>
    \E d \in Conns : /\ leaf[d] # NoLeaf
                     /\ seen[c].peer_id = derived(d)
                     /\ seen[c].bls_pub \in BoundKeys(leaf[d])

(* An unknown version is "no binding this verifier understands", not       *)
(* tampering (SPEC 4): to Opportunistic it is an absent binding.           *)
UnknownVersionIsAbsent ==
  \A c \in Conns : pc[c] = "badBinding" /\ leaf[c].ext.kind = "other"
                     => config.binding_policy = "Required"

=============================================================================
