------------------------------ MODULE MutualTls ------------------------------
(***************************************************************************)
(* One connection between two peers that both run this crate: a server     *)
(* with a ServerTls and a client with a ClientTls (src/src/config.rs), the *)
(* verifiers of both (src/src/verify.rs) and an application that sends one *)
(* message each way and waits for the other's. The module composes the     *)
(* configurations, the leaves NodeCert issues (DigCa) and their binding.   *)
(*                                                                         *)
(* The handshake itself is rustls' and external: when it calls a verifier, *)
(* what the peer gets to know of the answer, and when. In TLS 1.3 the      *)
(* client is established before the server has looked at its certificate;  *)
(* in TLS 1.2 it waits for the server's Finished. The transport is TCP: it *)
(* may be lost at any moment, and an end that only reads need never be     *)
(* told. Nothing in the crate has a timeout or asks for a keepalive.       *)
(*                                                                         *)
(* The peers, their configurations and their clocks are chosen in Init.    *)
(***************************************************************************)
EXTENDS TlsConfigs, DigCa, Sequences

CONSTANTS
  Credentials, \* what a peer presents: records [cert, minted, owns]
  Clocks,      \* what a peer's clock may show at the handshake
  InUse,       \* the binding policies the peers use
  Versions     \* the protocol versions: a subset of {"1.2", "1.3"}

ASSUME MutualAssumption ==
  /\ Clocks \subseteq Int /\ InUse \subseteq Policies
  /\ Versions \subseteq {"1.2", "1.3"}
  /\ \A cr \in Credentials : cr.cert.spki \in Spkis /\ cr.cert.ext \in Extensions

Ends == {"client", "server"}
Peer(e) == IF e = "client" THEN "server" ELSE "client"

VARIABLES
  config,   \* the verifier of each end
  cred,     \* what each end presents: its leaf, the time its minter's clock
            \* showed, and whether it holds the leaf's key
  clock,    \* what each end's clock shows
  version,  \* the protocol version of the connection
  pc,       \* where each end is
  inbox,    \* what has been sent to each end and not been read
  link,     \* the transport: "up", or lost and then whom it tells:
            \* "both" ends, one of them, or "none"
  captured  \* the two cells of each end

world == <<config, cred, clock, version>>
vars  == <<world, pc, inbox, link, captured>>

Waiting     == {"start", "accept", "flight", "auth", "finished", "established", "reply"}
Established == {"established", "reply", "talked"}
Final       == {"talked", "refused", "failed"}
Losses      == {"both", "none"} \cup Ends
Messages    == {"hello", "flight", "auth", "finished", "x", "y", "alert"}

(* The types, and that a connection never has more in flight than an end's *)
(* last flight and what may follow it unanswered.                          *)
TypeOK ==
  /\ config \in [Ends -> Configs] /\ cred \in [Ends -> Credentials]
  /\ clock \in [Ends -> Clocks] /\ version \in Versions
  /\ pc \in [Ends -> Waiting \cup Final]
  /\ inbox \in [Ends -> Seq(Messages)] /\ \A e \in Ends : Len(inbox[e]) <= 2
  /\ link \in {"up"} \cup Losses
  /\ captured \in [Ends -> [peer_id : PeerIds \cup {NoPeer}, bls_pub : BlsKeys \cup {NoBls}]]

Empty == [peer_id |-> NoPeer, bls_pub |-> NoBls]

Init ==
  /\ config \in [Ends -> Configs]
  /\ config["server"] \in ServerConfigs /\ config["client"] \in ClientConfigs
  /\ \A e \in Ends : config[e].binding_policy \in InUse
  /\ cred \in [Ends -> Credentials] /\ clock \in [Ends -> Clocks]
  /\ version \in Versions
  /\ pc = [e \in Ends |-> IF e = "server" THEN "accept" ELSE "start"]
  /\ inbox = [e \in Ends |-> <<>>] /\ link = "up"
  /\ captured = [e \in Ends |-> Empty]

-----------------------------------------------------------------------------
(* verify_server_cert and verify_client_cert: whether end e accepts the    *)
(* leaf of its peer, and what its cells hold afterwards                    *)

Leaf(e) == cred[Peer(e)].cert

ChainOk(e, usage) ==
  config[e].require_ca_chain => verify_chain_to_dig_ca(Leaf(e), clock[e], usage)

PinOk(e) ==
  config[e].expected # NoPeer => peer_id_from_tls_spki_der(Leaf(e).spki) = config[e].expected

Binding(e) == evaluate(verify_binding_from_leaf_cert(Leaf(e)), config[e].binding_policy)

(* The cells after the verifier has come to pin_and_bind, those of a       *)
(* configuration nobody has used yet: a leaf it cannot parse leaves both   *)
(* as they were, a refused one the BLS cell.                               *)
Captures(e, ok) ==
  [ok      |-> ok,
   peer_id |-> IF Leaf(e).parses THEN peer_id_from_tls_spki_der(Leaf(e).spki) ELSE NoPeer,
   bls_pub |-> IF ok THEN Binding(e).bls_pub ELSE NoBls]

(* Faulty variant: a pin is not compared.                                  *)
PinAndBindUnpinned(e) == Captures(e, Leaf(e).parses /\ Binding(e).ok)

pin_and_bind(e) == Captures(e, Leaf(e).parses /\ PinOk(e) /\ Binding(e).ok)

Verdict(e, usage) ==
  IF ChainOk(e, usage) THEN pin_and_bind(e)
                       ELSE [ok |-> FALSE, peer_id |-> NoPeer, bls_pub |-> NoBls]

-----------------------------------------------------------------------------
(* What is sent on a lost transport is lost. *)
Append1(q, m) == IF m = "nothing" \/ link # "up" THEN q ELSE Append(q, m)

Send(e, m) == inbox' = [inbox EXCEPT ![Peer(e)] = Append1(@, m)]

(* End e reads m, answers it with `answer` and goes on to `to`.            *)
Answer(e, from, m, answer, to) ==
  /\ pc[e] = from
  /\ inbox[e] # <<>> /\ Head(inbox[e]) = m
  /\ pc' = [pc EXCEPT ![e] = to]
  /\ inbox' = [inbox EXCEPT ![e] = Tail(@), ![Peer(e)] = Append1(@, answer)]

ClientHello ==
  /\ pc["client"] = "start"
  /\ pc' = [pc EXCEPT !["client"] = "flight"]
  /\ Send("client", "hello")
  /\ UNCHANGED <<world, link, captured>>

(* Hello, certificate, certificate request, signature.                     *)
ServerFlight ==
  /\ Answer("server", "accept", "hello", "flight", "auth")
  /\ UNCHANGED <<world, link, captured>>

(* End e judges the leaf of its peer, then the peer's handshake signature; *)
(* if it accepts both it answers and goes on, else it sends an alert.      *)
Judge(e, from, m, usage, answer, to) ==
  LET accepts == Verdict(e, usage).ok /\ cred[Peer(e)].owns
  IN  /\ Answer(e, from, m, IF accepts THEN answer ELSE "alert",
                 IF accepts THEN to ELSE "refused")
      /\ captured' = [captured EXCEPT ![e] = [peer_id |-> Verdict(e, usage).peer_id,
                                              bls_pub |-> Verdict(e, usage).bls_pub]]
      /\ UNCHANGED <<world, link>>

VerifyServerCert ==
  Judge("client", "flight", "flight", "serverAuth", "auth",
        IF version = "1.3" THEN "established" ELSE "finished")

(* Faulty variant: a refusal by pin or binding does not return, blocked on *)
(* the cell whose lock it still holds.                                     *)
VerifyClientCertBlocks ==
  \/ /\ PinOk("server") /\ Binding("server").ok
     /\ Judge("server", "auth", "auth", "clientAuth",
              IF version = "1.2" THEN "finished" ELSE "nothing", "established")
  \/ /\ ~ (PinOk("server") /\ Binding("server").ok)
     /\ Answer("server", "auth", "auth", "nothing", "auth")
     /\ UNCHANGED <<world, link, captured>>

VerifyClientCert ==
  Judge("server", "auth", "auth", "clientAuth",
        IF version = "1.2" THEN "finished" ELSE "nothing", "established")

ServerFinished ==
  /\ Answer("client", "finished", "finished", "nothing", "established")
  /\ UNCHANGED <<world, link, captured>>

(* The applications: the client sends a request, the server answers it.    *)

ClientRequest ==
  /\ pc["client"] = "established"
  /\ pc' = [pc EXCEPT !["client"] = "reply"]
  /\ Send("client", "x")
  /\ UNCHANGED <<world, link, captured>>

ServerReply ==
  /\ Answer("server", "established", "x", "y", "talked")
  /\ UNCHANGED <<world, link, captured>>

ClientDone ==
  /\ Answer("client", "reply", "y", "nothing", "talked")
  /\ UNCHANGED <<world, link, captured>>

Told(e) == link \in {"both", e}

(* An end that waits learns of the other's refusal, by the alert or by the *)
(* end of the stream, or is told that the transport is lost.               *)
Fail(e) ==
  /\ pc[e] \in Waiting
  /\ IF inbox[e] = <<>> THEN Told(e) \/ (link = "up" /\ pc[Peer(e)] \in Final)
                        ELSE Head(inbox[e]) = "alert"
  /\ pc' = [pc EXCEPT ![e] = "failed"]
  /\ UNCHANGED <<world, inbox, link, captured>>

(* Of what is under way, any first part still arrives. Each end may or may *)
(* not be told: by a reset, or when what it sent is not acknowledged.      *)
LoseLink ==
  /\ link = "up"
  /\ link' \in Losses
  /\ \E n \in [Ends -> 0 .. 2] :
       /\ \A e \in Ends : n[e] <= Len(inbox[e])
       /\ inbox' = [e \in Ends |-> SubSeq(inbox[e], 1, n[e])]
  /\ UNCHANGED <<world, pc, captured>>

Client == ClientHello \/ VerifyServerCert \/ ServerFinished \/ ClientRequest
          \/ ClientDone \/ Fail("client")

Server == ServerFlight \/ VerifyClientCert \/ ServerReply \/ Fail("server")

Next == Client \/ Server \/ LoseLink

Spec == Init /\ [][Next]_vars

(* Both applications drive their connection until it is over, and a read   *)
(* returns what arrived and the errors the transport reports. The loss of  *)
(* the transport owes nobody anything, a report included.                  *)
FairSpec == Spec /\ WF_vars(Client) /\ WF_vars(Server)

-----------------------------------------------------------------------------
(* What the documentation asks of a peer, said of how its leaf was made    *)
(* and of the clocks, without the operators of the verifiers: the leaf is  *)
(* a certificate, minted with the DigNetwork CA no more than an hour ahead of e's clock   *)
(* and no more than ten years ago, it has the peer_id e expects, and the   *)
(* holder of a BLS key has bound it, or it has no binding and need not.    *)

Admits(e) ==
  LET peer == cred[Peer(e)] IN
  /\ peer.cert.parses
  /\ config[e].require_ca_chain =>
       /\ peer.cert.signed_by = DIG_CA_KEY
       /\ clock[e] \in peer.minted - CLOCK_SKEW_BACKDATE .. peer.minted + LEAF_LIFETIME
  /\ config[e].expected \in {NoPeer, peer_id_from_tls_spki_der(peer.cert.spki)}
  /\ \/ config[e].binding_policy = "Off"
     \/ BoundKeys(peer.cert) # {}
     \/ config[e].binding_policy = "Opportunistic" /\ peer.cert.ext.kind = "none"

(* End e knows who its peer is: it admits it, the peer holds the key of    *)
(* its leaf, and the cells name this very peer and a key bound to it.      *)
Knows(e) ==
  /\ Admits(e) /\ cred[Peer(e)].owns
  /\ captured[e].peer_id = peer_id_from_tls_spki_der(Leaf(e).spki)
  /\ captured[e].bls_pub = NoBls \/ captured[e].bls_pub \in BoundKeys(Leaf(e))
  /\ config[e].binding_policy = "Required" => captured[e].bls_pub # NoBls

(* "client auth is MANDATORY -- this is mutual TLS": a server has a client *)
(* only when each of the two knows the other, whatever the versions,       *)
(* clocks and modes of the two ends.                                       *)
ServerEndIsMutual ==
  pc["server"] \in Established => Knows("server") /\ Knows("client")

(* An established client of TLS 1.3 may not have been accepted. One that   *)
(* has got an answer has, and then both ends know each other.              *)
ReplyMeansMutual ==
  pc["client"] = "talked" =>
    pc["server"] = "talked" /\ Knows("client") /\ Knows("server")

(* What an end that waits is waiting for.                                  *)
Awaited == [accept   |-> "hello",    flight      |-> "flight", auth  |-> "auth",
            finished |-> "finished", established |-> "x",      reply |-> "y"]

(* End e has something to do: to send, to read what it waits for, or to    *)
(* learn that there will be nothing to read.                               *)
CanAct(e) ==
  /\ pc[e] \in Waiting
  /\ \/ e = "client" /\ pc[e] \in {"start", "established"}
     \/ inbox[e] # <<>> /\ Head(inbox[e]) \in {Awaited[pc[e]], "alert"}
     \/ inbox[e] = <<>> /\ (Told(e) \/ (link = "up" /\ pc[Peer(e)] \in Final))

(* The transport is lost and end e is not told.                            *)
CutOff(e) == link # "up" /\ ~ Told(e)

(* Without any timeout in the crate: an end that waits has something to do *)
(* or, while the transport lasts, its peer has. Only an end that is not    *)
(* told of the loss of the transport can be stuck.                         *)
NobodyStuck ==
  \A e \in Ends :
    pc[e] \in Waiting /\ ~ CutOff(e) =>
      CanAct(e) \/ (link = "up" /\ CanAct(Peer(e)))

(* No refusal, alert or reported loss of the transport leaves an end       *)
(* waiting for good. A loss that is not reported does: the crate leaves    *)
(* timeouts to its caller.                                                 *)
BothSettle == \A e \in Ends : <>[](pc[e] \in Final \/ CutOff(e))

(* Two peers whose clocks are within the allowed hour, whose leaves have   *)
(* not expired and who satisfy each other's policy.                        *)
Compatible == \A e \in Ends : Admits(e) /\ cred[e].owns

(* While the transport lasts neither of them refuses or gives up.          *)
CompatibleNeverFail ==
  Compatible /\ link = "up" => \A e \in Ends : pc[e] \notin {"refused", "failed"}

(* They do talk.                                                           *)
CompatiblePeersTalk == Compatible ~> (pc["client"] = "talked" \/ link # "up")

=============================================================================
